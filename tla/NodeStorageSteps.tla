-------------------------- MODULE NodeStorageSteps --------------------------
(***************************************************************************)
(* Commits, readers, the flushes of the persist worker, and a crash with   *)
(* the reopen that follows it keep the invariant of NodeStorage.           *)
(***************************************************************************)
EXTENDS NodeStorageLists

-----------------------------------------------------------------------------
(* Commit and readers                                                      *)

Listed(revision, revs) == \E j \in 1..Len(revs) : revs[j] = revision

\* The revisions from the k-th on stay where they can be found.
LEMMA StaysKept ==
  ASSUME NEW S, NEW K \in Nat, NEW revs \in Seq(Revision(S, K)), NEW k \in 0..(Len(revs) - 1),
         NEW r \in Revision(S, K), NEW i \in 1..Len(revs), k < i
  PROVE  Listed(revs[i], Advanced(revs, k, r))
<1> DEFINE L == Len(revs)
           new == Advanced(revs, k, r)
<1>1. L \in Nat /\ k \in 0..Len(revs)
  OBVIOUS
<1>2. Len(new) = L - k + 1 /\ \A j \in 1..(L - k) : new[j] = revs[j + k]
  BY <1>1, AdvancedElements
<1> HIDE DEF L, new
<1>3. PICK j \in 1..(L - k) : j + k = i /\ j \in 1..Len(new)
  <2>1. i \in 1..L /\ k \in 0..L /\ k < i
    BY <1>1, Zenon DEF L
  <2>2. i - k \in 1..(L - k) /\ i - k + k = i /\ i - k \in 1..Len(new)
    BY <1>1, <1>2, <2>1
  <2>. QED
    BY <2>2, Zenon
<1>. QED
  BY <1>2, <1>3, Zenon DEF new, Listed

\* A commit adds a revision, and hands over the lists of the ones it drops.
LEMMA CommitEffect ==
  ASSUME Counting, NEW S, NEW K, Setting(S, K), HistoryInv(S, K), NEW t \in NewTries, Commit(t)
  PROVE  \E k \in 0..(Len(revisions) - 1), r \in Revision(S, K) :
           /\ NewRevision(r, revisions[Len(revisions)], commits, S, K)
           /\ commits < K /\ commits' = commits + 1
           /\ revisions' = Advanced(revisions, k, r) /\ pendingReaps' = Handed(pendingReaps, revisions, k)
           /\ \A i \in 1..k : revisions[i].no \notin held
           /\ \A i \in 1..Len(revisions) : revisions[i].no >= header.root => k < i
<1> DEFINE L == Len(revisions)
           D == NodesOf(Current.trie) \ NodesOf(t)
           r == [no |-> commits + 1, trie |-> t, deleted |-> D]
<1>1. History(revisions, commits, S, K) /\ Kept(revisions, header.root, header.trie)
  BY Zenon DEF HistoryInv
<1> USE DEF Setting
<1>2. Outstanding < MaxGap /\ commits < K
  BY Zenon DEF Commit
<1>3. /\ Popped \in 0..(L - 1) /\ \A i \in 1..Popped : revisions[i].no \notin held
      /\ \A i \in 1..L : revisions[i].no >= header.root => Popped < i
  BY <1>1, <1>2, PoppedBehind, Zenon
<1>4. commits \in 0..K /\ commits + 1 \in 0..K
  BY <1>1, <1>2 DEF History
<1>5. revisions[L] \in Revision(S, K) /\ Current = revisions[L]
  BY <1>1 DEF History, Current
<1>6. Current.trie \in [S -> 0..K]
  BY <1>5, Zenon DEF Revision
<1>7. t \in [S -> 0..K] /\ \A s \in S : t[s] \in {Current.trie[s], commits + 1, 0}
  <2>1. t \in [S -> {0, commits + 1} \cup {Current.trie[s] : s \in S}]
    BY Zenon DEF NewTries
  <2>2. \A s \in Leaves : t[s] \in {Current.trie[s], commits + 1, 0}
    BY Zenon DEF Commit
  <2>3. t["root"] \in {commits + 1, 0}
    BY Zenon DEF Commit
  <2>. QED
    BY <2>1, <2>2, <2>3, <1>4, <1>6 DEF Slots
<1>8. D = {n \in Node(S, K) : In(n, Current.trie) /\ ~In(n, t)}
  BY <1>6, <1>7, NodesOfTrie
<1> HIDE DEF D
<1>9. /\ r \in Revision(S, K) /\ r.no = commits + 1 /\ r.trie = t /\ r.deleted = D
  <2>1. D \subseteq Node(S, K)
    BY <1>8, Zenon
  <2>. QED
    BY <2>1, <1>4, <1>7, Zenon DEF Revision
<1>10. NewRevision(r, revisions[L], commits, S, K)
  <2> HIDE DEF r
  <2>. QED
    BY <1>5, <1>7, <1>8, <1>9, Zenon DEF NewRevision
<1>11. /\ revisions' = Advanced(revisions, Popped, r) /\ pendingReaps' = Handed(pendingReaps, revisions, Popped)
       /\ commits' = commits + 1
  BY Zenon DEF Commit, Advanced, Handed, D
<1> HIDE DEF r
<1>. QED
  BY <1>2, <1>3, <1>9, <1>10, <1>11, Zenon

\* Storage and caches keep their places while nodes join that are in memory only.
LEMMA MoreNodes ==
  ASSUME NEW S, NEW K \in Nat, NEW O, NEW O2, NEW f, NEW m, NEW h, NEW d,
         TypeInv(S, K), HeaderInv(S), PlaceInv(O, S, K), Stack(f, m, h, d, O),
         O \subseteq O2, O2 \subseteq Node(S, K), commits \in Nat, commits' = commits + 1,
         \A n \in O2 : n \in O \/ n[2] = commits + 1,
         UNCHANGED <<loc, disk, header, diskHeader, task, crashes, links>>
  PROVE  PlaceInv(O2, S, K)' /\ Stack(f, m, h, d, O2)'
<1>1. \A n \in O2 : n \in O \/ (loc[n].st = "unpersisted" /\ loc[n].at = Nil)
  BY DEF TypeInv, PlaceInv
<1>2. header.size \in Nat /\ diskHeader.size \in Nat
  BY DEF TypeInv, Header
<1>3. PlaceInv(O2, S, K)'
  <2>1. \A n \in Node(S, K) : n[2] > commits' => loc[n].st = "unpersisted"
    BY NodeParts DEF PlaceInv
  <2>2. \A n \in O2 : loc[n].at <= header.size
    BY <1>1, <1>2 DEF PlaceInv, Nil
  <2>3. \A n \in O2 : loc[n].at > diskHeader.size => Writing /\ In(n, task.trie)
    BY <1>1, <1>2 DEF PlaceInv, Nil
  <2>4. \A x, n \in O2 : loc[x].at = loc[n].at /\ loc[x].at # Nil => x = n
    BY <1>1, Zenon DEF PlaceInv
  <2>. QED
    BY <1>1, <2>1, <2>2, <2>3, <2>4, Zenon DEF PlaceInv, Writing
<1>4. Stack(f, m, h, d, O2)'
  BY <1>1, Zenon DEF Stack, Below, Top
<1>. QED
  BY <1>3, <1>4, Zenon

\* A commit keeps the invariant.
LEMMA CommitStep ==
  ASSUME Counting, NEW S, NEW K, NEW O, NEW f, NEW m, NEW h, NEW d, Setting(S, K),
         Sound(O, f, m, h, d, S, K), NEW t \in NewTries, Commit(t)
  PROVE  OpenInv(S, K)'
<1>1. /\ TypeInv(S, K) /\ HistoryInv(S, K) /\ TaskInv(S, K) /\ HeaderInv(S) /\ K \in Nat
      /\ PlaceInv(O, S, K) /\ Stack(f, m, h, d, O) /\ CacheInv(O) /\ O = Owned(S, K)
  BY Zenon DEF Sound, Setting
<1>2. UNCHANGED <<held, loc, disk, header, diskHeader, task, open, crashes, caches, views>>
  BY Zenon DEF Commit
<1>3. PICK k \in 0..(Len(revisions) - 1), r \in Revision(S, K) :
        /\ NewRevision(r, revisions[Len(revisions)], commits, S, K)
        /\ commits < K /\ commits' = commits + 1
        /\ revisions' = Advanced(revisions, k, r) /\ pendingReaps' = Handed(pendingReaps, revisions, k)
        /\ \A i \in 1..k : revisions[i].no \notin held
        /\ \A i \in 1..Len(revisions) : revisions[i].no >= header.root => k < i
  BY <1>1, CommitEffect, Zenon
<1>4. /\ History(revisions, commits, S, K) /\ Waiting(pendingReaps, revisions, ReapTodo, commits, S, K)
      /\ Len(revisions) \in Nat /\ revisions \in Seq(Revision(S, K)) /\ commits \in Nat
  <2>1. History(revisions, commits, S, K) /\ Waiting(pendingReaps, revisions, ReapTodo, commits, S, K)
    BY <1>1, Zenon DEF HistoryInv
  <2>2. revisions \in Seq(Revision(S, K)) /\ commits \in 0..K
    BY <2>1, Zenon DEF History
  <2>. QED
    BY <2>1, <2>2
<1>5. ReapTodo' = ReapTodo
  BY <1>2, Zenon DEF ReapTodo
<1>6. /\ History(revisions', commits', S, K)
      /\ Waiting(pendingReaps', revisions', ReapTodo, commits', S, K)
  <2>1. /\ History(Advanced(revisions, k, r), commits + 1, S, K)
        /\ Waiting(Handed(pendingReaps, revisions, k), Advanced(revisions, k, r), ReapTodo, commits + 1, S, K)
    BY <1>1, <1>3, <1>4, HistoryCommit, WaitingCommit, Zenon
  <2>. QED
    BY <2>1, <1>3, Zenon
<1>7. ASSUME NEW i \in 1..Len(revisions), k < i
      PROVE  \E j \in 1..Len(revisions') : revisions'[j] = revisions[i]
  <2>a. K \in Nat /\ revisions \in Seq(Revision(S, K))
    BY <1>1, <1>4, Zenon
  <2>1. Listed(revisions[i], Advanced(revisions, k, r))
    BY <2>a, <1>7, StaysKept, Zenon
  <2>. QED
    BY <2>1, <1>3, Zenon DEF Listed
<1>8. HistoryInv(S, K)'
  <2>1. Kept(revisions', header.root, header.trie)
    <3>1. PICK i \in 1..Len(revisions) : revisions[i].no = header.root /\ revisions[i].trie = header.trie
      BY <1>1, Zenon DEF HistoryInv, Kept
    <3>2. k < i
      <4>1. header.root >= header.root
        BY <1>1 DEF TypeInv, Header
      <4>. QED
        BY <3>1, <4>1, <1>3, Zenon
    <3>. QED
      BY <3>1, <3>2, <1>7, Zenon DEF Kept
  <2>2. ASSUME task.at \in {"allocate", "write"}
        PROVE  Kept(revisions', task.no, task.trie) /\ task.no > header.root
    <3>1. PICK i \in 1..Len(revisions) : revisions[i].no = task.no /\ revisions[i].trie = task.trie
      BY <2>2, <1>1, Zenon DEF HistoryInv, Kept
    <3>2. task.no > header.root
      BY <2>2, <1>1, Zenon DEF HistoryInv
    <3>3. k < i
      <4>1. task.no >= header.root
        BY <3>2, <1>1 DEF TypeInv, Header, Task
      <4>. QED
        BY <3>1, <4>1, <1>3, Zenon
    <3>. QED
      BY <3>1, <3>2, <3>3, <1>7, Zenon DEF Kept
  <2>3. \A x \in held : \E i \in 1..Len(revisions') : revisions'[i].no = x
    <3>1. SUFFICES ASSUME NEW x \in held PROVE \E i \in 1..Len(revisions') : revisions'[i].no = x
      BY Zenon
    <3>2. PICK i \in 1..Len(revisions) : revisions[i].no = x
      BY <1>1, Zenon DEF HistoryInv
    <3>3. k < i
      BY <3>2, <1>3, <1>4
    <3>. QED
      BY <3>2, <3>3, <1>7, Zenon
  <2>. QED
    BY <1>2, <1>5, <1>6, <2>1, <2>2, <2>3, Zenon DEF HistoryInv
<1>9. PICK O2 : O2 = Owned(S, K)'
  BY Zenon
<1>10. O \subseteq O2 /\ O2 \subseteq Node(S, K) /\ \A n \in O2 : n \in O \/ n[2] = commits + 1
  <2>1. O2 = {n \in Node(S, K) : OwnedBy(n, pendingReaps', revisions', ReapTodo)}
    BY <1>5, <1>9, Zenon DEF Owned
  <2>2. O = {n \in Node(S, K) : OwnedBy(n, pendingReaps, revisions, ReapTodo)}
    BY <1>1, Zenon DEF Owned
  <2>3. ASSUME NEW n \in Node(S, K)
        PROVE  /\ OwnedBy(n, pendingReaps, revisions, ReapTodo)
                    => OwnedBy(n, pendingReaps', revisions', ReapTodo)
               /\ OwnedBy(n, pendingReaps', revisions', ReapTodo)
                    => OwnedBy(n, pendingReaps, revisions, ReapTodo) \/ n[2] = commits + 1
    <3>a. /\ History(revisions, commits, S, K) /\ Waiting(pendingReaps, revisions, ReapTodo, commits, S, K)
          /\ K \in Nat /\ commits < K /\ NewRevision(r, revisions[Len(revisions)], commits, S, K)
      BY <1>1, <1>3, <1>4, Zenon
    <3>1. /\ OwnedBy(n, pendingReaps, revisions, ReapTodo)
               => OwnedBy(n, Handed(pendingReaps, revisions, k), Advanced(revisions, k, r), ReapTodo)
          /\ OwnedBy(n, Handed(pendingReaps, revisions, k), Advanced(revisions, k, r), ReapTodo)
               => OwnedBy(n, pendingReaps, revisions, ReapTodo) \/ n[2] = commits + 1
      BY <3>a, OwnedCommit, SMTT(30)
    <3>. QED
      BY <3>1, <1>3, Zenon
  <2>. QED
    BY <2>1, <2>2, <2>3, Zenon
<1>11. PlaceInv(O2, S, K)' /\ Stack(f, m, h, d, O2)'
  BY <1>1, <1>2, <1>3, <1>4, <1>10, MoreNodes, Zenon DEF caches
<1>12. TypeInv(S, K)' /\ TaskInv(S, K)' /\ HeaderInv(S)'
  BY <1>1, <1>2, Zenon DEF TypeInv, TaskInv, HeaderInv, Writing, caches, views
<1>13. CacheInv(O2)'
  <2>1. ASSUME reading.by \in held,
               \E i \in 1..Len(revisions) : revisions[i].no = reading.by /\ In(reading.got, revisions[i].trie)
        PROVE  \E i \in 1..Len(revisions') : revisions'[i].no = reading.by /\ In(reading.got, revisions'[i].trie)
    <3>1. PICK i \in 1..Len(revisions) : revisions[i].no = reading.by /\ In(reading.got, revisions[i].trie)
      BY <2>1, Zenon
    <3>2. k < i
      BY <2>1, <3>1, <1>3, <1>4
    <3>. QED
      BY <3>1, <3>2, <1>7, Zenon
  <2>. QED
    BY <1>1, <1>2, <1>5, <1>10, <2>1, Zenon DEF CacheInv, caches, views
<1>. QED
  BY <1>8, <1>9, <1>11, <1>12, <1>13, Zenon DEF OpenInv, Sound

\* Steps of readers and caches: they touch no area, and drop links at most.
LEMMA ViewStep ==
  ASSUME NEW S, NEW K, NEW O, NEW f, NEW m, NEW h, NEW d, Sound(O, f, m, h, d, S, K),
         UNCHANGED <<revisions, commits, pendingReaps, loc, disk, header, diskHeader, task, crashes>>,
         TypeInv(S, K)', \A r \in held' : \E i \in 1..Len(revisions) : revisions[i].no = r,
         \A a \in Areas : links'[a] \in {links[a], Missing}, CacheInv(O)'
  PROVE  OpenInv(S, K)'
<1>1. O = Owned(S, K)'
  BY Zenon DEF Sound, Owned, ReapTodo
<1>2. HistoryInv(S, K)' /\ TaskInv(S, K)' /\ HeaderInv(S)' /\ PlaceInv(O, S, K)'
  BY ZenonT(30) DEF Sound, HistoryInv, TaskInv, HeaderInv, PlaceInv, ReapTodo, Writing
<1>3. Stack(f, m, h, d, O)'
  BY DEF Sound, Stack
<1>. QED
  BY <1>1, <1>2, <1>3, Zenon DEF OpenInv, Sound

\* Readers come and go.
LEMMA HoldStep ==
  ASSUME NEW S, NEW K, NEW O, NEW f, NEW m, NEW h, NEW d, Setting(S, K), Sound(O, f, m, h, d, S, K),
         NEW r \in 0..commits, Hold(r) \/ Release(r)
  PROVE  OpenInv(S, K)'
<1>1. UNCHANGED <<revisions, commits, pendingReaps, loc, disk, header, diskHeader, task, crashes>>
  BY Zenon DEF Hold, Release
<1>2. UNCHANGED <<cache, links, proposal, reading, outlived>>
  BY Zenon DEF Hold, Release, caches, views
<1>3. commits \in 0..K /\ K \in Nat
  BY Zenon DEF Sound, HistoryInv, History, Setting
<1>4. TypeInv(S, K)'
  <2>1. held \subseteq 0..K /\ r \in 0..K
    BY <1>3 DEF Sound, TypeInv
  <2>2. held' = held \cup {r} \/ held' = held \ {r}
    BY Zenon DEF Hold, Release
  <2>3. held' \subseteq 0..K
    BY <2>1, <2>2, Zenon
  <2>. QED
    BY <1>1, <1>2, <2>3, Zenon DEF Sound, TypeInv
<1>5. \A x \in held' : \E i \in 1..Len(revisions) : revisions[i].no = x
  <2>1. \A x \in held : \E i \in 1..Len(revisions) : revisions[i].no = x
    BY Zenon DEF Sound, HistoryInv
  <2>2. DOMAIN revisions = 1..Len(revisions)
    BY DEF Sound, HistoryInv, History
  <2>. QED
    BY <2>1, <2>2, Zenon DEF Hold, Release
<1>6. CacheInv(O)'
  <2>1. reading.by \in held => reading.by \in held'
    BY Zenon DEF Hold, Release
  <2>. QED
    BY <1>1, <1>2, <2>1, Zenon DEF Sound, CacheInv, ReapTodo
<1>. QED
  BY <1>1, <1>2, <1>4, <1>5, <1>6, ViewStep, Zenon

\* A proposal is made of nodes that are not given to the reaper.
LEMMA ProposalStep ==
  ASSUME NEW S, NEW K, NEW O, NEW f, NEW m, NEW h, NEW d, Setting(S, K), Sound(O, f, m, h, d, S, K),
         Propose \/ DropProposal
  PROVE  OpenInv(S, K)'
<1>1. UNCHANGED <<revisions, commits, pendingReaps, held, loc, disk, header, diskHeader, task, crashes>>
  BY Zenon DEF Propose, DropProposal, memory
<1>2. UNCHANGED <<cache, links, reading, outlived>>
  BY Zenon DEF Propose, DropProposal, caches
<1>3. \A x \in held : \E i \in 1..Len(revisions) : revisions[i].no = x
  BY Zenon DEF Sound, HistoryInv
<1>4. History(revisions, commits, S, K) /\ Waiting(pendingReaps, revisions, ReapTodo, commits, S, K) /\ K \in Nat
  BY Zenon DEF Sound, HistoryInv, Setting
<1>5. ASSUME Propose PROVE proposal' \subseteq O \ ReapTodo /\ proposal' \subseteq Node(S, K) /\ proposal = {}
  <2>1. Len(revisions) \in 1..Len(revisions) /\ Current = revisions[Len(revisions)]
        /\ revisions[Len(revisions)] \in Revision(S, K)
    BY <1>4 DEF History, Current
  <2>2. Current.trie \in [S -> 0..K]
    BY <2>1, Zenon DEF Revision
  <2>3. proposal' = {n \in Node(S, K) : In(n, Current.trie)}
    BY <1>4, <1>5, <2>2, NodesOfTrie DEF Propose, Setting
  <2>4. \A n \in Node(S, K) : In(n, Current.trie) => OwnedBy(n, pendingReaps, revisions, ReapTodo) /\ n \notin ReapTodo
    BY <2>1, <1>4, Zenon DEF OwnedBy, Waiting
  <2>. QED
    BY <1>5, <2>3, <2>4, Zenon DEF Sound, Owned, Propose
<1>6. TypeInv(S, K)'
  BY <1>1, <1>2, <1>5, Zenon DEF Sound, TypeInv, DropProposal
<1>7. CacheInv(O)'
  <2>1. CASE Propose
    BY <2>1, <1>1, <1>2, <1>5, ZenonT(30) DEF Sound, CacheInv, ReapTodo
  <2>2. CASE DropProposal
    BY <2>2, <1>1, <1>2 DEF Sound, CacheInv, ReapTodo, DropProposal
  <2>. QED
    BY <2>1, <2>2, Zenon
<1>. QED
  BY <1>1, <1>2, <1>3, <1>6, <1>7, ViewStep, Zenon

\* What a read that missed the cache brings back is the node that was asked for,
\* and that node is not given to the reaper before it is cached.
LEMMA ReadStep ==
  ASSUME NEW S, NEW K, NEW O, NEW f, NEW m, NEW h, NEW d, Setting(S, K), Sound(O, f, m, h, d, S, K),
         NEW by \in held \cup {TheProposal}, NEW n \in Nodes, ReadNode(by, n)
  PROVE  OpenInv(S, K)'
<1>1. UNCHANGED <<revisions, commits, pendingReaps, held, loc, disk, header, diskHeader, task, crashes,
                  cache, links, proposal, outlived>>
  BY Zenon DEF ReadNode, memory, caches
<1>2. \A x \in held : \E i \in 1..Len(revisions) : revisions[i].no = x
  BY Zenon DEF Sound, HistoryInv
<1>3. /\ History(revisions, commits, S, K) /\ Waiting(pendingReaps, revisions, ReapTodo, commits, S, K)
      /\ K \in Nat /\ n \in Node(S, K) /\ TypeInv(S, K) /\ held \subseteq Int
  BY DEF Sound, HistoryInv, Setting, Nodes, Node, TypeInv
<1>4. /\ n \in NodesSeenBy(by) /\ loc[n].st = "persisted" /\ reading = NoRead
      /\ reading' = [by |-> by, area |-> loc[n].at, got |-> disk[loc[n].at].node]
  BY Zenon DEF ReadNode, AreaOf
<1>5. loc[n].at \in Areas /\ disk[loc[n].at] \in Cell(S, K)
  <2>1. loc[n] \in Location /\ loc[n].at # Nil
    BY <1>3, <1>4, Zenon DEF TypeInv
  <2>2. loc[n].at \in Areas
    BY <2>1 DEF Location, Areas, Nil
  <2>. QED
    BY <2>2, <1>3, Zenon DEF TypeInv
<1>6. reading' \in Reading(S, K)
  <2>1. by \in Int /\ loc[n].at \in 0..MaxAreas /\ disk[loc[n].at].node \in Node(S, K) \cup {NoNode}
    <3>1. by \in Int
      BY <1>3 DEF TheProposal
    <3>2. loc[n].at \in 0..MaxAreas
      BY <1>5 DEF Areas
    <3>3. disk[loc[n].at].node \in Node(S, K) \cup {NoNode}
      BY <1>5, Zenon DEF Cell
    <3>. QED
      BY <3>1, <3>2, <3>3, Zenon
  <2>. QED
    BY <2>1, <1>4, Zenon DEF Reading
<1>7. TypeInv(S, K)'
  BY <1>1, <1>3, <1>6, Zenon DEF TypeInv
<1>8. CASE by = TheProposal
  <2>1. n \in proposal
    BY <1>4, <1>8, Zenon DEF NodesSeenBy
  <2>2. CacheInv(O)'
    <3>1. SUFFICES ASSUME ~outlived PROVE CacheInv(O)'
      BY <1>1, Zenon DEF CacheInv
    <3>2. n \in O \ ReapTodo
      BY <2>1, <3>1, Zenon DEF Sound, CacheInv
    <3>3. disk[loc[n].at] = NodeCell(n)
      BY <3>2, <1>4, Zenon DEF Sound, PlaceInv
    <3>4. reading'.by = TheProposal /\ reading'.area = loc[n].at /\ reading'.got = n
      BY <3>3, <1>4, <1>8 DEF NodeCell
    <3>. QED
      BY <1>1, <1>4, <2>1, <3>1, <3>2, <3>4, Zenon DEF Sound, CacheInv, ReapTodo
  <2>. QED
    BY <2>2, <1>1, <1>2, <1>7, ViewStep, Zenon
<1>9. CASE by # TheProposal
  <2>1. PICK i \in 1..Len(revisions) : revisions[i].no = by /\ In(n, revisions[i].trie)
    <3>1. PICK i \in DOMAIN revisions : revisions[i].no = by /\ n \in NodesOf(revisions[i].trie)
      BY <1>4, <1>9, Zenon DEF NodesSeenBy
    <3>2. i \in 1..Len(revisions) /\ revisions[i] \in Revision(S, K)
      BY <1>3, <3>1 DEF History
    <3>3. revisions[i].trie \in [S -> 0..K]
      BY <3>2, Zenon DEF Revision
    <3>4. In(n, revisions[i].trie)
      BY <3>1, <3>3, <1>3, NodesOfTrie DEF Setting
    <3>. QED
      BY <3>1, <3>2, <3>4, Zenon
  <2>2. n \in O \ ReapTodo
    BY <2>1, <1>3, Zenon DEF Sound, Owned, OwnedBy, Waiting
  <2>3. disk[loc[n].at] = NodeCell(n)
    BY <2>2, <1>4, Zenon DEF Sound, PlaceInv
  <2>4. reading'.by = by /\ reading'.area = loc[n].at /\ reading'.got = n /\ by \in held
    BY <2>3, <1>4, <1>9, SMTT(20) DEF NodeCell
  <2>5. CacheInv(O)'
    BY <1>1, <1>4, <1>9, <2>1, <2>2, <2>4, ZenonT(30) DEF Sound, CacheInv, ReapTodo
  <2>. QED
    BY <2>5, <1>1, <1>2, <1>7, ViewStep, Zenon
<1>. QED
  BY <1>8, <1>9, Zenon

\* A cached node is the one read; an entry may leave the caches at any time.
LEMMA CacheStep ==
  ASSUME NEW S, NEW K, NEW O, NEW f, NEW m, NEW h, NEW d, Sound(O, f, m, h, d, S, K),
         CacheNode \/ \E a \in Areas : Evict(a)
  PROVE  OpenInv(S, K)'
<1>1. UNCHANGED <<revisions, commits, pendingReaps, held, loc, disk, header, diskHeader, task, crashes,
                  proposal, outlived>>
  BY Zenon DEF CacheNode, Evict, memory, views
<1>2. \A x \in held : \E i \in 1..Len(revisions) : revisions[i].no = x
  BY Zenon DEF Sound, HistoryInv
<1>3. TypeInv(S, K) /\ Missing \in (0..MaxAreas) \cup {Missing} /\ NoRead \in Reading(S, K)
  BY ScenarioAssumption DEF Sound, NoRead, Reading, Nobody, Nil
<1>4. CASE CacheNode
  <2>1. links' = links /\ reading' = NoRead
        /\ (cache' = cache \/ cache' = [cache EXCEPT ![reading.area] = reading.got])
    BY <1>4, Zenon DEF CacheNode
  <2>2. TypeInv(S, K)'
    BY <2>1, <1>1, <1>3, Zenon DEF TypeInv, Reading
  <2>3. CacheInv(O)'
    <3>1. SUFFICES ASSUME ~outlived PROVE CacheInv(O)'
      BY <1>1, Zenon DEF CacheInv
    <3>2. CacheInv(O) /\ ReapTodo' = ReapTodo /\ reading # NoRead
      BY <1>1, <1>4, Zenon DEF Sound, ReapTodo, CacheNode
    <3>3. ASSUME NEW a \in Areas, cache'[a] # NoNode
          PROVE  cache'[a] \in O \ ReapTodo /\ loc[cache'[a]].st = "persisted" /\ loc[cache'[a]].at = a
      <4>1. cache'[a] = cache[a] \/ (cache'[a] = reading.got /\ a = reading.area)
        BY <2>1, <1>3, Zenon DEF TypeInv
      <4>. QED
        BY <4>1, <3>1, <3>2, <3>3, Zenon DEF CacheInv
    <3>4. proposal \subseteq O \ ReapTodo
      BY <3>1, <3>2, Zenon DEF CacheInv
    <3>. QED
      BY <2>1, <1>1, <3>2, <3>3, <3>4, Zenon DEF CacheInv
  <2>. QED
    BY <2>1, <2>2, <2>3, <1>1, <1>2, ViewStep, Zenon
<1>5. CASE \E a \in Areas : Evict(a)
  <2>1. PICK a \in Areas : Evict(a)
    BY <1>5, Zenon
  <2>2. reading' = reading /\ cache' \in {cache, [cache EXCEPT ![a] = NoNode]}
        /\ links' \in {links, [links EXCEPT ![a] = Missing]}
    BY <2>1, Zenon DEF Evict, views
  <2>3. TypeInv(S, K)' /\ \A x \in Areas : links'[x] \in {links[x], Missing}
    BY <2>2, <1>1, <1>3, ZenonT(30) DEF TypeInv
  <2>4. CacheInv(O)'
    <3>1. CacheInv(O) /\ ReapTodo' = ReapTodo
      BY <1>1, Zenon DEF Sound, ReapTodo
    <3>2. ASSUME NEW x \in Areas, cache'[x] # NoNode PROVE cache'[x] = cache[x]
      BY <2>2, <1>3, <3>2, Zenon DEF TypeInv
    <3>. QED
      BY <2>2, <1>1, <3>1, <3>2, Zenon DEF CacheInv
  <2>. QED
    BY <2>3, <2>4, <1>1, <1>2, ViewStep, Zenon
<1>. QED
  BY <1>4, <1>5, Zenon

-----------------------------------------------------------------------------
(* The persist worker: the start, the free list and the header             *)

\* A persist starts with the newest revision: the nodes that it has still to place
\* are in memory only.
LEMMA StartPersistStep ==
  ASSUME NEW S, NEW K, NEW O, NEW f, NEW m, NEW h, NEW d, Setting(S, K), Sound(O, f, m, h, d, S, K),
         StartPersist
  PROVE  OpenInv(S, K)'
<1>1. UNCHANGED <<revisions, commits, pendingReaps, held, loc, disk, header, diskHeader, crashes,
                  cache, links, proposal, reading, outlived>>
  BY Zenon DEF StartPersist, memory, caches, views
<1>2. /\ History(revisions, commits, S, K) /\ K \in Nat /\ S = Slots /\ TypeInv(S, K)
      /\ HistoryInv(S, K) /\ TaskInv(S, K) /\ HeaderInv(S) /\ PlaceInv(O, S, K) /\ Stack(f, m, h, d, O) /\ CacheInv(O)
      /\ O = Owned(S, K)
  BY Zenon DEF Sound, HistoryInv, Setting
<1>3. Len(revisions) \in 1..Len(revisions) /\ Current \in Revision(S, K) /\ Current = revisions[Len(revisions)]
  BY <1>2 DEF History, Current
<1>4. Current.trie \in [S -> 0..K] /\ Current.no \in 0..K
  BY <1>3, Zenon DEF Revision
<1>5. /\ task.at = "idle" /\ Current.no > header.root
      /\ task' = [at |-> "allocate", trie |-> Current.trie, no |-> Current.no,
                  todo |-> {n \in NodesOf(Current.trie) : loc[n].st # "persisted"}, batch |-> {}, unwritten |-> {}]
  BY ZenonT(30) DEF StartPersist, Idle
<1>6. /\ task'.at = "allocate" /\ task'.trie = Current.trie /\ task'.no = Current.no /\ task'.batch = {} /\ task'.unwritten = {}
      /\ task'.todo = {n \in Node(S, K) : In(n, Current.trie) /\ loc[n].st # "persisted"}
  BY <1>5, <1>2, <1>4, NodesOfTrie
<1>7. \A n \in O : loc[n].st # "allocated"
  BY <1>2, <1>5, Zenon DEF TaskInv, PlaceInv, Writing
<1>8. ReapTodo' = ReapTodo
  BY <1>5, Zenon DEF ReapTodo
<1>9. \A n \in Node(S, K) : In(n, Current.trie) => n \in O
  BY <1>2, <1>3, Zenon DEF Owned, OwnedBy
<1>10. \A n \in Node(S, K) : loc[n].st \in {"unpersisted", "allocated", "persisted"}
  BY <1>2, Zenon DEF TypeInv, Location
<1>11. O = Owned(S, K)'
  BY <1>1, <1>2, <1>8, Zenon DEF Owned
<1>12. TypeInv(S, K)'
  <2>1. task' \in Task(S, K)
    BY <1>4, <1>5, <1>6, Zenon DEF Task
  <2>. QED
    BY <1>1, <1>2, <2>1, Zenon DEF TypeInv
<1>13. HistoryInv(S, K)'
  <2>1. Kept(revisions, task'.no, task'.trie)
    BY <1>3, <1>6, Zenon DEF Kept
  <2>. QED
    BY <1>1, <1>2, <1>5, <1>6, <1>8, <2>1, Zenon DEF HistoryInv
<1>14. TaskInv(S, K)'
  <2>1. task'.todo = {n \in Node(S, K) : In(n, Current.trie) /\ loc[n].st = "unpersisted"}
    BY <1>6, <1>7, <1>9, <1>10, ZenonT(30)
  <2>2. task'.batch = {n \in Node(S, K) : In(n, Current.trie) /\ loc[n].st = "allocated"}
    BY <1>6, <1>7, <1>9, ZenonT(30)
  <2>. QED
    BY <1>1, <1>6, <2>1, <2>2, Zenon DEF TaskInv, Writing
<1>15. HeaderInv(S)' /\ PlaceInv(O, S, K)'
  BY <1>1, <1>2, <1>5, <1>7, SMTT(20) DEF HeaderInv, PlaceInv, Writing
<1>16. Stack(f, m, h, d, O)'
  BY <1>1, <1>2, <1>6, ZenonT(30) DEF Stack
<1>17. CacheInv(O)'
  BY <1>1, <1>2, <1>8, Zenon DEF CacheInv
<1>. QED
  BY <1>11, <1>12, <1>13, <1>14, <1>15, <1>16, <1>17, Zenon DEF OpenInv, Sound

\* The free lists are flushed before the batch is written: from here on no list
\* leads through an area of the batch.
LEMMA FlushFreelistStep ==
  ASSUME NEW S, NEW K, NEW O, NEW f, NEW m, NEW h, NEW d, Sound(O, f, m, h, d, S, K),
         FlushFreelist
  PROVE  OpenInv(S, K)'
<1>1. UNCHANGED <<revisions, commits, pendingReaps, held, loc, disk, header, crashes,
                  cache, links, proposal, reading, outlived>>
  BY Zenon DEF FlushFreelist, memory, caches, views
<1>2. /\ TypeInv(S, K) /\ HistoryInv(S, K) /\ TaskInv(S, K) /\ HeaderInv(S) /\ PlaceInv(O, S, K)
      /\ Stack(f, m, h, d, O) /\ CacheInv(O) /\ O = Owned(S, K)
  BY Zenon DEF Sound
<1>3. /\ task.at = "allocate" /\ task.batch # {} /\ diskHeader' = [diskHeader EXCEPT !.free = header.free]
      /\ task' = [task EXCEPT !.at = "write", !.unwritten = task.batch]
  BY Zenon DEF FlushFreelist
<1>4. diskHeader' \in Header(S, K) /\ task' \in Task(S, K)
  BY <1>2, <1>3, Zenon DEF TypeInv, Header, Task
<1>5. /\ diskHeader'.root = diskHeader.root /\ diskHeader'.trie = diskHeader.trie
      /\ diskHeader'.size = diskHeader.size /\ diskHeader'.written = diskHeader.written
      /\ diskHeader'.free = header.free
  BY <1>2, <1>3, Zenon DEF TypeInv, Header
<1>6. /\ task'.at = "write" /\ task'.trie = task.trie /\ task'.no = task.no /\ task'.todo = task.todo
      /\ task'.batch = task.batch /\ task'.unwritten = task.batch
  BY <1>2, <1>3, Zenon DEF TypeInv, Task
<1>7. ReapTodo' = ReapTodo
  BY <1>3, <1>6, Zenon DEF ReapTodo
<1>8. O = Owned(S, K)'
  BY <1>1, <1>2, <1>7, Zenon DEF Owned
<1>9. TypeInv(S, K)'
  BY <1>1, <1>2, <1>4, Zenon DEF TypeInv
<1>10. HistoryInv(S, K)'
  BY <1>1, <1>2, <1>3, <1>6, <1>7, Zenon DEF HistoryInv
<1>11. TaskInv(S, K)'
  BY <1>1, <1>2, <1>3, <1>6, Zenon DEF TaskInv, Writing
<1>12. HeaderInv(S)'
  BY <1>1, <1>2, <1>5, Zenon DEF HeaderInv
<1>13. PlaceInv(O, S, K)'
  BY <1>1, <1>2, <1>3, <1>5, <1>6, Zenon DEF PlaceInv, Writing
<1>14. CacheInv(O)'
  BY <1>1, <1>2, <1>7, Zenon DEF CacheInv
<1>15. PICK g : g = [i \in 1..h |-> f[i]]
  BY Zenon
<1>16. h \in 0..m
  BY <1>2, Zenon DEF Stack
<1>17. /\ h \in Nat /\ 1..h \subseteq 1..m /\ m \in Nat /\ h \in 0..h
       /\ g \in [1..h -> Areas] /\ \A i \in 1..h : g[i] = f[i] /\ Below(g, i) = Below(f, i)
       /\ Top(g, h) = Top(f, h) /\ \A i, j \in 1..h : g[i] = g[j] => i = j
  BY <1>2, <1>15, <1>16, LowerPart
<1>18. Stack(g, h, h, h, O)'
  <2>1. h \in 0..h
    BY <1>17, Zenon
  <2>2. \A i, j \in 1..h : g[i] = g[j] => i = j
    BY <1>17, Zenon
  <2>3. \A i \in 1..h : disk[g[i]] = FreeCell(Below(g, i)) /\ g[i] <= diskHeader'.size
    BY <1>2, <1>5, <1>16, <1>17, ZenonT(30) DEF Stack
  <2>4. header.free = Top(g, h) /\ diskHeader'.free = Top(g, h)
    BY <1>2, <1>5, <1>17, Zenon DEF Stack
  <2>5. \A n \in O : loc[n].st = "allocated" => \A i \in 1..h : loc[n].at # g[i]
    BY <1>2, <1>17 DEF Stack
  <2>6. \A i \in 1..h : links[g[i]] \in {Missing, Below(g, i)}
    BY <1>2, <1>17, Zenon DEF Stack
  <2>7. crashes = 0 => \A a \in 1..header.size : (\E i \in 1..h : g[i] = a) \/ (\E n \in O : loc[n].at = a)
    BY <1>2, <1>17, Zenon DEF Stack
  <2>. QED
    BY <1>1, <1>16, <1>17, <2>1, <2>2, <2>3, <2>4, <2>5, <2>6, <2>7 DEF Stack
<1>. QED
  BY <1>8, <1>9, <1>10, <1>11, <1>12, <1>13, <1>14, <1>18, Zenon DEF OpenInv, Sound

\* The header is written last: by then the nodes of the trie it names are all
\* persisted.
LEMMA FlushHeaderStep ==
  ASSUME NEW S, NEW K, NEW O, NEW f, NEW m, NEW h, NEW d, Setting(S, K), Sound(O, f, m, h, d, S, K),
         FlushHeader
  PROVE  OpenInv(S, K)'
<1>1. UNCHANGED <<revisions, commits, pendingReaps, held, loc, disk, crashes,
                  cache, links, proposal, reading, outlived>>
  BY Zenon DEF FlushHeader, memory, caches, views
<1>2. /\ TypeInv(S, K) /\ HistoryInv(S, K) /\ TaskInv(S, K) /\ HeaderInv(S) /\ PlaceInv(O, S, K)
      /\ Stack(f, m, h, d, O) /\ CacheInv(O) /\ O = Owned(S, K)
      /\ K \in Nat /\ S = Slots
  BY Zenon DEF Sound, Setting
<1>3. /\ task.at = "allocate" /\ task.todo = {} /\ task.batch = {} /\ task' = Idle
      /\ header' = [header EXCEPT !.root = task.no, !.trie = task.trie] /\ diskHeader' = header'
  BY Zenon DEF FlushHeader
<1>4. task.no \in 0..K /\ task.trie \in [S -> 0..K] /\ NoTrie = [s \in S |-> 0]
  BY <1>2, Zenon DEF TypeInv, Task, NoTrie
<1>5. header' \in Header(S, K)
  BY <1>2, <1>3, <1>4, Zenon DEF TypeInv, Header
<1>6. /\ header'.root = task.no /\ header'.trie = task.trie /\ header'.size = header.size
      /\ header'.free = header.free /\ header'.written = header.written
  BY <1>2, <1>3, Zenon DEF TypeInv, Header
<1>7. /\ task'.at = "idle" /\ task'.trie = [s \in S |-> 0] /\ task'.no = 0 /\ task'.todo = {}
      /\ task'.batch = {} /\ task'.unwritten = {}
  BY <1>3, <1>4, Zenon DEF Idle
<1>8. task' \in Task(S, K)
  <2>1. 0 \in 0..K /\ [s \in S |-> 0] \in [S -> 0..K]
    BY <1>2
  <2>. QED
    BY <1>3, <1>4, <2>1, Zenon DEF Idle, Task
<1>9. ReapTodo' = ReapTodo
  BY <1>3, <1>7, Zenon DEF ReapTodo
<1>10. O = Owned(S, K)'
  BY <1>1, <1>2, <1>9, Zenon DEF Owned
<1>11. TypeInv(S, K)'
  BY <1>1, <1>2, <1>3, <1>5, <1>8, Zenon DEF TypeInv
<1>12. HistoryInv(S, K)'
  BY <1>1, <1>2, <1>3, <1>6, <1>7, <1>9 DEF HistoryInv
<1>13. TaskInv(S, K)'
  BY <1>1, <1>3, <1>7, Zenon DEF TaskInv, Writing
<1>14. HeaderInv(S)'
  <2>1. header.size \in Int
    BY <1>2, Sizes, Zenon
  <2>. QED
    BY <1>2, <1>3, <1>6, <2>1 DEF HeaderInv
<1>15. ASSUME NEW n \in O PROVE n \in Node(S, K) /\ loc[n].at \in Int /\ loc[n].at <= header.size
  <2>1. n \in Node(S, K) /\ loc[n].at <= header.size
    BY <1>2, Zenon DEF Owned, PlaceInv
  <2>2. loc[n] \in Location
    BY <2>1, <1>2, Zenon DEF TypeInv
  <2>. QED
    BY <2>1, <1>2, PlaceOf, Zenon
<1>16. ASSUME NEW n \in Node(S, K), In(n, task.trie) PROVE n \in O /\ loc[n].st = "persisted"
  <2>1. loc[n].st = "persisted"
    <3>1. loc[n].st \in {"unpersisted", "allocated", "persisted"}
      BY <1>2, Zenon DEF TypeInv, Location
    <3>. QED
      BY <1>2, <1>3, <1>16, <3>1, Zenon DEF TaskInv, Writing
  <2>2. Kept(revisions, task.no, task.trie)
    BY <1>2, <1>3, Zenon DEF HistoryInv
  <2>3. n \in O
    BY <1>2, <1>16, <2>2, Zenon DEF Kept, Owned, OwnedBy
  <2>. QED
    BY <2>1, <2>3, Zenon
<1>17. PlaceInv(O, S, K)'
  <2>1. \A n \in O : ~(loc[n].at > header.size)
    <3>1. header.size \in Int
      BY <1>2, Sizes, Zenon
    <3>. QED
      BY <3>1, <1>15
  <2>2. \A n \in O : loc[n].st # "allocated"
    BY <1>2, <1>3, Zenon DEF PlaceInv
  <2>3. \A n \in Node(S, K) : In(n, task.trie) => loc[n].st = "persisted" /\ loc[n].at <= header.size
    BY <1>15, <1>16, Zenon
  <2>. QED
    BY <1>1, <1>2, <1>3, <1>6, <2>1, <2>2, <2>3, Zenon DEF PlaceInv
<1>18. Stack(f, m, h, h, O)'
  <2>1. h \in 0..m /\ h <= h
    BY <1>2 DEF Stack
  <2>2. \A i \in 1..m : f[i] <= header.size
    <3>1. ASSUME NEW i \in 1..m PROVE f[i] \in Int /\ f[i] <= diskHeader.size
      BY <1>2 DEF Stack, Areas
    <3>2. diskHeader.size \in Int /\ header.size \in Int /\ diskHeader.size <= header.size
      BY <1>2, Sizes, Zenon DEF HeaderInv
    <3>. QED
      BY <3>1, <3>2, SMTT(20)
  <2>. QED
    BY <1>1, <1>2, <1>3, <1>6, <1>7, <2>1, <2>2, SMTT(20) DEF Stack
<1>19. CacheInv(O)'
  BY <1>1, <1>2, <1>9, Zenon DEF CacheInv
<1>. QED
  BY <1>10, <1>11, <1>12, <1>13, <1>14, <1>17, <1>18, <1>19, Zenon DEF OpenInv, Sound

-----------------------------------------------------------------------------
(* Crash and reopen                                                        *)

\* A restart finds what the header on disk names: a trie that is there in full, and
\* the free list from height d down.
LEMMA CrashAndReopenStep ==
  ASSUME NEW S, NEW K, NEW O, NEW f, NEW m, NEW h, NEW d, Setting(S, K), Sound(O, f, m, h, d, S, K),
         CrashAndReopen
  PROVE  OpenInv(S, K)'
<1>1. /\ UNCHANGED <<commits, disk, diskHeader>> /\ crashes' = crashes + 1
      /\ held' = {} /\ pendingReaps' = <<>> /\ task' = Idle
      /\ cache' = EmptyCache /\ links' = EmptyLinks
      /\ proposal' = {} /\ reading' = NoRead /\ outlived' = FALSE
  BY Zenon DEF CrashAndReopen
<1>2. /\ TypeInv(S, K) /\ HistoryInv(S, K) /\ HeaderInv(S) /\ PlaceInv(O, S, K)
      /\ Stack(f, m, h, d, O) /\ O = Owned(S, K) /\ K \in Nat /\ NoTrie = [s \in S |-> 0]
      /\ S = Slots /\ Nodes = Node(S, K)
  BY Zenon DEF Sound, Setting, NoTrie, Nodes, Node
<1>3. /\ header'.root = header.root /\ header'.trie = header.trie /\ header'.size = diskHeader.size
      /\ header'.free = diskHeader.free /\ header'.written /\ header' \in Header(S, K)
  <2>1. CASE diskHeader.written
    BY <2>1, <1>2, Zenon DEF CrashAndReopen, HeaderInv, TypeInv
  <2>2. CASE ~diskHeader.written
    <3>1. /\ header' = [root |-> 0, trie |-> NoTrie, size |-> 0, free |-> Nil, written |-> TRUE]
          /\ header.root = 0 /\ header.trie = NoTrie /\ diskHeader.size = 0 /\ diskHeader.free = Nil
      BY <2>2, <1>2, Zenon DEF CrashAndReopen, HeaderInv, EmptyHeader
    <3>2. 0 \in 0..K /\ NoTrie \in [S -> 0..K] /\ 0 \in 0..MaxAreas /\ Nil \in 0..MaxAreas
      BY <1>2, ScenarioAssumption DEF Nil
    <3>. QED
      BY <3>1, <3>2, Zenon DEF Header
  <2>. QED
    BY <2>1, <2>2, Zenon
<1>4. PICK r \in 1..Len(revisions) : revisions[r].no = header.root /\ revisions[r].trie = header.trie
  BY <1>2, ZenonT(30) DEF HistoryInv, Kept
<1>5. /\ header.root \in 0..K /\ header.trie \in [S -> 0..K] /\ commits \in header.root..K
      /\ \A s \in S : header.trie[s] <= header.root
  <2>1. header.root \in 0..K /\ header.trie \in [S -> 0..K]
    BY <1>2, Zenon DEF TypeInv, Header
  <2>2. commits \in 0..K /\ header.root <= commits /\ \A s \in S : header.trie[s] <= header.root
    BY <1>2, <1>4, Zenon DEF HistoryInv, History
  <2>. QED
    BY <2>1, <2>2
<1>6. revisions' = <<[no |-> header.root, trie |-> header.trie, deleted |-> {}]>>
  BY <1>3, Zenon DEF CrashAndReopen
<1>7. /\ History(revisions', commits, S, K) /\ Waiting(<<>>, revisions', {}, commits, S, K)
      /\ Kept(revisions', header.root, header.trie)
      /\ \A n : OwnedBy(n, <<>>, revisions', {}) <=> In(n, header.trie)
  BY <1>2, <1>5, <1>6, HistoryOpened, Zenon
<1>8. /\ task'.at = "idle" /\ task'.trie = [s \in S |-> 0] /\ task'.no = 0 /\ task'.todo = {}
      /\ task'.batch = {} /\ task'.unwritten = {}
  BY <1>1, <1>2, Zenon DEF Idle
<1>9. ReapTodo' = {} /\ ~Writing'
  BY <1>8, Zenon DEF ReapTodo, Writing
<1>10. PICK O2 : O2 = {n \in Node(S, K) : In(n, header.trie)}
  BY Zenon
<1>11. O2 = Owned(S, K)'
  BY <1>1, <1>7, <1>9, <1>10, Zenon DEF Owned
<1>12. /\ loc' = [n \in Node(S, K) |-> IF In(n, header.trie) THEN loc[n] ELSE InMemory]
       /\ InMemory \in Location /\ InMemory.st = "unpersisted" /\ InMemory.at = Nil
  <2>1. loc' = [n \in Nodes |-> IF n \in NodesOf(header.trie) THEN loc[n] ELSE InMemory]
    BY <1>3, Zenon DEF CrashAndReopen
  <2>2. \A n \in Node(S, K) : n \in NodesOf(header.trie) <=> In(n, header.trie)
    BY <1>2, <1>5, NodesOfTrie
  <2>3. loc' = [n \in Node(S, K) |-> IF In(n, header.trie) THEN loc[n] ELSE InMemory]
    BY <1>2, <2>1, <2>2, Zenon
  <2>. QED
    BY <2>3, ScenarioAssumption DEF InMemory, Location, Nil
<1>13. TypeInv(S, K)'
  <2>1. 0 \in 0..K /\ [s \in S |-> 0] \in [S -> 0..K] /\ crashes' \in Nat /\ {} \subseteq 0..K
    BY <1>1, <1>2 DEF TypeInv
  <2>2. task' \in Task(S, K)
    BY <1>1, <1>2, <2>1, Zenon DEF Idle, Task
  <2>3. loc' \in [Node(S, K) -> Location]
    BY <1>2, <1>12, Zenon DEF TypeInv
  <2>4. \A n \in Node(S, K) : loc'[n].st = "unpersisted" <=> loc'[n].at = Nil
    BY <1>2, <1>12, Zenon DEF TypeInv
  <2>5. /\ cache' \in [Areas -> Node(S, K) \cup {NoNode}] /\ links' \in [Areas -> (0..MaxAreas) \cup {Missing}]
        /\ reading' \in Reading(S, K) /\ outlived' \in BOOLEAN
    <3>1. cache' \in [Areas -> Node(S, K) \cup {NoNode}]
      BY <1>1, Zenon DEF EmptyCache
    <3>2. links' \in [Areas -> (0..MaxAreas) \cup {Missing}]
      BY <1>1, ZenonT(30) DEF EmptyLinks
    <3>3. reading' \in Reading(S, K)
      BY <1>1, ScenarioAssumption, SMTT(20) DEF NoRead, Reading, Nobody, Nil
    <3>. QED
      BY <1>1, <3>1, <3>2, <3>3, Zenon
  <2>. QED
    BY <1>1, <1>2, <1>3, <2>1, <2>2, <2>3, <2>4, <2>5, Zenon DEF TypeInv
<1>14. HistoryInv(S, K)'
  BY <1>1, <1>3, <1>7, <1>8, <1>9, Zenon DEF HistoryInv
<1>15. TaskInv(S, K)'
  BY <1>1, <1>3, <1>8, <1>9, Zenon DEF TaskInv
<1>16. HeaderInv(S)'
  <2>1. diskHeader.size \in Int
    BY <1>2, Sizes, Zenon
  <2>2. diskHeader.size <= diskHeader.size
    BY <1>2, Sizes, ZenonT(30)
  <2>. QED
    BY <1>1, <1>2, <1>3, <2>2, Zenon DEF HeaderInv
<1>17. ASSUME NEW n \in O2
       PROVE  /\ n \in Node(S, K) /\ n \in O /\ In(n, header.trie) /\ loc'[n] = loc[n] /\ loc[n].st = "persisted"
              /\ loc[n].at <= diskHeader.size /\ ~(loc[n].at > diskHeader.size)
  <2>1. n \in Node(S, K) /\ In(n, header.trie)
    BY <1>10, Zenon
  <2>2. n \in O
    BY <2>1, <1>2, <1>4, Zenon DEF Owned, OwnedBy
  <2>3. loc'[n] = loc[n] /\ loc[n].st = "persisted" /\ loc[n].at <= diskHeader.size /\ loc[n] \in Location
    BY <2>1, <1>2, <1>12, Zenon DEF PlaceInv, TypeInv
  <2>4. loc[n].at \in Int /\ diskHeader.size \in Int
    BY <2>1, <1>2, PlaceOf, Sizes, Zenon
  <2>. QED
    BY <2>1, <2>2, <2>3, <2>4
<1>18. PlaceInv(O2, S, K)'
  <2>1. \A n \in Node(S, K) : n[2] > commits => loc'[n].st = "unpersisted"
    BY <1>2, <1>12, Zenon DEF PlaceInv
  <2>2. \A n \in O2 : disk[loc'[n].at] = NodeCell(n)
    BY <1>2, <1>17, ZenonT(30) DEF PlaceInv
  <2>3. \A x, n \in O2 : loc'[x].at = loc'[n].at /\ loc'[x].at # Nil => x = n
    BY <1>2, <1>17, ZenonT(30) DEF PlaceInv
  <2>4. \A n \in Node(S, K) : In(n, header.trie) => n \in O2
    BY <1>10, Zenon
  <2>. QED
    BY <1>1, <1>3, <1>17, <2>1, <2>2, <2>3, <2>4, Zenon DEF PlaceInv
<1>19. PICK g : g = [i \in 1..d |-> f[i]]
  BY Zenon
<1>20. d \in 0..m
  BY <1>2, Zenon DEF Stack
<1>21. /\ d \in Nat /\ 1..d \subseteq 1..m /\ m \in Nat /\ d \in 0..d /\ d <= d
       /\ g \in [1..d -> Areas] /\ \A i \in 1..d : g[i] = f[i] /\ Below(g, i) = Below(f, i)
       /\ Top(g, d) = Top(f, d) /\ \A i, j \in 1..d : g[i] = g[j] => i = j
  BY <1>2, <1>19, <1>20, LowerPart
<1>22. Stack(g, d, d, d, O2)'
  <2>1. d \in 0..d /\ d <= d
    BY <1>21, Zenon
  <2>2. \A i, j \in 1..d : g[i] = g[j] => i = j
    BY <1>21, Zenon
  <2>3. \A i \in 1..d : disk[g[i]] = FreeCell(Below(g, i)) /\ g[i] <= diskHeader.size
    BY <1>2, <1>20, <1>21, Zenon DEF Stack
  <2>4. header'.free = Top(g, d) /\ diskHeader.free = Top(g, d)
    BY <1>2, <1>3, <1>21, Zenon DEF Stack
  <2>5. \A n \in O2 : loc'[n].st # "allocated"
    BY <1>17, Zenon
  <2>6. \A i \in 1..d : links'[g[i]] = Missing
    BY <1>1, <1>21, Zenon DEF EmptyLinks
  <2>7. crashes' # 0
    BY <1>1, <1>2 DEF TypeInv
  <2>. QED
    BY <1>1, <1>8, <1>20, <1>21, <2>1, <2>2, <2>3, <2>4, <2>5, <2>6, <2>7, Zenon DEF Stack
<1>23. CacheInv(O2)'
  BY <1>1, Zenon DEF CacheInv, EmptyCache
<1>. QED
  BY <1>11, <1>13, <1>14, <1>15, <1>16, <1>18, <1>22, <1>23, Zenon DEF OpenInv, Sound

\* A database that was opened, as Init describes it: no revision but the one the
\* header names, nothing in memory, and the free areas f[1..m].
LEMMA OpenedSound ==
  ASSUME NEW S, NEW K, NEW O, NEW f, NEW m, Setting(S, K),
         held = {}, pendingReaps = <<>>, task = Idle, crashes = 0,
         cache = EmptyCache, links = EmptyLinks, proposal = {}, reading = NoRead, outlived = FALSE,
         header \in Header(S, K), diskHeader \in Header(S, K), OpenedAt(header), HeaderInv(S),
         diskHeader.size = header.size, \A s \in S : header.trie[s] <= header.root,
         disk \in [Areas -> Cell(S, K)], loc \in [Node(S, K) -> Location],
         \A n \in Node(S, K) : loc[n].st = "unpersisted" <=> loc[n].at = Nil,
         O = {n \in Node(S, K) : In(n, header.trie)}, PlaceInv(O, S, K), Stack(f, m, m, m, O)
  PROVE  OpenInv(S, K)
<1>1. K \in Nat /\ NoTrie = [s \in S |-> 0] /\ S = Slots
  BY Zenon DEF Setting, NoTrie
<1>2. header.root \in 0..K /\ header.trie \in [S -> 0..K] /\ header.root \in header.root..K
  BY <1>1 DEF Header
<1>3. revisions = <<[no |-> header.root, trie |-> header.trie, deleted |-> {}]>> /\ commits = header.root
  BY ZenonT(30) DEF OpenedAt
<1>4. /\ History(revisions, commits, S, K) /\ Waiting(<<>>, revisions, {}, commits, S, K)
      /\ Kept(revisions, header.root, header.trie)
      /\ \A n : OwnedBy(n, <<>>, revisions, {}) <=> In(n, header.trie)
  BY <1>1, <1>2, <1>3, HistoryOpened, ZenonT(30)
<1>5. /\ task.at = "idle" /\ task.trie = [s \in S |-> 0] /\ task.no = 0 /\ task.todo = {}
      /\ task.batch = {} /\ task.unwritten = {}
  BY <1>1, Zenon DEF Idle
<1>6. ReapTodo = {} /\ ~Writing
  BY <1>5, Zenon DEF ReapTodo, Writing
<1>7. O = Owned(S, K)
  BY <1>4, <1>6, Zenon DEF Owned
<1>8. TypeInv(S, K)
  <2>a. 0 \in 0..K
    BY <1>1, SMTT(20)
  <2>1. 0 \in 0..K /\ [s \in S |-> 0] \in [S -> 0..K] /\ crashes \in Nat /\ held \subseteq 0..K
    BY <2>a, Zenon
  <2>2. task \in Task(S, K)
    BY <1>1, <2>1, Zenon DEF Idle, Task
  <2>3. /\ cache \in [Areas -> Node(S, K) \cup {NoNode}] /\ links \in [Areas -> (0..MaxAreas) \cup {Missing}]
        /\ reading \in Reading(S, K) /\ outlived \in BOOLEAN
    <3>1. cache \in [Areas -> Node(S, K) \cup {NoNode}]
      BY Zenon DEF EmptyCache
    <3>2. links \in [Areas -> (0..MaxAreas) \cup {Missing}]
      BY Zenon DEF EmptyLinks
    <3>3. reading \in Reading(S, K)
      BY ScenarioAssumption DEF NoRead, Reading, Nobody, Nil
    <3>. QED
      BY <3>1, <3>2, <3>3, Zenon
  <2>. QED
    BY <2>1, <2>2, <2>3, Zenon DEF TypeInv
<1>9. HistoryInv(S, K)
  BY <1>4, <1>5, <1>6, Zenon DEF HistoryInv
<1>10. TaskInv(S, K)
  BY <1>5, <1>6, Zenon DEF TaskInv
<1>11. CacheInv(O)
  BY Zenon DEF CacheInv, EmptyCache
<1>. QED
  BY <1>7, <1>8, <1>9, <1>10, <1>11, Zenon DEF OpenInv, Sound

-----------------------------------------------------------------------------
(* Initial states                                                          *)

\* An empty database has no nodes and no free areas.
LEMMA InitEmpty ==
  ASSUME NEW S, NEW K, Setting(S, K), Init, OpenedAt(EmptyHeader), loc = [n \in Nodes |-> InMemory],
         disk = [a \in Areas |-> Unwritten], NEW w \in BOOLEAN, diskHeader = [header EXCEPT !.written = w]
  PROVE  OpenInv(S, K)
<1>1. K \in Nat /\ NoTrie = [s \in S |-> 0] /\ S = Slots /\ Nodes = Node(S, K) /\ 0 \in 0..K /\ 0 \in 0..MaxAreas
  BY ScenarioAssumption DEF Setting, NoTrie, Nodes, Node
<1>2. /\ held = {} /\ pendingReaps = <<>> /\ task = Idle /\ crashes = 0 /\ cache = EmptyCache /\ links = EmptyLinks
      /\ proposal = {} /\ reading = NoRead /\ outlived = FALSE
  BY Zenon DEF Init
<1>3. header = [root |-> 0, trie |-> NoTrie, size |-> 0, free |-> Nil, written |-> TRUE] /\ NoTrie \in [S -> 0..K]
  BY <1>1, Zenon DEF OpenedAt, EmptyHeader
<1>4. diskHeader = [root |-> 0, trie |-> NoTrie, size |-> 0, free |-> Nil, written |-> w]
  BY <1>3, Zenon
<1>5. header \in Header(S, K) /\ diskHeader \in Header(S, K)
  BY <1>1, <1>3, <1>4, Zenon DEF Header, Nil
<1>6. HeaderInv(S) /\ OpenedAt(header) /\ diskHeader.size = header.size /\ \A s \in S : header.trie[s] <= header.root
  BY <1>1, <1>3, <1>4 DEF HeaderInv, OpenedAt
<1>7. /\ disk \in [Areas -> Cell(S, K)] /\ loc \in [Node(S, K) -> Location]
      /\ \A n \in Node(S, K) : loc[n].st = "unpersisted" /\ loc[n].at = Nil
  <2>1. Unwritten \in Cell(S, K)
    BY <1>1, Zenon DEF Unwritten, Cell, Nil
  <2>2. InMemory \in Location /\ InMemory.st = "unpersisted" /\ InMemory.at = Nil
    BY <1>1, Zenon DEF InMemory, Location, Nil
  <2>. QED
    BY <1>1, <2>1, <2>2, Zenon
<1>8. PICK O : O = {n \in Node(S, K) : In(n, header.trie)}
  BY Zenon
<1>9. \A n \in Node(S, K) : ~In(n, header.trie)
  <2>1. \A n \in Node(S, K) : n[1] \in S /\ n[2] \in 1..K
    BY <1>1, NodeParts, Zenon
  <2>2. header.trie = [s \in S |-> 0]
    BY <1>1, <1>3, Zenon
  <2>. QED
    BY <2>1, <2>2 DEF In
<1>10. O = {}
  BY <1>8, <1>9, Zenon
<1>11. PlaceInv(O, S, K)
  BY <1>7, <1>9, <1>10, Zenon DEF PlaceInv
<1>12. Stack([i \in 1..0 |-> 0], 0, 0, 0, O)
  <2>1. [i \in 1..0 |-> 0] \in [1..0 -> Areas] /\ 0 \in 0..0 /\ \A i \in 1..0 : FALSE
    OBVIOUS
  <2>2. header.free = Nil /\ diskHeader.free = Nil /\ header.size = 0 /\ ~(0 > 0) /\ 0 <= 0
    BY <1>3, <1>4
  <2>. QED
    BY <1>10, <2>1, <2>2, Zenon DEF Stack, Top
<1>. QED
  BY <1>2, <1>5, <1>6, <1>7, <1>8, <1>11, <1>12, OpenedSound, Zenon

-----------------------------------------------------------------------------
(* An existing database                                                    *)


\* The slots in the order in which an existing database was written: each has one
\* place.
Ordered(written, N, S) ==
  /\ N \in Nat /\ written \in [1..N -> S]
  /\ \A i, j \in 1..N : written[i] = written[j] => i = j
  /\ \A s \in S : \E i \in 1..N : written[i] = s

\* An order of the leaves followed by the root is one.
LEMMA WrittenOrder ==
  ASSUME Numbering, IsFiniteSet(Leaves), "root" \notin Leaves, NEW order \in LeafOrders,
         NEW written, written = Append(order, "root"), NEW N, N = Cardinality(Leaves) + 1
  PROVE  Ordered(written, N, Slots) /\ Len(written) = N
<1>1. PICK M : M = Cardinality(Leaves)
  BY Zenon
<1>2. /\ M \in Nat /\ N = M + 1 /\ order \in [1..M -> Leaves] /\ \A i, j \in 1..M : order[i] = order[j] => i = j
  BY <1>1, Zenon DEF LeafOrders, Numbering
<1>3. \A s \in Leaves : \E i \in 1..M : order[i] = s
  BY <1>1, <1>2 DEF Numbering
<1>4. order \in Seq(Leaves) /\ Len(order) = M
  <2>1. order \in Seq(Leaves)
    BY <1>2
  <2>2. DOMAIN order = 1..Len(order) /\ DOMAIN order = 1..M /\ Len(order) \in Nat
    BY <1>2, <2>1
  <2>. QED
    BY <1>2, <2>1, <2>2
<1>5. /\ Len(written) = N /\ DOMAIN written = 1..N /\ written[N] = "root" /\ \A i \in 1..M : written[i] = order[i]
  BY <1>2, <1>4
<1>6. \A i \in 1..N : i = N \/ i \in 1..M
  BY <1>2
<1>7. \A i \in 1..N : written[i] \in Slots
  BY <1>2, <1>5, <1>6, Zenon DEF Slots
<1>8. written \in [1..N -> Slots]
  <2>1. order \in Seq(Slots) /\ "root" \in Slots
    BY <1>2 DEF Slots
  <2>2. written \in Seq(Slots)
    BY <2>1
  <2>3. written \in [1..Len(written) -> Slots]
    BY ONLY <2>2
  <2>. QED
    BY ONLY <2>3, <1>5, Zenon
<1>9. \A i, j \in 1..N : written[i] = written[j] => i = j
  BY <1>2, <1>5, <1>6
<1>10. \A s \in Slots : \E i \in 1..N : written[i] = s
  <2>1. N \in 1..N /\ \A i \in 1..M : i \in 1..N
    BY <1>2
  <2>. QED
    BY <2>1, <1>3, <1>5, Zenon DEF Slots
<1>. QED
  BY <1>2, <1>5, <1>8, <1>9, <1>10 DEF Ordered

\* An existing database, as Init describes it.
Existing(written, size, spare) ==
  /\ OpenedAt([EmptyHeader EXCEPT !.root = 1, !.trie = [s \in Slots |-> 1], !.size = size,
                                  !.free = IF spare = 1 THEN size ELSE Nil])
  /\ loc = [n \in Nodes |-> IF n[2] = 1
                            THEN [st |-> "persisted", at |-> CHOOSE i \in DOMAIN written : written[i] = n[1]]
                            ELSE InMemory]
  /\ disk = [a \in Areas |-> CASE a \in DOMAIN written -> NodeCell(<<written[a], 1>>)
                              [] a = header.free -> FreeCell(Nil)
                              [] OTHER -> Unwritten]
  /\ diskHeader = header

\* Where its nodes are: the one of slot written[a] is in area a.
Placed(written, N, spare, S, K) ==
  /\ spare \in {0, 1} /\ N + spare <= MaxAreas
  /\ OpenedAt(header) /\ diskHeader = header
  /\ header = [root |-> 1, trie |-> [s \in S |-> 1], size |-> N + spare,
               free |-> IF spare = 1 THEN N + spare ELSE Nil, written |-> TRUE]
  /\ loc \in [Node(S, K) -> Location] /\ disk \in [Areas -> Cell(S, K)]
  /\ \A n \in Node(S, K) : n[2] = 1 =>
       loc[n].st = "persisted" /\ loc[n].at \in 1..N /\ written[loc[n].at] = n[1]
  /\ \A n \in Node(S, K) : n[2] # 1 => loc[n].st = "unpersisted" /\ loc[n].at = Nil
  /\ \A a \in 1..N : disk[a] = NodeCell(<<written[a], 1>>)
  /\ spare = 1 => disk[N + spare] = FreeCell(Nil)

\* Init places them so.
LEMMA ExistingPlaced ==
  ASSUME NEW S, NEW K \in Nat, S = Slots, Nodes = Node(S, K), K > 0, NEW written, NEW N, Ordered(written, N, S),
         NEW spare \in {0, 1}, N + 1 <= MaxAreas, Existing(written, N + spare, spare)
  PROVE  Placed(written, N, spare, S, K)
<1>1. /\ N \in Nat /\ DOMAIN written = 1..N /\ MaxAreas \in Nat /\ 1 \in 1..K /\ 1 \in 0..K
      /\ \A a \in 1..N : written[a] \in S
  BY ScenarioAssumption DEF Ordered
<1>2. PICK z : z = N + spare
  BY Zenon
<1>3. PICK F : F = IF spare = 1 THEN z ELSE Nil
  BY Zenon
<1>4. z \in 0..MaxAreas /\ F \in 0..MaxAreas /\ z \in Nat /\ z <= MaxAreas
  BY <1>1, <1>2, <1>3 DEF Nil
<1>5. header = [root |-> 1, trie |-> [s \in S |-> 1], size |-> z, free |-> F, written |-> TRUE]
      /\ OpenedAt(header) /\ diskHeader = header
  BY <1>2, <1>3, Zenon DEF Existing, OpenedAt, EmptyHeader
<1>6. \A a \in 1..N : a \in Areas /\ a # F
  BY <1>1, <1>2, <1>3 DEF Areas, Nil
<1>7. /\ disk = [a \in Areas |-> disk[a]]
      /\ \A a \in Areas : disk[a] = CASE a \in 1..N -> NodeCell(<<written[a], 1>>)
                                      [] a = F -> FreeCell(Nil)
                                      [] OTHER -> Unwritten
  <2>1. header.free = F
    BY <1>5, Zenon
  <2>. QED
    BY <1>1, <2>1 DEF Existing
<1>8. /\ \A a \in 1..N : disk[a] = NodeCell(<<written[a], 1>>)
      /\ \A a \in Areas : a \notin 1..N => disk[a] \in {FreeCell(Nil), Unwritten}
      /\ spare = 1 => disk[z] = FreeCell(Nil)
  <2>1. \A a \in 1..N : disk[a] = NodeCell(<<written[a], 1>>)
    BY <1>6, <1>7, Zenon
  <2>2. \A a \in Areas : a \notin 1..N => disk[a] \in {FreeCell(Nil), Unwritten}
    BY <1>7, Zenon
  <2>3. ASSUME spare = 1 PROVE disk[z] = FreeCell(Nil)
    <3>1. z \in Areas /\ z = F /\ z \notin 1..N
      BY <2>3, <1>1, <1>2, <1>3, <1>4, <1>6 DEF Areas
    <3>. QED
      BY <3>1, <1>7, Zenon
  <2>. QED
    BY <2>1, <2>2, <2>3, Zenon
<1>9. disk \in [Areas -> Cell(S, K)]
  <2>1. ASSUME NEW a \in 1..N PROVE NodeCell(<<written[a], 1>>) \in Cell(S, K)
    <3>1. PICK x : x = <<written[a], 1>>
      BY Zenon
    <3>2. x \in Node(S, K) /\ Nil \in 0..MaxAreas
      BY <3>1, <1>1, NodeParts DEF Nil
    <3>3. NodeCell(x) \in Cell(S, K)
      BY <3>2, Zenon DEF NodeCell, Cell
    <3>. QED
      BY <3>1, <3>3, Zenon
  <2>2. FreeCell(Nil) \in Cell(S, K) /\ Unwritten \in Cell(S, K)
    BY <1>1 DEF FreeCell, Unwritten, Cell, Nil
  <2>3. \A a \in Areas : disk[a] \in Cell(S, K)
    BY <2>1, <2>2, <1>8, Zenon
  <2>. QED
    BY <2>3, <1>7, Zenon
<1>10. /\ loc = [n \in Node(S, K) |-> loc[n]]
       /\ \A n \in Node(S, K) : loc[n] = IF n[2] = 1 THEN [st |-> "persisted", at |-> CHOOSE i \in 1..N : written[i] = n[1]]
                                         ELSE InMemory
  BY <1>1, Zenon DEF Existing
<1>11. ASSUME NEW n \in Node(S, K), n[2] = 1
       PROVE  loc[n] \in Location /\ loc[n].st = "persisted" /\ loc[n].at \in 1..N /\ written[loc[n].at] = n[1]
  <2>1. PICK p : p = CHOOSE i \in 1..N : written[i] = n[1]
    BY Zenon
  <2>2. loc[n] = [st |-> "persisted", at |-> p]
    BY <1>10, <1>11, <2>1, Zenon
  <2>3. n[1] \in S
    BY NodeParts, Zenon
  <2>4. p \in 1..N /\ written[p] = n[1]
    BY <2>1, <2>3, Zenon DEF Ordered
  <2>5. p \in 0..MaxAreas
    BY <2>4, <1>1, <1>6 DEF Areas
  <2>. QED
    BY <2>2, <2>4, <2>5 DEF Location
<1>12. ASSUME NEW n \in Node(S, K), n[2] # 1
       PROVE  loc[n] \in Location /\ loc[n].st = "unpersisted" /\ loc[n].at = Nil
  <2>1. loc[n] = InMemory
    BY <1>10, <1>12, Zenon
  <2>2. InMemory \in Location /\ InMemory.st = "unpersisted" /\ InMemory.at = Nil
    BY <1>1 DEF InMemory, Location, Nil
  <2>. QED
    BY <2>1, <2>2, Zenon
<1>13. loc \in [Node(S, K) -> Location]
  BY <1>10, <1>11, <1>12, Zenon
<1>. QED
  BY <1>2, <1>3, <1>4, <1>5, <1>8, <1>9, <1>11, <1>12, <1>13, Zenon DEF Placed

\* That is a sound database, whose free list has the spare area or nothing.
LEMMA InitWritten ==
  ASSUME NEW S, NEW K, Setting(S, K), Init, K > 0, NEW written, NEW N, Ordered(written, N, S), NEW spare,
         Placed(written, N, spare, S, K)
  PROVE  OpenInv(S, K)
<1>1. K \in Nat /\ MaxAreas \in Nat /\ N \in Nat /\ spare \in {0, 1} /\ 1 \in 1..K /\ 1 \in 0..K
  BY ScenarioAssumption DEF Setting, Ordered, Placed
<1>2. /\ held = {} /\ pendingReaps = <<>> /\ task = Idle /\ crashes = 0 /\ cache = EmptyCache /\ links = EmptyLinks
      /\ proposal = {} /\ reading = NoRead /\ outlived = FALSE
  BY Zenon DEF Init
<1>3. PICK z : z = N + spare
  BY Zenon
<1>4. PICK F : F = IF spare = 1 THEN z ELSE Nil
  BY Zenon
<1>5. /\ header = [root |-> 1, trie |-> [s \in S |-> 1], size |-> z, free |-> F, written |-> TRUE]
      /\ OpenedAt(header) /\ diskHeader = header /\ z <= MaxAreas
  BY <1>3, <1>4, Zenon DEF Placed
<1>6. z \in 0..MaxAreas /\ F \in 0..MaxAreas /\ \A a \in 1..N : a <= z /\ ~(a > z) /\ a # Nil
  BY <1>1, <1>3, <1>4, <1>5 DEF Nil
<1>7. header \in Header(S, K)
  <2>1. [s \in S |-> 1] \in [S -> 0..K]
    BY <1>1, Zenon
  <2>. QED
    BY <2>1, <1>1, <1>5, <1>6, Zenon DEF Header
<1>8. header.size = z /\ header.root = 1 /\ header.free = F /\ header.written /\ header.trie = [s \in S |-> 1]
  BY <1>5, Zenon
<1>9. commits = 1
  BY <1>5, <1>8, Zenon DEF OpenedAt
<1>10. HeaderInv(S) /\ \A s \in S : header.trie[s] <= header.root
  BY <1>5, <1>6, <1>8 DEF HeaderInv
<1>11. /\ loc \in [Node(S, K) -> Location] /\ disk \in [Areas -> Cell(S, K)]
       /\ \A n \in Node(S, K) : loc[n].st = "unpersisted" <=> loc[n].at = Nil
  BY <1>6, Zenon DEF Placed
<1>12. PICK O : O = {n \in Node(S, K) : In(n, header.trie)}
  BY Zenon
<1>13. \A n \in Node(S, K) : n \in O <=> n[2] = 1
  <2>1. \A n \in Node(S, K) : n[1] \in S
    BY <1>1, NodeParts, Zenon
  <2>. QED
    BY <1>8, <1>12, <2>1, Zenon DEF In
<1>14. ASSUME NEW n \in O
       PROVE  /\ n \in Node(S, K) /\ n = <<n[1], 1>> /\ loc[n].st = "persisted"
              /\ loc[n].at \in 1..N /\ written[loc[n].at] = n[1] /\ disk[loc[n].at] = NodeCell(n)
  <2>1. n \in Node(S, K) /\ n[2] = 1
    BY <1>12, <1>13, Zenon
  <2>2. n = <<n[1], 1>>
    BY <2>1 DEF Node
  <2>3. loc[n].st = "persisted" /\ loc[n].at \in 1..N /\ written[loc[n].at] = n[1]
    BY <2>1, Zenon DEF Placed
  <2>4. disk[loc[n].at] = NodeCell(<<written[loc[n].at], 1>>)
    BY <2>3, Zenon DEF Placed
  <2>. QED
    BY <2>1, <2>2, <2>3, <2>4, Zenon
<1>15. PlaceInv(O, S, K)
  <2>1. \A n \in Node(S, K) : n[2] > commits => loc[n].st = "unpersisted"
    <3>1. \A n \in Node(S, K) : n[2] > commits => n[2] # 1
      BY <1>9
    <3>. QED
      BY <3>1, Zenon DEF Placed
  <2>2. \A n \in O : loc[n].at <= header.size /\ ~(loc[n].at > header.size)
    BY <1>6, <1>8, <1>14, Zenon
  <2>3. ASSUME NEW x \in O, NEW n \in O, loc[x].at = loc[n].at PROVE x = n
    <3>1. x[1] = n[1]
      BY <2>3, <1>14
    <3>. QED
      BY <3>1, <1>14, Zenon
  <2>4. \A n \in Node(S, K) : In(n, header.trie) => n \in O
    BY <1>12, Zenon
  <2>5. \A n \in O : loc[n].st = "persisted" /\ disk[loc[n].at] = NodeCell(n)
    BY <1>14, Zenon
  <2>. QED
    BY <1>5, <2>1, <2>2, <2>3, <2>4, <2>5, Zenon DEF PlaceInv
<1>16. PICK f : f = [i \in 1..spare |-> z]
  BY Zenon
<1>17. Stack(f, spare, spare, spare, O)
  <2>1. ASSUME NEW i \in 1..spare
        PROVE  i = 1 /\ spare = 1 /\ F = z /\ f[i] = z /\ z \in Areas /\ disk[z] = FreeCell(Nil)
    <3>1. i = 1 /\ spare = 1
      BY <1>1
    <3>2. z \in Areas
      BY <3>1, <1>1, <1>3, <1>6 DEF Areas
    <3>3. disk[z] = FreeCell(Nil)
      BY <3>1, <1>3, Zenon DEF Placed
    <3>. QED
      BY <3>1, <3>2, <3>3, <1>4, <1>16, Zenon
  <2>2. spare \in Nat /\ f \in [1..spare -> Areas] /\ spare \in 0..spare /\ spare <= spare
    BY <1>1, <1>16, <2>1
  <2>3. \A i \in 1..spare : disk[f[i]] = FreeCell(Below(f, i)) /\ f[i] <= z
    <3>1. \A i \in 1..spare : Below(f, i) = Nil /\ z <= z
      BY <1>6, <2>1 DEF Below
    <3>. QED
      BY <3>1, <2>1, Zenon
  <2>4. F = Top(f, spare)
    BY <1>1, <1>4, <1>16 DEF Top
  <2>5. \A n \in O : loc[n].st # "allocated"
    BY <1>14, Zenon
  <2>6. \A i \in 1..spare : links[f[i]] = Missing
    BY <1>2, <2>1, Zenon DEF EmptyLinks
  <2>7. task.at # "write" /\ task.at # "allocate"
    BY <1>2, Zenon DEF Idle
  <2>8. ASSUME NEW a \in 1..z PROVE (\E i \in 1..spare : f[i] = a) \/ (\E n \in O : loc[n].at = a)
    <3>1. CASE a \in 1..N
      <4>1. PICK n : n = <<written[a], 1>>
        BY Zenon
      <4>2. n \in Node(S, K) /\ n[1] = written[a] /\ n[2] = 1
        BY <3>1, <4>1, <1>1, NodeParts, Zenon DEF Ordered
      <4>3. n \in O
        BY <4>2, <1>13, Zenon
      <4>4. loc[n].at = a
        <5>1. loc[n].at \in 1..N /\ written[loc[n].at] = written[a]
          BY <4>2, <4>3, <1>14, Zenon
        <5>. QED
          BY <3>1, <5>1, Zenon DEF Ordered
      <4>. QED
        BY <4>3, <4>4, Zenon
    <3>2. CASE a \notin 1..N
      <4>1. spare = 1 /\ a = z /\ 1 \in 1..spare
        BY <3>2, <1>1, <1>3
      <4>. QED
        BY <4>1, <2>1, Zenon
    <3>. QED
      BY <3>1, <3>2, Zenon
  <2>9. \A i, j \in 1..spare : f[i] = f[j] => i = j
    BY <2>1, Zenon
  <2>. QED
    BY <1>5, <1>8, <2>2, <2>3, <2>4, <2>5, <2>6, <2>7, <2>8, <2>9, Zenon DEF Stack
<1>. QED
  BY <1>2, <1>5, <1>7, <1>10, <1>11, <1>12, <1>15, <1>17, OpenedSound, ZenonT(30)

=============================================================================
