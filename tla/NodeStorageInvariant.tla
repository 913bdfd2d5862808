------------------------ MODULE NodeStorageInvariant ------------------------
(***************************************************************************)
(* The inductive invariant of NodeStorage, for every scenario and every    *)
(* number of areas, and what commits and reaps do to the lists of deleted  *)
(* nodes.  S and K stand for the slots and the bound on commits of the     *)
(* scenario, which never changes.                                          *)
(***************************************************************************)
EXTENDS NodeStorage

Node(S, K) == S \X (1..K)
In(n, t) == t[n[1]] = n[2]

-----------------------------------------------------------------------------
(* History: tries, and the deleted lists between a commit and the reaper   *)

Revision(S, K) == [no : 0..K, trie : [S -> 0..K], deleted : SUBSET Node(S, K)]

\* The retained revisions revs after com commits: numbered upwards, each node
\* written by a revision up to its own; a node that is missing from a revision
\* written after it never comes back; and every revision but the oldest lists
\* exactly what it no longer shares with the one before.
History(revs, com, S, K) ==
  /\ com \in 0..K /\ revs \in Seq(Revision(S, K)) /\ Len(revs) > 0
  /\ \A i \in 1..Len(revs) : revs[i].no <= com
  /\ \A i, j \in 1..Len(revs) : i < j => revs[i].no < revs[j].no
  /\ \A i \in 1..Len(revs), s \in S : revs[i].trie[s] <= revs[i].no
  /\ \A i, j \in 1..Len(revs), s \in S :
       i < j /\ revs[j].trie[s] # 0 /\ revs[j].trie[s] <= revs[i].no => revs[i].trie[s] = revs[j].trie[s]
  /\ \A i \in 2..Len(revs) :
       revs[i].deleted = {n \in Node(S, K) : In(n, revs[i - 1].trie) /\ ~In(n, revs[i].trie)}

\* The deleted lists in the order in which they are reaped: those on their way
\* to the background thread, then those of the retained revisions.
Lists(pend, revs) == 1..(Len(pend) + Len(revs))
ListAt(pend, revs, p) == IF p <= Len(pend) THEN pend[p] ELSE revs[p - Len(pend)].deleted

\* A node is on one list at most, and on none that todo, the list being reaped,
\* came before; the lists up to the oldest revision's are free of retained nodes.
Waiting(pend, revs, todo, com, S, K) ==
  /\ pend \in Seq(SUBSET Node(S, K)) /\ todo \subseteq Node(S, K)
  /\ \A p, q \in Lists(pend, revs) :
       \A n \in ListAt(pend, revs, p) : n \in ListAt(pend, revs, q) => p = q
  /\ \A p \in Lists(pend, revs) : \A n \in ListAt(pend, revs, p) :
       n \notin todo /\ n[2] <= com /\ ~In(n, revs[Len(revs)].trie)
  /\ \A p \in 1..(Len(pend) + 1) : \A n \in ListAt(pend, revs, p) :
       \A i \in 1..Len(revs) : ~In(n, revs[i].trie)
  /\ \A n \in todo : n[2] <= com /\ \A i \in 1..Len(revs) : ~In(n, revs[i].trie)

\* The nodes that may still have an area: of retained revisions, and of lists.
OwnedBy(n, pend, revs, todo) ==
  \/ \E i \in 1..Len(revs) : In(n, revs[i].trie)
  \/ \E p \in Lists(pend, revs) : n \in ListAt(pend, revs, p)
  \/ n \in todo

ReapTodo == IF task.at = "reap" THEN task.todo ELSE {}
Owned(S, K) == {n \in Node(S, K) : OwnedBy(n, pendingReaps, revisions, ReapTodo)}

\* The revision the header names, the one being written and those that readers
\* hold are retained.
Kept(revs, no, trie) == \E i \in 1..Len(revs) : revs[i].no = no /\ revs[i].trie = trie
HistoryInv(S, K) ==
  /\ History(revisions, commits, S, K)
  /\ Waiting(pendingReaps, revisions, ReapTodo, commits, S, K)
  /\ Kept(revisions, header.root, header.trie)
  /\ task.at \in {"allocate", "write"} => Kept(revisions, task.no, task.trie) /\ task.no > header.root
  /\ \A r \in held : \E i \in 1..Len(revisions) : revisions[i].no = r

-----------------------------------------------------------------------------
(* Storage: where nodes and free areas are                                 *)

Cell(S, K) == [kind : {"unwritten", "node", "free"}, node : Node(S, K) \cup {NoNode}, next : 0..MaxAreas]
Location == [st : {"unpersisted", "allocated", "persisted"}, at : 0..MaxAreas]
Header(S, K) == [root : 0..K, trie : [S -> 0..K], size : 0..MaxAreas, free : 0..MaxAreas, written : BOOLEAN]
Task(S, K) == [at : {"idle", "allocate", "write", "reap", "closed"}, trie : [S -> 0..K], no : 0..K,
               todo : SUBSET Node(S, K), batch : SUBSET Node(S, K), unwritten : SUBSET Node(S, K)]
Reading(S, K) == [by : Int, area : 0..MaxAreas, got : Node(S, K) \cup {NoNode}]

TypeInv(S, K) ==
  /\ disk \in [Areas -> Cell(S, K)] /\ loc \in [Node(S, K) -> Location]
  /\ \A n \in Node(S, K) : loc[n].st = "unpersisted" <=> loc[n].at = Nil
  /\ header \in Header(S, K) /\ diskHeader \in Header(S, K) /\ task \in Task(S, K)
  /\ cache \in [Areas -> Node(S, K) \cup {NoNode}] /\ links \in [Areas -> (0..MaxAreas) \cup {Missing}]
  /\ proposal \subseteq Node(S, K) /\ reading \in Reading(S, K) /\ outlived \in BOOLEAN
  /\ crashes \in Nat /\ held \subseteq 0..K

Writing == task.at \in {"allocate", "write"}

\* What the background thread has in hand.
TaskInv(S, K) ==
  /\ Writing =>
       /\ task.todo = {n \in Node(S, K) : In(n, task.trie) /\ loc[n].st = "unpersisted"}
       /\ task.batch = {n \in Node(S, K) : In(n, task.trie) /\ loc[n].st = "allocated"}
  /\ ~Writing => task.trie = [s \in S |-> 0] /\ task.batch = {} /\ header.size = diskHeader.size
  /\ task.at = "idle" => task.todo = {}
  /\ task.at # "write" => task.unwritten = {}
  /\ task.unwritten \subseteq task.batch
  /\ task.at = "write" => task.unwritten # {}
  /\ \A n \in task.batch \ task.unwritten : task.at = "write" => disk[loc[n].at] = NodeCell(n)

\* The header on disk differs from the one in memory in its free list and, while
\* a revision is written, in its high-water mark; until the first one is complete
\* it names nothing.
HeaderInv(S) ==
  /\ header.written /\ diskHeader.root = header.root /\ diskHeader.trie = header.trie
  /\ diskHeader.size <= header.size
  /\ ~diskHeader.written =>
       /\ header.root = 0 /\ header.trie = [s \in S |-> 0] /\ header.free = Nil
       /\ diskHeader.size = 0 /\ diskHeader.free = Nil

\* Every node of O that was given an area has it for itself, inside the file; a
\* persisted one can be read there.  Areas past the high-water mark on disk are
\* those of the revision being written.
PlaceInv(O, S, K) ==
  /\ \A n \in Node(S, K) : n[2] > commits => loc[n].st = "unpersisted"
  /\ \A n \in O : loc[n].at <= header.size
  /\ \A n \in O : loc[n].st = "persisted" => disk[loc[n].at] = NodeCell(n)
  /\ \A n \in O : loc[n].st = "allocated" => n \in task.batch
  /\ \A n \in O : loc[n].at > diskHeader.size => Writing /\ In(n, task.trie)
  /\ \A m, n \in O : loc[m].at = loc[n].at /\ loc[m].at # Nil => m = n
  /\ \A n \in Node(S, K) : In(n, header.trie) => loc[n].st = "persisted" /\ loc[n].at <= diskHeader.size

\* The free areas as a stack f[1..m], each linked on disk to the one below it.
\* The list in memory starts at height h, the one on disk at height d; an area
\* that Allocate has popped keeps its link until the list on disk is below it.
Below(f, i) == IF i > 1 THEN f[i - 1] ELSE Nil
Top(f, i) == IF i > 0 THEN f[i] ELSE Nil
Stack(f, m, h, d, O) ==
  /\ m \in Nat /\ f \in [1..m -> Areas] /\ h \in 0..m /\ d \in 0..m
  /\ \A i, j \in 1..m : f[i] = f[j] => i = j
  /\ \A i \in 1..m : disk[f[i]] = FreeCell(Below(f, i)) /\ f[i] <= diskHeader.size
  /\ header.free = Top(f, h) /\ diskHeader.free = Top(f, d)
  /\ task.at # "allocate" => d <= h
  /\ task.at = "write" => m = h
  /\ \A n \in O : loc[n].st = "allocated" => \A i \in 1..h : loc[n].at # f[i]
  /\ \A i \in 1..h : links[f[i]] \in {Missing, Below(f, i)}
  /\ crashes = 0 => \A a \in 1..header.size : \/ \E i \in 1..h : f[i] = a
                                              \/ \E n \in O : loc[n].at = a

\* The node cache, and a read on its way to it, hold nodes that were not given to
\* the reaper, unless a proposal has outlived the nodes it refers to.
CacheInv(O) ==
  ~outlived =>
    /\ proposal \subseteq O \ ReapTodo
    /\ \A a \in Areas : cache[a] # NoNode =>
         cache[a] \in O \ ReapTodo /\ loc[cache[a]].st = "persisted" /\ loc[cache[a]].at = a
    /\ reading # NoRead =>
         /\ reading.got \in O \ ReapTodo
         /\ loc[reading.got].st = "persisted" /\ loc[reading.got].at = reading.area
         /\ IF reading.by = TheProposal THEN reading.got \in proposal
            ELSE /\ reading.by \in held
                 /\ \E i \in 1..Len(revisions) : revisions[i].no = reading.by /\ In(reading.got, revisions[i].trie)

\* O stands for the nodes that may have an area, f, m, h and d for the free list.
Sound(O, f, m, h, d, S, K) ==
  /\ O = Owned(S, K)
  /\ TypeInv(S, K) /\ HistoryInv(S, K) /\ TaskInv(S, K) /\ HeaderInv(S)
  /\ PlaceInv(O, S, K) /\ Stack(f, m, h, d, O) /\ CacheInv(O)
OpenInv(S, K) == \E O, f, m, h, d : Sound(O, f, m, h, d, S, K)

\* Once the database could not be opened nothing is left of it in memory.
ClosedInv == ~diskHeader.written /\ crashes > 0 /\ task.at = "closed" /\ held = {}

StorageInv ==
  /\ scenario \in Scenarios /\ open \in BOOLEAN
  /\ open => OpenInv(Slots, MaxCommits)
  /\ ~open => ClosedInv /\ crashes \in Nat

\* The scenario of the run.
Setting(S, K) ==
  /\ S = Slots /\ K = MaxCommits /\ K \in Nat /\ "root" \notin Leaves
  /\ MaxGap \in Nat /\ MaxRevisions \in Nat /\ MaxGap < MaxRevisions

\* What the arguments below count with: a set of naturals has a least element,
\* and an interval has as many elements as its bounds say; numbers that are each
\* given to another element of a finite set are at most as many as its elements,
\* and if they are as many then none is left out.  CountingHolds and
\* NumberingHolds prove it, in the one module that draws on the library's theorems.
Counting ==
  /\ \A N \in SUBSET Nat : N # {} => \E x \in N : \A y \in N : x <= y
  /\ \A a, b \in Int : Cardinality(a..b) = IF a > b THEN 0 ELSE b - a + 1
Numbering ==
  /\ \A n \in Nat : IsFiniteSet(1..n) /\ Cardinality(1..n) = n
  /\ \A T : IsFiniteSet(T) => Cardinality(T) \in Nat
  /\ \A T, n, f : IsFiniteSet(T) /\ n \in Nat /\ f \in [1..n -> T] /\ (\A i, j \in 1..n : f[i] = f[j] => i = j)
                    => n <= Cardinality(T) /\ (n = Cardinality(T) => \A t \in T : \E i \in 1..n : f[i] = t)
=============================================================================
