-------------------------- MODULE NodeStorageLists --------------------------
(***************************************************************************)
(* What commits and reaps do to the history that NodeStorage retains, to   *)
(* the lists of deleted nodes and to the nodes that may still have an      *)
(* area.                                                                   *)
(***************************************************************************)
EXTENDS NodeStorageInvariant, TLAPS

-----------------------------------------------------------------------------
(* Facts about sequences and nodes                                         *)

\* The parts of a node, and when two nodes are the same.
LEMMA NodeParts ==
  ASSUME NEW S, NEW K \in Nat
  PROVE  /\ \A n \in Node(S, K) : n[1] \in S /\ n[2] \in 1..K
         /\ \A m, n \in Node(S, K) : m[1] = n[1] /\ m[2] = n[2] => m = n
         /\ \A s \in S, k \in 1..K : <<s, k>> \in Node(S, K)
BY DEF Node

\* The numbers that the headers hold.
LEMMA Sizes ==
  ASSUME NEW S, NEW K, TypeInv(S, K)
  PROVE  /\ header.size \in 0..MaxAreas /\ diskHeader.size \in 0..MaxAreas
         /\ header.size \in Int /\ diskHeader.size \in Int
         /\ header.size <= header.size /\ diskHeader.size <= diskHeader.size
<1>1. header.size \in 0..MaxAreas /\ diskHeader.size \in 0..MaxAreas
  BY Zenon DEF TypeInv, Header
<1>. QED
  BY <1>1

\* The place of a node.
LEMMA PlaceOf ==
  ASSUME NEW S, NEW K, TypeInv(S, K), NEW n \in Node(S, K)
  PROVE  /\ loc[n] \in Location /\ loc[n].at \in 0..MaxAreas /\ loc[n].at \in Int
         /\ loc[n].st \in {"unpersisted", "allocated", "persisted"}
<1>1. loc[n] \in Location
  BY Zenon DEF TypeInv
<1>2. loc[n].at \in 0..MaxAreas /\ loc[n].st \in {"unpersisted", "allocated", "persisted"}
  BY <1>1, Zenon DEF Location
<1>. QED
  BY <1>1, <1>2

\* The lower part of a stack.
LEMMA LowerPart ==
  ASSUME NEW f, NEW m, NEW h, NEW d, NEW O, Stack(f, m, h, d, O), NEW k \in 0..m,
         NEW g, g = [i \in 1..k |-> f[i]]
  PROVE  /\ k \in Nat /\ 1..k \subseteq 1..m /\ m \in Nat /\ k \in 0..k /\ k <= k
         /\ g \in [1..k -> Areas] /\ \A i \in 1..k : g[i] = f[i] /\ Below(g, i) = Below(f, i)
         /\ Top(g, k) = Top(f, k) /\ \A i, j \in 1..k : g[i] = g[j] => i = j
<1>1. m \in Nat /\ f \in [1..m -> Areas] /\ \A i, j \in 1..m : f[i] = f[j] => i = j
  BY Zenon DEF Stack
<1>2. k \in Nat /\ 1..k \subseteq 1..m /\ k \in 0..k /\ k <= k
  BY <1>1
<1>3. g \in [1..k -> Areas] /\ \A i \in 1..k : g[i] = f[i]
  BY <1>1, <1>2, Zenon
<1>4. \A i \in 1..k : Below(g, i) = Below(f, i)
  <2>1. SUFFICES ASSUME NEW i \in 1..k, i > 1 PROVE i - 1 \in 1..k
    BY <1>3, Zenon DEF Below
  <2>. QED
    BY <2>1, <1>2
<1>5. Top(g, k) = Top(f, k)
  <2>1. k > 0 => k \in 1..k
    BY <1>2
  <2>. QED
    BY <1>3, <2>1, Zenon DEF Top
<1>6. \A i, j \in 1..k : g[i] = g[j] => i = j
  BY <1>1, <1>2, <1>3, Zenon
<1>. QED
  BY <1>1, <1>2, <1>3, <1>4, <1>5, <1>6, Zenon

\* The nodes of a trie are the ones that its slots name.
LEMMA NodesOfTrie ==
  ASSUME NEW S, NEW K \in Nat, S = Slots, NEW t \in [S -> 0..K]
  PROVE  NodesOf(t) = {n \in Node(S, K) : In(n, t)}
<1>1. ASSUME NEW n \in NodesOf(t) PROVE n \in Node(S, K) /\ In(n, t)
  <2>1. PICK s \in S : n = <<s, t[s]>> /\ t[s] # 0
    BY <1>1, Zenon DEF NodesOf
  <2>. QED
    BY <2>1 DEF Node, In
<1>2. ASSUME NEW n \in Node(S, K), In(n, t) PROVE n \in NodesOf(t)
  <2>1. n = <<n[1], t[n[1]]>> /\ n[1] \in S /\ t[n[1]] # 0
    BY <1>2 DEF Node, In
  <2>. QED
    BY <2>1, Zenon DEF NodesOf
<1>. QED
  BY <1>1, <1>2, Zenon

\* revs without its first k elements and with r at the end.
Advanced(revs, k, r) == Append(SubSeq(revs, k + 1, Len(revs)), r)

\* Element by element.
LEMMA AdvancedElements ==
  ASSUME NEW R, NEW revs \in Seq(R), NEW k \in 0..Len(revs), NEW r \in R
  PROVE  /\ Advanced(revs, k, r) \in Seq(R)
         /\ Len(Advanced(revs, k, r)) = Len(revs) - k + 1
         /\ \A i \in 1..(Len(revs) - k) : Advanced(revs, k, r)[i] = revs[i + k]
         /\ Advanced(revs, k, r)[Len(revs) - k + 1] = r
BY DEF Advanced

-----------------------------------------------------------------------------
(* A commit                                                                *)

\* What a commit adds to the history: a trie whose slots are kept, rewritten or
\* emptied, and the list of what it no longer shares.
NewRevision(r, last, com, S, K) ==
  /\ r \in Revision(S, K) /\ r.no = com + 1
  /\ \A s \in S : r.trie[s] \in {last.trie[s], com + 1, 0}
  /\ r.deleted = {n \in Node(S, K) : In(n, last.trie) /\ ~In(n, r.trie)}

\* A commit that drops some revisions from the front keeps the history.
LEMMA HistoryCommit ==
  ASSUME NEW S, NEW K \in Nat, NEW revs, NEW com, History(revs, com, S, K),
         NEW k \in 0..(Len(revs) - 1), com < K, NEW r, NewRevision(r, revs[Len(revs)], com, S, K)
  PROVE  History(Advanced(revs, k, r), com + 1, S, K)
<1> DEFINE L == Len(revs)
           new == Advanced(revs, k, r)
<1>1. com \in 0..K /\ revs \in Seq(Revision(S, K)) /\ r \in Revision(S, K)
  BY Zenon DEF History, NewRevision
<1>a. L \in Nat /\ L > 0 /\ k \in 0..(L - 1)
  BY <1>1 DEF History
<1>b. com \in Nat /\ com + 1 \in 0..K
  BY <1>1
<1>2. /\ new \in Seq(Revision(S, K)) /\ Len(new) = L - k + 1
      /\ \A i \in 1..(L - k) : new[i] = revs[i + k]
      /\ new[L - k + 1] = r
  <2>1. k \in 0..Len(revs)
    BY <1>a
  <2>. QED
    BY <1>1, <2>1, AdvancedElements
<1> HIDE DEF new, L
<1>c. \A i \in 1..(L - k) : i + k \in 1..L
  BY <1>a
<1>3. \A i \in 1..Len(new) : i = L - k + 1 \/ i \in 1..(L - k)
  BY <1>a, <1>2
<1>4. \A i \in 1..L : /\ revs[i].no \in 0..com /\ revs[i].trie \in [S -> 0..K]
                      /\ \A s \in S : revs[i].trie[s] \in 0..com
  <2>1. SUFFICES ASSUME NEW i \in 1..L
                 PROVE  /\ revs[i].no \in 0..com /\ revs[i].trie \in [S -> 0..K]
                        /\ \A s \in S : revs[i].trie[s] \in 0..com
    BY Zenon
  <2>2. revs[i] \in Revision(S, K)
    BY <1>1 DEF L
  <2>3. revs[i].no \in Nat /\ revs[i].no <= com /\ revs[i].trie \in [S -> 0..K]
    BY <2>2, SMTT(20) DEF History, Revision, L
  <2>4. ASSUME NEW s \in S PROVE revs[i].trie[s] \in Nat /\ revs[i].trie[s] <= revs[i].no
    BY <2>3 DEF History, L
  <2>. QED
    BY <2>3, <2>4, <1>b
<1>5. r.no = com + 1 /\ r.trie \in [S -> 0..K] /\ \A s \in S : r.trie[s] \in {revs[L].trie[s], com + 1, 0}
  BY <1>1, Zenon DEF NewRevision, Revision, L
<1>6. \A i \in 1..Len(new) : new[i].no <= com + 1
  <2>1. SUFFICES ASSUME NEW i \in 1..Len(new) PROVE new[i].no \in 0..com \/ new[i].no = com + 1
    BY <1>b
  <2>. QED
    BY <1>2, <1>3, <1>4, <1>5, <1>c, Zenon
<1>7. \A i, j \in 1..Len(new) : i < j => new[i].no < new[j].no
  <2>1. SUFFICES ASSUME NEW i \in 1..Len(new), NEW j \in 1..Len(new), i < j PROVE new[i].no < new[j].no
    BY Zenon
  <2>2. i \in 1..(L - k) /\ new[i] = revs[i + k] /\ i + k \in 1..L
    BY <2>1, <1>a, <1>2, <1>c, SMTT(20)
  <2>3. CASE j = L - k + 1
    <3>1. revs[i + k].no \in 0..com /\ new[j].no = com + 1
      BY <2>2, <2>3, <1>2, <1>4, <1>5, Zenon
    <3>. QED
      BY <3>1, <2>2, <1>b, SMTT(20)
  <2>4. CASE j \in 1..(L - k)
    <3>1. new[j] = revs[j + k] /\ j + k \in 1..L /\ i + k < j + k
      BY <2>1, <2>4, <1>a, <1>2, <1>c
    <3>. QED
      BY <3>1, <2>2, Zenon DEF History, L
  <2>. QED
    BY <2>3, <2>4, <1>3, Zenon
<1>8. \A i \in 1..Len(new), s \in S : new[i].trie[s] <= new[i].no
  <2>1. SUFFICES ASSUME NEW i \in 1..Len(new), NEW s \in S PROVE new[i].trie[s] <= new[i].no
    BY Zenon
  <2>2. CASE i = L - k + 1
    <3>1. revs[L].trie[s] \in 0..com
      BY <1>a, <1>4, SMTT(20)
    <3>2. new[i].no = com + 1 /\ new[i].trie[s] \in {revs[L].trie[s], com + 1, 0}
      BY <2>2, <1>2, <1>5, Zenon
    <3>3. PICK x, y : x = new[i].trie[s] /\ y = revs[L].trie[s]
      BY Zenon
    <3>4. y \in 0..com /\ x \in {y, com + 1, 0}
      BY <3>1, <3>2, <3>3, Zenon
    <3>5. x <= com + 1
      BY <3>4, <1>b
    <3>. QED
      BY <3>2, <3>3, <3>5, Zenon
  <2>3. CASE i \in 1..(L - k)
    BY <2>3, <1>2, <1>c, Zenon DEF History, L
  <2>. QED
    BY <2>2, <2>3, <1>3, Zenon
<1>9. \A i, j \in 1..Len(new), s \in S :
        i < j /\ new[j].trie[s] # 0 /\ new[j].trie[s] <= new[i].no => new[i].trie[s] = new[j].trie[s]
  <2>1. SUFFICES ASSUME NEW i \in 1..Len(new), NEW j \in 1..Len(new), NEW s \in S,
                        i < j, new[j].trie[s] # 0, new[j].trie[s] <= new[i].no
                 PROVE  new[i].trie[s] = new[j].trie[s]
    OBVIOUS
  <2>2. i \in 1..(L - k) /\ new[i] = revs[i + k] /\ i + k \in 1..L
    BY <2>1, <1>a, <1>2, <1>c, SMTT(20)
  <2>3. CASE j = L - k + 1
    <3>1. new[j].trie[s] = revs[L].trie[s]
      <4>1. new[i].no \in 0..com
        BY <2>2, <1>4, Zenon
      <4>2. new[j].trie[s] \in {revs[L].trie[s], com + 1, 0}
        BY <2>3, <1>2, <1>5, Zenon
      <4>3. PICK x, y, z : x = new[j].trie[s] /\ y = revs[L].trie[s] /\ z = new[i].no
        BY Zenon
      <4>4. z \in 0..com /\ x \in {y, com + 1, 0} /\ x # 0 /\ x <= z
        BY <2>1, <4>1, <4>2, <4>3, Zenon
      <4>5. x = y
        BY <4>4, <1>b
      <4>. QED
        BY <4>3, <4>5, Zenon
    <3>2. CASE i + k = L
      BY <3>1, <3>2, <2>2, Zenon
    <3>3. CASE i + k < L
      <4>1. L \in 1..L /\ revs[L].trie[s] # 0 /\ revs[L].trie[s] <= revs[i + k].no
        BY <1>a, <2>1, <2>2, <3>1
      <4>. QED
        BY <4>1, <3>1, <3>3, <2>2, SMTT(20) DEF History, L
    <3>. QED
      BY <3>2, <3>3, <2>2, <1>a
  <2>4. CASE j \in 1..(L - k)
    <3>1. new[j] = revs[j + k] /\ j + k \in 1..L /\ i + k < j + k
      BY <2>1, <2>4, <1>a, <1>2, <1>c
    <3>2. PICK a, b : a = i + k /\ b = j + k
      BY Zenon
    <3>3. /\ a \in 1..Len(revs) /\ b \in 1..Len(revs) /\ a < b
          /\ revs[b].trie[s] # 0 /\ revs[b].trie[s] <= revs[a].no
      BY <3>1, <3>2, <2>1, <2>2, Zenon DEF L
    <3>4. revs[a].trie[s] = revs[b].trie[s]
      BY <3>3, Zenon DEF History
    <3>. QED
      BY <3>1, <3>2, <3>4, <2>2, Zenon
  <2>. QED
    BY <2>3, <2>4, <1>3, Zenon
<1>10. \A i \in 2..Len(new) :
         new[i].deleted = {n \in Node(S, K) : In(n, new[i - 1].trie) /\ ~In(n, new[i].trie)}
  <2>1. SUFFICES ASSUME NEW i \in 2..Len(new)
                 PROVE  new[i].deleted = {n \in Node(S, K) : In(n, new[i - 1].trie) /\ ~In(n, new[i].trie)}
    BY Zenon
  <2>2. i - 1 \in 1..(L - k) /\ new[i - 1] = revs[i - 1 + k]
    BY <1>a, <1>2
  <2>3. CASE i = L - k + 1
    <3>1. i - 1 + k = L
      BY <2>3, <1>a
    <3>. QED
      BY <3>1, <2>2, <2>3, <1>2, Zenon DEF NewRevision, L
  <2>4. CASE i \in 1..(L - k)
    <3>1. PICK j \in 2..L : j = i + k
      BY <2>4, <1>a
    <3>2. i - 1 + k = j - 1
      BY <3>1, <1>a
    <3>3. revs[j].deleted = {n \in Node(S, K) : In(n, revs[j - 1].trie) /\ ~In(n, revs[j].trie)}
      BY <3>1, Zenon DEF History, L
    <3>4. new[i] = revs[j] /\ new[i - 1] = revs[j - 1]
      BY <3>1, <3>2, <2>2, <2>4, <1>2, Zenon
    <3>. QED
      BY <3>3, <3>4, Zenon
  <2>. QED
    BY <2>3, <2>4, <1>3, <1>a
<1>. QED
  BY <1>a, <1>b, <1>2, <1>6, <1>7, <1>8, <1>9, <1>10, SMTT(20) DEF History, new

\* The deleted lists of the first k revisions go to the background thread.
Handed(pend, revs, k) == pend \o [i \in 1..k |-> revs[i].deleted]

\* The elements of two sequences, one behind the other.
LEMMA Joined ==
  ASSUME NEW R, NEW a \in Seq(R), NEW b \in Seq(R), NEW c, c = a \o b
  PROVE  /\ c \in Seq(R) /\ Len(c) = Len(a) + Len(b)
         /\ \A p \in 1..Len(a) : c[p] = a[p]
         /\ \A p \in 1..Len(b) : c[Len(a) + p] = b[p]
OBVIOUS

\* To the reaper a commit only adds a list: the others keep their places.
LEMMA ListsCommit ==
  ASSUME NEW S, NEW K \in Nat, NEW revs \in Seq(Revision(S, K)), NEW pend \in Seq(SUBSET Node(S, K)),
         NEW k \in 0..(Len(revs) - 1), NEW r \in Revision(S, K), Len(revs) > 0
  PROVE  /\ Handed(pend, revs, k) \in Seq(SUBSET Node(S, K))
         /\ Len(Handed(pend, revs, k)) = Len(pend) + k
         /\ Lists(Handed(pend, revs, k), Advanced(revs, k, r))
              = Lists(pend, revs) \cup {Len(pend) + Len(revs) + 1}
         /\ \A p \in Lists(pend, revs) :
              ListAt(Handed(pend, revs, k), Advanced(revs, k, r), p) = ListAt(pend, revs, p)
         /\ ListAt(Handed(pend, revs, k), Advanced(revs, k, r), Len(pend) + Len(revs) + 1) = r.deleted
<1> DEFINE L == Len(revs)
           P == Len(pend)
           new == Advanced(revs, k, r)
           moved == [i \in 1..k |-> revs[i].deleted]
           handed == Handed(pend, revs, k)
<1>1. L \in Nat /\ L > 0 /\ k \in 0..(L - 1) /\ P \in Nat /\ k \in 0..Len(revs)
  OBVIOUS
<1>2. /\ Len(new) = L - k + 1 /\ \A i \in 1..(L - k) : new[i] = revs[i + k]
      /\ new[L - k + 1] = r
  BY <1>1, AdvancedElements
<1>3. moved \in Seq(SUBSET Node(S, K)) /\ Len(moved) = k /\ \A i \in 1..k : moved[i] = revs[i].deleted
  <2>1. ASSUME NEW i \in 1..k PROVE revs[i].deleted \in SUBSET Node(S, K)
    <3>1. revs[i] \in Revision(S, K)
      BY <1>1
    <3>. QED
      BY <3>1, Zenon DEF Revision
  <2>2. moved \in [1..k -> SUBSET Node(S, K)]
    BY <2>1, Zenon
  <2>. QED
    BY <2>2, <1>1
<1>4. /\ handed \in Seq(SUBSET Node(S, K)) /\ Len(handed) = P + k
      /\ \A p \in 1..P : handed[p] = pend[p]
      /\ \A p \in 1..k : handed[P + p] = revs[p].deleted
  <2>1. handed = pend \o moved
    BY Zenon DEF Handed
  <2> HIDE DEF moved, handed
  <2>2. PICK R : R = SUBSET Node(S, K)
    BY Zenon
  <2>3. pend \in Seq(R) /\ moved \in Seq(R)
    BY <2>2, <1>3, Zenon
  <2>4. /\ handed \in Seq(R) /\ Len(handed) = Len(pend) + Len(moved)
        /\ \A p \in 1..Len(pend) : handed[p] = pend[p]
        /\ \A p \in 1..Len(moved) : handed[Len(pend) + p] = moved[p]
    BY <2>1, <2>3, Joined
  <2>. QED
    BY <2>2, <2>4, <1>3, Zenon
<1> HIDE DEF L, P, new, moved, handed
<1>5. Lists(handed, new) = Lists(pend, revs) \cup {P + L + 1}
  <2>1. Len(handed) + Len(new) = P + L + 1 /\ P + L \in Nat
    BY <1>1, <1>2, <1>4
  <2>2. 1..(P + L + 1) = (1..(P + L)) \cup {P + L + 1}
    BY <2>1
  <2>. QED
    BY <2>1, <2>2, Zenon DEF Lists, L, P
<1>6. ASSUME NEW p \in Lists(pend, revs) PROVE ListAt(handed, new, p) = ListAt(pend, revs, p)
  <2>1. p \in 1..(P + L)
    BY Zenon DEF Lists, P, L
  <2>2. CASE p \in 1..P
    BY <2>2, <1>1, <1>4 DEF ListAt, P
  <2>3. CASE p \in (P + 1)..(P + k)
    <3>1. PICK q \in 1..k : p = P + q /\ q = p - P /\ ~(p <= P) /\ p <= P + k
      BY <2>3, <1>1
    <3>. QED
      BY <3>1, <1>4, Zenon DEF ListAt, P
  <2>4. CASE p \in (P + k + 1)..(P + L)
    <3>1. PICK q \in 1..(L - k) : q = p - (P + k) /\ q + k = p - P /\ ~(p <= P) /\ ~(p <= P + k)
      BY <2>4, <1>1
    <3>. QED
      BY <3>1, <1>2, <1>4, Zenon DEF ListAt, P
  <2>. QED
    BY <2>1, <2>2, <2>3, <2>4, <1>1
<1>7. ListAt(handed, new, P + L + 1) = r.deleted
  <2>1. ~(P + L + 1 <= P + k) /\ P + L + 1 - (P + k) = L - k + 1
    BY <1>1
  <2>2. PICK p, q : p = P + L + 1 /\ q = L - k + 1
    BY Zenon
  <2>a. Len(handed) = P + k
    BY <1>4, Zenon
  <2>3. ~(p <= Len(handed)) /\ p - Len(handed) = q
    BY <2>1, <2>2, <2>a, <1>1
  <2>b. new[q] = r
    BY <2>2, <1>2, Zenon
  <2>4. ListAt(handed, new, p) = r.deleted
    BY <2>3, <2>b, Zenon DEF ListAt
  <2>. QED
    BY <2>2, <2>4, Zenon
<1>. QED
  BY <1>1, <1>4, <1>5, <1>6, <1>7, Zenon DEF handed, new, P, L

\* A node that a retained revision deleted was in the revision before it, and is
\* in no later one.
LEMMA DeletedForGood ==
  ASSUME NEW S, NEW K \in Nat, NEW revs, NEW com, History(revs, com, S, K),
         NEW i \in 2..Len(revs), NEW j \in i..Len(revs), NEW n \in revs[i].deleted
  PROVE  n \in Node(S, K) /\ In(n, revs[i - 1].trie) /\ ~In(n, revs[j].trie)
<1>1. revs \in Seq(Revision(S, K)) /\ Len(revs) \in Nat
  BY DEF History
<1>2. n \in Node(S, K) /\ In(n, revs[i - 1].trie) /\ ~In(n, revs[i].trie)
  BY Zenon DEF History
<1>3. i - 1 \in 1..Len(revs) /\ i \in 1..Len(revs) /\ j \in 1..Len(revs) /\ i - 1 < i
  BY <1>1
<1>4. n[1] \in S /\ n[2] \in 1..K
  BY <1>2, NodeParts, Zenon
<1>5. revs[i - 1].no < revs[i].no /\ revs[i - 1].trie[n[1]] <= revs[i - 1].no
  BY <1>3, <1>4, Zenon DEF History
<1>6. revs[i - 1].no \in Int /\ revs[i].no \in Int
  <2>1. revs[i - 1] \in Revision(S, K) /\ revs[i] \in Revision(S, K)
    BY <1>1, <1>3
  <2>. QED
    BY <2>1 DEF Revision
<1>7. n[2] <= revs[i].no
  BY <1>2, <1>4, <1>5, <1>6 DEF In
<1>8. ASSUME i < j, In(n, revs[j].trie) PROVE FALSE
  <2>1. revs[j].trie[n[1]] = n[2] /\ n[2] # 0
    BY <1>8, <1>4 DEF In
  <2>2. revs[i].trie[n[1]] = revs[j].trie[n[1]]
    BY <1>8, <1>3, <1>4, <1>7, <2>1, SMTT(20) DEF History
  <2>. QED
    BY <2>1, <2>2, <1>2, Zenon DEF In
<1>. QED
  BY <1>2, <1>3, <1>8

\* What a commit gives back was in no list yet, and stays out of the tries.
LEMMA WaitingCommit ==
  ASSUME NEW S, NEW K \in Nat, NEW revs, NEW com, NEW pend, NEW todo,
         History(revs, com, S, K), Waiting(pend, revs, todo, com, S, K),
         NEW k \in 0..(Len(revs) - 1), com < K, NEW r, NewRevision(r, revs[Len(revs)], com, S, K)
  PROVE  Waiting(Handed(pend, revs, k), Advanced(revs, k, r), todo, com + 1, S, K)
<1> DEFINE L == Len(revs)
           P == Len(pend)
           new == Advanced(revs, k, r)
           handed == Handed(pend, revs, k)
<1>1. /\ revs \in Seq(Revision(S, K)) /\ pend \in Seq(SUBSET Node(S, K)) /\ r \in Revision(S, K)
      /\ todo \subseteq Node(S, K) /\ com \in Nat
  BY DEF History, Waiting, NewRevision
<1>2. L \in Nat /\ L > 0 /\ P \in Nat /\ k \in 0..(L - 1) /\ k \in 0..L
  BY <1>1 DEF History
<1>3. /\ Len(new) = L - k + 1 /\ \A i \in 1..(L - k) : new[i] = revs[i + k]
      /\ new[L - k + 1] = r
  BY <1>1, <1>2, AdvancedElements
<1>4. /\ handed \in Seq(SUBSET Node(S, K)) /\ Len(handed) = P + k
      /\ Lists(handed, new) = Lists(pend, revs) \cup {P + L + 1}
      /\ \A p \in Lists(pend, revs) : ListAt(handed, new, p) = ListAt(pend, revs, p)
      /\ ListAt(handed, new, P + L + 1) = r.deleted
  BY <1>1, <1>2, ListsCommit, SMTT(20)
<1> HIDE DEF new, handed, L, P
<1>5. /\ \A n \in r.deleted : n \in Node(S, K) /\ In(n, revs[L].trie) /\ ~In(n, r.trie)
      /\ \A s \in S : r.trie[s] \in {revs[L].trie[s], com + 1, 0}
  BY Zenon DEF NewRevision, L
<1>6. \A n \in Node(S, K) : In(n, revs[L].trie) => n[2] <= com
  <2>1. SUFFICES ASSUME NEW n \in Node(S, K), In(n, revs[L].trie) PROVE n[2] <= com
    BY Zenon
  <2>2. L \in 1..L /\ revs[L] \in Revision(S, K) /\ n[1] \in S
    BY <1>1, <1>2, NodeParts DEF L
  <2>3. revs[L].no <= com /\ revs[L].trie[n[1]] <= revs[L].no
    BY <2>2, Zenon DEF History, L
  <2>4. revs[L].no \in Int /\ revs[L].trie[n[1]] \in Int
    BY <2>2 DEF Revision
  <2>. QED
    BY <2>1, <2>3, <2>4, <1>1 DEF In
<1>7. ASSUME NEW n \in Node(S, K), n[2] <= com, ~In(n, revs[L].trie) PROVE ~In(n, r.trie)
  <2>1. n[1] \in S /\ n[2] \in 1..K
    BY NodeParts, Zenon
  <2>. QED
    BY <2>1, <1>1, <1>5, <1>7, SMTT(20) DEF In
<1>8. ASSUME NEW p \in Lists(pend, revs), NEW n \in ListAt(pend, revs, p)
      PROVE  n \in Node(S, K) /\ n \notin todo /\ n[2] <= com /\ ~In(n, revs[L].trie)
  <2>1. n \in Node(S, K)
    <3>1. CASE p <= P
      <4>1. p \in 1..P /\ pend[p] \in SUBSET Node(S, K)
        BY <3>1, <1>1, <1>2 DEF Lists, P, L
      <4>. QED
        BY <4>1, <3>1, Zenon DEF ListAt, P
    <3>2. CASE ~(p <= P)
      <4>1. p - P \in 1..L
        BY <3>2, <1>2 DEF Lists, P, L
      <4>2. revs[p - P] \in Revision(S, K)
        BY <4>1, <1>1 DEF L
      <4>. QED
        BY <4>2, <3>2, Zenon DEF ListAt, P, Revision
    <3>. QED
      BY <3>1, <3>2, Zenon
  <2>. QED
    BY <2>1, <1>8, Zenon DEF Waiting, L
<1>9. \A p, q \in Lists(handed, new) :
        \A n \in ListAt(handed, new, p) : n \in ListAt(handed, new, q) => p = q
  <2>1. SUFFICES ASSUME NEW p \in Lists(handed, new), NEW q \in Lists(handed, new),
                        NEW n \in ListAt(handed, new, p), n \in ListAt(handed, new, q)
                 PROVE  p = q
    BY Zenon
  <2>2. ASSUME NEW x \in Lists(pend, revs), n \in ListAt(pend, revs, x), n \in r.deleted PROVE FALSE
    BY <2>2, <1>5, <1>8, Zenon
  <2>3. CASE p \in Lists(pend, revs) /\ q \in Lists(pend, revs)
    BY <2>1, <2>3, <1>4, Zenon DEF Waiting
  <2>. QED
    BY <2>1, <2>2, <2>3, <1>4, Zenon
<1>10. ASSUME NEW p \in Lists(handed, new), NEW n \in ListAt(handed, new, p)
       PROVE  n \notin todo /\ n[2] <= com + 1 /\ ~In(n, r.trie)
  <2>1. CASE p \in Lists(pend, revs)
    <3>1. n \in Node(S, K) /\ n \notin todo /\ n[2] <= com /\ ~In(n, revs[L].trie)
      BY <2>1, <1>4, <1>8, <1>10, Zenon
    <3>2. n[2] \in Int
      BY <3>1, NodeParts
    <3>. QED
      BY <3>1, <3>2, <1>1, <1>7
  <2>2. CASE p = P + L + 1
    <3>1. n \in Node(S, K) /\ In(n, revs[L].trie) /\ ~In(n, r.trie)
      BY <2>2, <1>4, <1>5, <1>10, Zenon
    <3>2. n[2] \in Int /\ n[2] <= com
      BY <3>1, <1>6, NodeParts
    <3>3. n \notin todo
      BY <3>1, <1>2 DEF Waiting, L
    <3>. QED
      BY <3>1, <3>2, <3>3, <1>1
  <2>. QED
    BY <2>1, <2>2, <1>4, <1>10, Zenon
<1>11. ASSUME NEW p \in 1..(P + k + 1), NEW n \in ListAt(handed, new, p), NEW i \in 1..(L - k + 1)
       PROVE  ~In(n, new[i].trie)
  <2>1. p \in Lists(pend, revs) /\ n \in ListAt(pend, revs, p)
    <3>1. p \in Lists(pend, revs)
      BY <1>2 DEF Lists, P, L
    <3>. QED
      BY <3>1, <1>4, <1>11, Zenon
  <2>2. CASE i = L - k + 1
    <3>1. p \in Lists(handed, new)
      BY <2>1, <1>4, Zenon
    <3>. QED
      BY <2>2, <3>1, <1>3, <1>10, <1>11, Zenon
  <2>3. CASE i \in 1..(L - k)
    <3>1. PICK j \in 1..L : j = i + k /\ new[i] = revs[j]
      BY <2>3, <1>2, <1>3
    <3>2. CASE p \in 1..(P + 1)
      BY <3>1, <3>2, <2>1, Zenon DEF Waiting, P, L
    <3>3. CASE p \in (P + 2)..(P + k + 1)
      <4>1. PICK q \in 2..L : q = p - P /\ ~(p <= P) /\ j \in q..L
        BY <3>1, <3>3, <2>3, <1>2
      <4>2. n \in revs[q].deleted
        BY <4>1, <2>1, Zenon DEF ListAt, P
      <4>3. q \in 2..Len(revs) /\ j \in q..Len(revs)
        BY <4>1, Zenon DEF L
      <4>4. ~In(n, revs[j].trie)
        BY <4>2, <4>3, DeletedForGood, Zenon
      <4>. QED
        BY <4>4, <3>1, Zenon
    <3>. QED
      BY <3>2, <3>3, <1>2
  <2>. QED
    BY <2>2, <2>3, <1>2
<1>12. ASSUME NEW n \in todo
       PROVE  n[2] <= com + 1 /\ \A i \in 1..(L - k + 1) : ~In(n, new[i].trie)
  <2>1. n \in Node(S, K) /\ n[2] <= com /\ \A i \in 1..L : ~In(n, revs[i].trie)
    BY <1>1, <1>12, Zenon DEF Waiting, L
  <2>2. n[2] \in Int
    BY <2>1, NodeParts
  <2>3. ~In(n, r.trie)
    BY <2>1, <1>2, <1>7
  <2>4. ASSUME NEW i \in 1..(L - k) PROVE ~In(n, new[i].trie)
    <3>1. i + k \in 1..L
      BY <1>2
    <3>. QED
      BY <3>1, <2>1, <1>3, Zenon
  <2>5. \A i \in 1..(L - k + 1) : i = L - k + 1 \/ i \in 1..(L - k)
    BY <1>2
  <2>. QED
    BY <2>1, <2>2, <2>3, <2>4, <2>5, <1>1, <1>3, SMTT(20)
<1>13. new[Len(new)] = r /\ Len(handed) + 1 = P + k + 1
  BY <1>3, <1>4, Zenon
<1>14. Waiting(handed, new, todo, com + 1, S, K)
  BY <1>1, <1>3, <1>4, <1>9, <1>10, <1>11, <1>12, <1>13, Zenon DEF Waiting
<1>. QED
  BY <1>14, Zenon DEF new, handed

\* A commit drops no node that still has to be freed, and adds only its own.
LEMMA OwnedCommit ==
  ASSUME Counting, NEW S, NEW K \in Nat, NEW revs, NEW com, NEW pend, NEW todo,
         History(revs, com, S, K), Waiting(pend, revs, todo, com, S, K),
         NEW k \in 0..(Len(revs) - 1), com < K, NEW r, NewRevision(r, revs[Len(revs)], com, S, K),
         NEW n \in Node(S, K)
  PROVE  /\ OwnedBy(n, pend, revs, todo) => OwnedBy(n, Handed(pend, revs, k), Advanced(revs, k, r), todo)
         /\ OwnedBy(n, Handed(pend, revs, k), Advanced(revs, k, r), todo)
              => OwnedBy(n, pend, revs, todo) \/ n[2] = com + 1
<1> DEFINE L == Len(revs)
           P == Len(pend)
           new == Advanced(revs, k, r)
           handed == Handed(pend, revs, k)
<1>1. /\ revs \in Seq(Revision(S, K)) /\ pend \in Seq(SUBSET Node(S, K)) /\ r \in Revision(S, K)
  BY Zenon DEF History, Waiting, NewRevision
<1>2. L \in Nat /\ L > 0 /\ P \in Nat /\ k \in 0..(L - 1) /\ k \in 0..L
  BY <1>1 DEF History
<1>3. /\ Len(new) = L - k + 1 /\ \A i \in 1..(L - k) : new[i] = revs[i + k]
      /\ new[L - k + 1] = r
  <2>1. k \in 0..Len(revs)
    BY <1>2, Zenon
  <2>. QED
    <3> HIDE DEF new
    <3>1. new = Advanced(revs, k, r)
      BY Zenon DEF new
    <3>2. /\ Len(Advanced(revs, k, r)) = Len(revs) - k + 1
          /\ \A i \in 1..(Len(revs) - k) : Advanced(revs, k, r)[i] = revs[i + k]
          /\ Advanced(revs, k, r)[Len(revs) - k + 1] = r
      <4>1. PICK R : R = Revision(S, K)
        BY Zenon
      <4>2. revs \in Seq(R) /\ r \in R
        BY <1>1, <4>1, Zenon
      <4>. QED
        BY <4>2, <2>1, AdvancedElements
    <3>. QED
      BY <3>1, <3>2, Zenon
<1>4. /\ Lists(handed, new) = Lists(pend, revs) \cup {P + L + 1}
      /\ \A p \in Lists(pend, revs) : ListAt(handed, new, p) = ListAt(pend, revs, p)
      /\ ListAt(handed, new, P + L + 1) = r.deleted
  BY <1>1, <1>2, ListsCommit, SMTT(20)
<1> HIDE DEF new, handed, L, P
<1>5. n[1] \in S /\ n[2] \in 1..K /\ L \in 1..L
  BY <1>2, NodeParts
<1>6. ASSUME OwnedBy(n, pend, revs, todo) PROVE OwnedBy(n, handed, new, todo)
  <2>1. CASE n \in todo \/ \E p \in Lists(pend, revs) : n \in ListAt(pend, revs, p)
    BY <2>1, <1>4, Zenon DEF OwnedBy
  <2>2. ASSUME NEW i \in 1..L, In(n, revs[i].trie) PROVE OwnedBy(n, handed, new, todo)
    <3>1. CASE i > k
      <4>1. PICK j \in 1..(L - k) : j + k = i /\ j \in 1..Len(new)
        BY <3>1, <1>2, <1>3
      <4>. QED
        BY <4>1, <2>2, <1>3, Zenon DEF OwnedBy
    <3>2. CASE i <= k
      <4> DEFINE missing == {j \in i..(k + 1) : ~In(n, revs[j].trie)}
      <4>1. CASE missing = {}
        <5>1. k + 1 \in i..(k + 1) /\ 1 \in 1..(L - k) /\ 1 \in 1..Len(new)
          BY <3>2, <1>2, <1>3
        <5>2. In(n, revs[k + 1].trie)
          BY <5>1, <4>1, Zenon
        <5>3. new[1] = revs[k + 1]
          BY <5>1, <1>2, <1>3
        <5>. QED
          BY <5>1, <5>2, <5>3, Zenon DEF OwnedBy
      <4>2. CASE missing # {}
        <5>1. missing \subseteq Nat
          BY <1>2
        <5>2. PICK j \in missing : \A x \in missing : j <= x
          <6>1. missing \in SUBSET Nat
            BY <5>1, Zenon
          <6> HIDE DEF missing
          <6>. QED
            BY <6>1, <4>2, Zenon DEF Counting
        <5>3. j \in i..(k + 1) /\ ~In(n, revs[j].trie) /\ j # i
          BY <5>2, <2>2, Zenon
        <5>4. j - 1 \in i..(k + 1) /\ ~(j <= j - 1) /\ j \in 2..L
          BY <5>3, <2>2, <1>2
        <5>5. In(n, revs[j - 1].trie)
          BY <5>2, <5>4, Zenon
        <5>6. n \in revs[j].deleted
          BY <5>3, <5>4, <5>5, Zenon DEF History, L
        <5>7. PICK p \in Lists(pend, revs) : p = P + j /\ p - P = j /\ ~(p <= P)
          BY <5>4, <1>2 DEF Lists, P, L
        <5>8. n \in ListAt(pend, revs, p)
          BY <5>6, <5>7, Zenon DEF ListAt, P
        <5>. QED
          BY <5>7, <5>8, <1>4, Zenon DEF OwnedBy
      <4>. QED
        BY <4>1, <4>2, Zenon
    <3>. QED
      BY <3>1, <3>2, <2>2, <1>2
  <2>. QED
    BY <2>1, <2>2, <1>6, Zenon DEF OwnedBy, L
<1>7. ASSUME OwnedBy(n, handed, new, todo), n[2] # com + 1 PROVE OwnedBy(n, pend, revs, todo)
  <2>1. ASSUME In(n, revs[L].trie) PROVE OwnedBy(n, pend, revs, todo)
    BY <2>1, <1>5, Zenon DEF OwnedBy, L
  <2>2. CASE n \in todo
    BY <2>2, Zenon DEF OwnedBy
  <2>3. ASSUME NEW p \in Lists(handed, new), n \in ListAt(handed, new, p)
        PROVE  OwnedBy(n, pend, revs, todo)
    <3>1. CASE p \in Lists(pend, revs)
      BY <3>1, <2>3, <1>4, Zenon DEF OwnedBy
    <3>2. CASE p = P + L + 1
      <4>1. In(n, revs[L].trie)
        BY <3>2, <2>3, <1>4, Zenon DEF NewRevision, L
      <4>. QED
        BY <4>1, <2>1, Zenon
    <3>. QED
      BY <3>1, <3>2, <2>3, <1>4, Zenon
  <2>4. ASSUME NEW i \in 1..Len(new), In(n, new[i].trie) PROVE OwnedBy(n, pend, revs, todo)
    <3>1. CASE i \in 1..(L - k)
      <4>1. i + k \in 1..L /\ In(n, revs[i + k].trie)
        BY <3>1, <2>4, <1>2, <1>3, SMTT(20)
      <4>. QED
        BY <4>1, Zenon DEF OwnedBy, L
    <3>2. CASE i = L - k + 1
      <4>1. r.trie[n[1]] = n[2]
        BY <3>2, <2>4, <1>3, Zenon DEF In
      <4>2. r.trie[n[1]] \in {revs[L].trie[n[1]], com + 1, 0}
        BY <1>5, Zenon DEF NewRevision, L
      <4>3. In(n, revs[L].trie)
        BY <4>1, <4>2, <1>5, <1>7 DEF In
      <4>. QED
        BY <4>3, <2>1, Zenon
    <3>. QED
      BY <3>1, <3>2, <2>4, <1>2, <1>3
  <2>. QED
    BY <2>2, <2>3, <2>4, <1>7, Zenon DEF OwnedBy
<1>. QED
  BY <1>6, <1>7, Zenon DEF new, handed

\* The revisions a commit pops are older than the one the header names: at most
\* max_persistence_gap are newer, and more than that stay.
LEMMA PoppedBehind ==
  ASSUME Counting, NEW S, NEW K \in Nat, History(revisions, commits, S, K),
         Kept(revisions, header.root, header.trie),
         MaxGap \in Nat, MaxRevisions \in Nat, MaxGap < MaxRevisions, Outstanding < MaxGap
  PROVE  /\ Popped \in 0..(Len(revisions) - 1)
         /\ \A i \in 1..Popped : revisions[i].no \notin held
         /\ \A i \in 1..Len(revisions) : revisions[i].no >= header.root => Popped < i
<1> DEFINE L == Len(revisions)
           Stops(n) == L - n < MaxRevisions \/ revisions[n + 1].no \in held
           Goes(n) == \A i \in 1..n : revisions[i].no \notin held /\ L - i + 1 >= MaxRevisions
<1>1. /\ revisions \in Seq(Revision(S, K)) /\ L \in Nat /\ L > 0 /\ DOMAIN revisions = 1..L
      /\ \A i \in 1..L : revisions[i].no \in Nat
  <2>1. revisions \in Seq(Revision(S, K)) /\ L > 0
    BY Zenon DEF History
  <2>2. \A i \in 1..L : revisions[i] \in Revision(S, K)
    BY <2>1
  <2>. QED
    BY <2>1, <2>2 DEF Revision
<1>2. \E n \in 0..L : Goes(n) /\ Stops(n)
  <2> DEFINE stops == {n \in 0..L : Stops(n)}
  <2>1. L \in stops /\ stops \subseteq Nat
    BY <1>1
  <2>2. PICK n \in stops : \A x \in stops : n <= x
    <3>1. stops \in SUBSET Nat /\ stops # {}
      BY <2>1, Zenon
    <3> HIDE DEF stops
    <3>. QED
      BY <3>1, Zenon DEF Counting
  <2>3. ASSUME NEW i \in 1..n PROVE revisions[i].no \notin held /\ L - i + 1 >= MaxRevisions
    <3>1. i - 1 \in 0..L /\ ~(n <= i - 1) /\ i - 1 + 1 = i /\ L - (i - 1) = L - i + 1
      BY <2>2, <1>1, SMTT(20)
    <3>2. ~Stops(i - 1)
      BY <3>1, <2>2, Zenon
    <3>. QED
      BY <3>1, <3>2, <1>1
  <2>. QED
    BY <2>2, <2>3, Zenon
<1>3. Popped \in 0..L /\ Goes(Popped)
  BY <1>2, Zenon DEF Popped
<1>4. PICK hi \in 1..L : revisions[hi].no = header.root
  BY Zenon DEF Kept
<1>5. \A i \in 1..L : revisions[i].no > header.root <=> i > hi
  <2>1. \A i, j \in 1..L : i < j => revisions[i].no < revisions[j].no
    BY Zenon DEF History
  <2>2. SUFFICES ASSUME NEW i \in 1..L PROVE revisions[i].no > revisions[hi].no <=> i > hi
    BY <1>4, Zenon
  <2>3. i < hi => revisions[i].no < revisions[hi].no
    BY <2>1, Zenon
  <2>4. hi < i => revisions[hi].no < revisions[i].no
    BY <2>1, Zenon
  <2>5. revisions[i].no \in Nat /\ revisions[hi].no \in Nat
    BY <1>1, Zenon
  <2>. QED
    BY <2>3, <2>4, <2>5
<1>6. Outstanding = L - hi
  <2>1. {i \in DOMAIN revisions : revisions[i].no > header.root} = (hi + 1)..L
    BY <1>1, <1>5
  <2>2. PICK a \in Int : a = hi + 1
    BY <1>1
  <2>a. L \in Int
    BY <1>1
  <2> HIDE DEF L
  <2>b. PICK b \in Int : b = L
    BY <2>a, Zenon
  <2>3. Cardinality(a..b) = IF a > b THEN 0 ELSE b - a + 1
    BY Zenon DEF Counting
  <2>4. Cardinality(a..b) = L - hi
    BY <1>1, <2>2, <2>b, <2>3
  <2>. QED
    BY <2>1, <2>2, <2>b, <2>4, Zenon DEF Outstanding
<1>7. Popped < hi
  <2>1. CASE Popped = 0
    BY <2>1
  <2>2. CASE Popped > 0
    <3>1. Popped \in 1..Popped /\ Popped \in Nat
      BY <2>2, <1>3
    <3>2. L - Popped + 1 >= MaxRevisions
      BY <3>1, <1>3, Zenon
    <3>. QED
      BY <3>1, <3>2, <1>1, <1>6
  <2>. QED
    BY <2>1, <2>2, <1>3
<1>8. \A i \in 1..L : revisions[i].no >= header.root => hi <= i
  <2>1. SUFFICES ASSUME NEW i \in 1..L, i < hi PROVE ~(revisions[i].no >= revisions[hi].no)
    BY <1>4
  <2>2. revisions[i].no < revisions[hi].no
    BY <2>1, Zenon DEF History
  <2>3. revisions[i].no \in Nat /\ revisions[hi].no \in Nat
    BY <1>1, Zenon
  <2>. QED
    BY <2>2, <2>3
<1>. QED
  BY <1>1, <1>3, <1>7, <1>8

-----------------------------------------------------------------------------
(* Reaping and a restart                                                   *)

\* The oldest list is taken by the reaper.
LEMMA WaitingReap ==
  ASSUME NEW S, NEW K \in Nat, NEW revs, NEW com, NEW pend,
         History(revs, com, S, K), Waiting(pend, revs, {}, com, S, K), pend # <<>>
  PROVE  /\ Waiting(Tail(pend), revs, Head(pend), com, S, K)
         /\ \A n : OwnedBy(n, Tail(pend), revs, Head(pend)) <=> OwnedBy(n, pend, revs, {})
<1> DEFINE P == Len(pend)
           L == Len(revs)
           rest == Tail(pend)
<1>1. pend \in Seq(SUBSET Node(S, K)) /\ P \in Nat /\ P > 0 /\ L \in Nat /\ L > 0
  <2>1. pend \in Seq(SUBSET Node(S, K)) /\ revs \in Seq(Revision(S, K)) /\ L > 0
    BY Zenon DEF Waiting, History
  <2>. QED
    BY <2>1
<1>2. /\ rest \in Seq(SUBSET Node(S, K)) /\ Len(rest) = P - 1
      /\ \A p \in 1..(P - 1) : rest[p] = pend[p + 1]
      /\ Head(pend) = pend[1]
  <2>1. PICK R : R = SUBSET Node(S, K)
    BY Zenon
  <2>2. pend \in Seq(R)
    BY <2>1, <1>1, Zenon
  <2>3. rest \in Seq(R) /\ Len(rest) = P - 1 /\ Head(pend) = pend[1] /\ \A p \in 1..(P - 1) : rest[p] = pend[p + 1]
    BY <2>2, <1>1
  <2>. QED
    BY <2>1, <2>3, Zenon
<1> HIDE DEF P, L, rest
<1>3. \A p : p \in Lists(rest, revs) <=> p + 1 \in 2..(P + L) /\ p \in Int
  BY <1>1, <1>2, SMTT(20) DEF Lists, L
<1>4. \A p \in Lists(rest, revs) : ListAt(rest, revs, p) = ListAt(pend, revs, p + 1)
  <2>1. SUFFICES ASSUME NEW p \in 1..(P - 1 + L) PROVE ListAt(rest, revs, p) = ListAt(pend, revs, p + 1)
    BY <1>2, Zenon DEF Lists, L
  <2>2. CASE p \in 1..(P - 1)
    <3>1. p <= Len(rest) /\ p + 1 <= Len(pend) /\ rest[p] = pend[p + 1]
      BY <2>2, <1>1, <1>2 DEF P
    <3>. QED
      BY <3>1, Zenon DEF ListAt
  <2>3. CASE p \in P..(P - 1 + L)
    <3>1. PICK q : q = p + 1
      BY Zenon
    <3>2. ~(p <= P - 1) /\ ~(q <= P) /\ p - (P - 1) = q - P
      BY <3>1, <2>3, <1>1
    <3>3. ~(p <= Len(rest)) /\ ~(q <= Len(pend)) /\ p - Len(rest) = q - Len(pend)
      BY <3>2, <1>2, Zenon DEF P
    <3>4. ListAt(rest, revs, p) = ListAt(pend, revs, q)
      BY <3>3, Zenon DEF ListAt
    <3>. QED
      BY <3>1, <3>4, Zenon
  <2>. QED
    BY <2>2, <2>3, <1>1
<1>5. 1 \in Lists(pend, revs) /\ ListAt(pend, revs, 1) = Head(pend) /\ Head(pend) \subseteq Node(S, K)
  BY <1>1, <1>2 DEF Lists, ListAt, P, L
<1>6. \A p \in Lists(rest, revs) : p + 1 \in Lists(pend, revs) /\ p + 1 # 1
  BY <1>1, <1>3 DEF Lists, P, L
<1>7. \A p \in Lists(pend, revs) : p = 1 \/ (p - 1 \in Lists(rest, revs) /\ p - 1 + 1 = p)
  <2>1. Len(rest) + Len(revs) = P - 1 + L
    BY <1>2, Zenon DEF L
  <2>2. \A p \in 1..(P + L) : p = 1 \/ (p - 1 \in 1..(P - 1 + L) /\ p - 1 + 1 = p)
    BY <1>1
  <2>. QED
    BY <2>1, <2>2, Zenon DEF Lists, P, L
<1>8. Waiting(rest, revs, Head(pend), com, S, K)
  <2>1. \A p, q \in Lists(rest, revs) :
          \A n \in ListAt(rest, revs, p) : n \in ListAt(rest, revs, q) => p = q
    <3>1. SUFFICES ASSUME NEW p \in Lists(rest, revs), NEW q \in Lists(rest, revs),
                          NEW n \in ListAt(rest, revs, p), n \in ListAt(rest, revs, q)
                   PROVE  p = q
      BY Zenon
    <3>2. p + 1 = q + 1
      BY <3>1, <1>4, <1>6, Zenon DEF Waiting
    <3>. QED
      BY <3>2, <1>3
  <2>2. \A p \in Lists(rest, revs) : \A n \in ListAt(rest, revs, p) :
          n \notin Head(pend) /\ n[2] <= com /\ ~In(n, revs[Len(revs)].trie)
    BY <1>4, <1>5, <1>6 DEF Waiting
  <2>3. \A p \in 1..(Len(rest) + 1) : \A n \in ListAt(rest, revs, p) :
          \A i \in 1..Len(revs) : ~In(n, revs[i].trie)
    <3>1. SUFFICES ASSUME NEW p \in 1..(Len(rest) + 1) PROVE p \in Lists(rest, revs) /\ p + 1 \in 1..(Len(pend) + 1)
      BY <1>4, Zenon DEF Waiting
    <3>. QED
      BY <1>1, <1>2, <1>3, SMTT(20) DEF P
  <2>4. \A n \in Head(pend) : n[2] <= com /\ \A i \in 1..Len(revs) : ~In(n, revs[i].trie)
    <3>1. 1 \in 1..(Len(pend) + 1)
      BY <1>1 DEF P
    <3>. QED
      BY <3>1, <1>5, Zenon DEF Waiting
  <2>. QED
    BY <1>2, <1>5, <2>1, <2>2, <2>3, <2>4, Zenon DEF Waiting
<1>9. ASSUME NEW n PROVE OwnedBy(n, rest, revs, Head(pend)) <=> OwnedBy(n, pend, revs, {})
  <2>1. (\E p \in Lists(pend, revs) : n \in ListAt(pend, revs, p))
          <=> n \in Head(pend) \/ \E p \in Lists(rest, revs) : n \in ListAt(rest, revs, p)
    BY <1>4, <1>5, <1>6, <1>7, Zenon
  <2>. QED
    BY <2>1, Zenon DEF OwnedBy
<1>. QED
  BY <1>8, <1>9, Zenon DEF rest

\* A node that is reaped leaves the lists and nothing else.
LEMMA WaitingDelete ==
  ASSUME NEW S, NEW K \in Nat, NEW revs, NEW com, NEW pend, NEW todo,
         Waiting(pend, revs, todo, com, S, K), NEW n \in todo,
         NEW rest, rest = todo \ {n}
  PROVE  /\ Waiting(pend, revs, rest, com, S, K)
         /\ \A m : OwnedBy(m, pend, revs, rest) <=> OwnedBy(m, pend, revs, todo) /\ m # n
<1>1. Waiting(pend, revs, rest, com, S, K)
  BY Zenon DEF Waiting
<1>2. \A i \in 1..Len(revs) : ~In(n, revs[i].trie)
  BY Zenon DEF Waiting
<1>3. \A p \in Lists(pend, revs) : n \notin ListAt(pend, revs, p)
  BY Zenon DEF Waiting
<1>. QED
  BY <1>1, <1>2, <1>3, Zenon DEF OwnedBy

\* What a database that was just opened starts with.
LEMMA HistoryOpened ==
  ASSUME NEW S, NEW K \in Nat, NEW root \in 0..K, NEW com \in root..K, NEW trie \in [S -> 0..K],
         \A s \in S : trie[s] <= root,
         NEW revs, revs = <<[no |-> root, trie |-> trie, deleted |-> {}]>>
  PROVE  /\ History(revs, com, S, K) /\ Waiting(<<>>, revs, {}, com, S, K) /\ Kept(revs, root, trie)
         /\ \A n : OwnedBy(n, <<>>, revs, {}) <=> In(n, trie)
<1> DEFINE rev == [no |-> root, trie |-> trie, deleted |-> {}]
<1>1. rev \in Revision(S, K) /\ rev.no = root /\ rev.trie = trie /\ rev.deleted = {}
  BY Zenon DEF Revision
<1>2. revs \in Seq(Revision(S, K)) /\ Len(revs) = 1 /\ revs[1] = rev
  <2> HIDE DEF rev
  <2>. QED
    BY <1>1 DEF rev
<1> HIDE DEF rev
<1>3. 1..Len(revs) = {1} /\ 2..Len(revs) = {} /\ com \in Nat /\ root \in Nat /\ com \in 0..K
  BY <1>2
<1>4. Lists(<<>>, revs) = {1} /\ ListAt(<<>>, revs, 1) = {}
  BY <1>1, <1>2 DEF Lists, ListAt
<1>5. History(revs, com, S, K)
  BY <1>1, <1>2, <1>3 DEF History
<1>6. Waiting(<<>>, revs, {}, com, S, K)
  <2>1. 1..(Len(<<>>) + 1) = {1} /\ <<>> \in Seq(SUBSET Node(S, K))
    OBVIOUS
  <2>. QED
    BY <2>1, <1>4, Zenon DEF Waiting
<1>7. Kept(revs, root, trie)
  BY <1>1, <1>2, <1>3, Zenon DEF Kept
<1>8. \A n : OwnedBy(n, <<>>, revs, {}) <=> In(n, trie)
  BY <1>1, <1>2, <1>3, <1>4, Zenon DEF OwnedBy
<1>. QED
  BY <1>5, <1>6, <1>7, <1>8, Zenon

-----------------------------------------------------------------------------
(* The scenario                                                            *)

\* What a scenario provides.
LEMMA Scene ==
  ASSUME scenario \in Scenarios
  PROVE  /\ Setting(Slots, MaxCommits) /\ IsFiniteSet(Leaves)
         /\ "existing" \in Opened => MaxCommits > 0 /\ Cardinality(Leaves) + 2 <= MaxAreas
<1>1. /\ {scenario.gap, scenario.revisions, scenario.commits} \subseteq Nat
      /\ scenario.gap < scenario.revisions
      /\ "root" \notin scenario.leaves /\ IsFiniteSet(scenario.leaves)
      /\ "existing" \in scenario.opened => scenario.commits > 0 /\ Cardinality(scenario.leaves) + 2 <= MaxAreas
  BY ScenarioAssumption, Zenon
<1>. QED
  BY <1>1, Zenon DEF Setting, MaxGap, MaxRevisions, MaxCommits, Leaves, Opened

-----------------------------------------------------------------------------
(* The walk along a free list                                              *)

\* One more stop on the way along a free list, and the stops one after the other.
Stop(s) ==
  IF s[Len(s)] = Nil \/ disk[s[Len(s)]].kind # "free" THEN s ELSE Append(s, disk[s[Len(s)]].next)
Walked(w, head) == [i \in 0..MaxAreas |-> IF i = 0 THEN <<head>> ELSE Stop(w[i - 1])]

\* FreeChain is the last of the walks, which their recursion determines.
LEMMA ChainWalk ==
  ASSUME Counting, NEW head, NEW w, w = Walked(w, head)
  PROVE  FreeChain(head) = w[MaxAreas]
<1>1. FreeChain(head) = (CHOOSE v : v = Walked(v, head))[MaxAreas]
  BY Zenon DEF FreeChain, Walked, Stop
<1>2. PICK v : v = Walked(v, head) /\ FreeChain(head) = v[MaxAreas]
  BY <1>1, Zenon
<1>3. MaxAreas \in 0..MaxAreas /\ MaxAreas \in Nat
  BY ScenarioAssumption
<1>4. /\ \A i \in 0..MaxAreas : v[i] = IF i = 0 THEN <<head>> ELSE Stop(v[i - 1])
      /\ \A i \in 0..MaxAreas : w[i] = IF i = 0 THEN <<head>> ELSE Stop(w[i - 1])
  BY <1>2, Zenon DEF Walked
<1>5. ASSUME v[MaxAreas] # w[MaxAreas] PROVE FALSE
  <2>1. PICK D : D = {i \in 0..MaxAreas : v[i] # w[i]}
    BY Zenon
  <2>2. D \subseteq Nat /\ D # {}
    BY <2>1, <1>3, <1>5
  <2>3. PICK x \in D : \A y \in D : x <= y
    BY <2>2, Zenon DEF Counting
  <2>4. x \in 0..MaxAreas /\ v[x] # w[x]
    BY <2>1, Zenon
  <2>5. x # 0
    BY <2>4, <1>4, Zenon
  <2>6. x - 1 \in 0..MaxAreas /\ ~(x <= x - 1)
    BY <2>4, <2>5, <1>3
  <2>7. v[x - 1] = w[x - 1]
    BY <2>1, <2>3, <2>6, Zenon
  <2>8. v[x] = Stop(v[x - 1]) /\ w[x] = Stop(w[x - 1])
    BY <2>4, <2>5, <1>4, Zenon
  <2>. QED
    BY <2>4, <2>7, <2>8, Zenon
<1>. QED
  BY <1>2, <1>5, Zenon

\* The first l elements of the stack f[1..k], from the top, and Nil below them.
Down(f, k, l) == [j \in 1..l |-> Top(f, k + 1 - j)]

\* On disk, f[1..k] is a stack of free areas.
Linked(f, k) ==
  /\ k \in Nat /\ f \in [1..k -> Areas] /\ \A i, j \in 1..k : f[i] = f[j] => i = j
  /\ \A i \in 1..k : disk[f[i]] = FreeCell(Below(f, i))

\* The walk goes down the stack and stays at its end.
LEMMA StopDown ==
  ASSUME NEW f, NEW k, Linked(f, k)
  PROVE  /\ \A l \in 1..k : Stop(Down(f, k, l)) = Down(f, k, l + 1)
         /\ Stop(Down(f, k, k + 1)) = Down(f, k, k + 1)
<1>1. k \in Nat /\ \A i \in 1..k : f[i] \in Areas /\ disk[f[i]] = FreeCell(Below(f, i))
  BY Zenon DEF Linked
<1>2. ASSUME NEW l \in 1..(k + 1)
      PROVE  Down(f, k, l) \in Seq(Int) /\ Len(Down(f, k, l)) = l /\ Down(f, k, l)[l] = Top(f, k + 1 - l)
  <2>1. l \in Nat /\ l \in 1..l
    BY <1>1
  <2>2. \A j \in 1..l : Top(f, k + 1 - j) \in Int
    <3>1. SUFFICES ASSUME NEW j \in 1..l PROVE Top(f, k + 1 - j) \in Int
      BY Zenon
    <3>2. k + 1 - j \in 0..k /\ (k + 1 - j > 0 => k + 1 - j \in 1..k)
      BY <1>1, <2>1
    <3>. QED
      BY <3>2, <1>1 DEF Top, Areas, Nil
  <2>. QED
    BY <2>1, <2>2 DEF Down
<1>3. ASSUME NEW l \in 1..k PROVE Stop(Down(f, k, l)) = Down(f, k, l + 1)
  <2>1. PICK s, a, i : s = Down(f, k, l) /\ i = k + 1 - l /\ a = f[i]
    BY Zenon
  <2>2. i \in 1..k /\ l \in 1..(k + 1) /\ i > 0 /\ l \in Nat
    BY <1>1, <2>1
  <2>3. Len(s) = l /\ s[Len(s)] = a /\ s \in Seq(Int)
    BY <1>2, <2>1, <2>2, Zenon DEF Top
  <2>4. a # Nil /\ disk[a].kind = "free" /\ disk[a].next = Below(f, i)
    <3>1. a \in Areas /\ disk[a] = FreeCell(Below(f, i))
      BY <1>1, <2>1, <2>2, Zenon
    <3>. QED
      BY <3>1 DEF FreeCell, Areas, Nil
  <2>5. Below(f, i) = Top(f, k + 1 - (l + 1))
    <3>1. k + 1 - (l + 1) = i - 1 /\ (i - 1 > 0 <=> i > 1)
      BY <1>1, <2>1, <2>2
    <3>. QED
      BY <3>1, Zenon DEF Below, Top
  <2>6. Stop(s) = Append(s, Top(f, k + 1 - (l + 1)))
    BY <2>3, <2>4, <2>5, Zenon DEF Stop
  <2>7. Append(s, Top(f, k + 1 - (l + 1))) = Down(f, k, l + 1)
    <3>1. PICK e, t : e = Top(f, k + 1 - (l + 1)) /\ t = Down(f, k, l + 1)
      BY Zenon
    <3>2. l + 1 \in 1..(k + 1) /\ \A j \in 1..(l + 1) : j = l + 1 \/ j \in 1..l
      BY <1>1, <2>2
    <3>3. t \in Seq(Int) /\ Len(t) = l + 1 /\ t[l + 1] = e
      BY <1>2, <3>1, <3>2, Zenon
    <3>4. e \in Int
      BY <3>2, <3>3
    <3>5. /\ Append(s, e) \in Seq(Int) /\ Len(Append(s, e)) = l + 1 /\ Append(s, e)[l + 1] = e
          /\ \A j \in 1..l : Append(s, e)[j] = s[j]
      BY <2>3, <3>4
    <3>6. \A j \in 1..l : s[j] = t[j]
      <4>1. \A j \in 1..l : j \in 1..(l + 1)
        BY <2>2
      <4>. QED
        BY <2>1, <3>1, <4>1, Zenon DEF Down
    <3>7. \A j \in 1..Len(t) : Append(s, e)[j] = t[j]
      BY <3>2, <3>3, <3>5, <3>6, Zenon
    <3>8. Append(s, e) = t
      BY <3>3, <3>5, <3>7
    <3>. QED
      BY <3>1, <3>8, Zenon
  <2>. QED
    BY <2>1, <2>6, <2>7, Zenon
<1>4. Stop(Down(f, k, k + 1)) = Down(f, k, k + 1)
  <2>1. PICK s : s = Down(f, k, k + 1)
    BY Zenon
  <2>2. k + 1 \in 1..(k + 1) /\ k + 1 - (k + 1) = 0 /\ ~(0 > 0)
    BY <1>1
  <2>3. Len(s) = k + 1 /\ s[k + 1] = Nil
    BY <1>2, <2>1, <2>2, Zenon DEF Top
  <2>. QED
    BY <2>1, <2>3, Zenon DEF Stop
<1>. QED
  BY <1>3, <1>4, Zenon

\* The free list that starts at the top of the stack is the stack, and it ends.
LEMMA ChainIsStack ==
  ASSUME Counting, Numbering, NEW f, NEW k, Linked(f, k)
  PROVE  FreeChain(Top(f, k)) = Down(f, k, k + 1)
<1>1. k \in Nat /\ MaxAreas \in Nat /\ f \in [1..k -> Areas]
  BY ScenarioAssumption, Zenon DEF Linked
<1>2. k <= MaxAreas
  <2>1. Cardinality(Areas) = MaxAreas /\ IsFiniteSet(Areas)
    BY <1>1, Zenon DEF Areas, Numbering
  <2>2. \A i, j \in 1..k : f[i] = f[j] => i = j
    BY Zenon DEF Linked
  <2>3. k <= Cardinality(Areas)
    BY <1>1, <2>1, <2>2, Zenon DEF Numbering
  <2>. QED
    BY <2>1, <2>3, Zenon
<1>3. PICK w : w = [i \in 0..MaxAreas |-> Down(f, k, IF i < k THEN i + 1 ELSE k + 1)]
  BY Zenon
<1>4. w = Walked(w, Top(f, k))
  <2>1. ASSUME NEW i \in 0..MaxAreas PROVE w[i] = IF i = 0 THEN <<Top(f, k)>> ELSE Stop(w[i - 1])
    <3>1. CASE i = 0
      <4>1. w[i] = Down(f, k, 1)
        <5>1. (IF 0 < k THEN 0 + 1 ELSE k + 1) = 1
          BY <1>1
        <5>. QED
          BY <5>1, <3>1, <1>3, Zenon
      <4>2. Down(f, k, 1) = <<Top(f, k)>>
        <5>1. PICK t : t = Top(f, k)
          BY Zenon
        <5>2. \A j \in 1..1 : k + 1 - j = k
          BY <1>1
        <5>3. Down(f, k, 1) = [j \in 1..1 |-> t]
          BY <5>1, <5>2, Zenon DEF Down
        <5>. QED
          BY <5>1, <5>3
      <4>. QED
        BY <3>1, <4>1, <4>2, Zenon
    <3>2. CASE i # 0 /\ i <= k
      <4>1. i - 1 \in 0..MaxAreas /\ i - 1 < k /\ i - 1 + 1 = i /\ i \in 1..k
        BY <3>2, <1>1
      <4>2. w[i - 1] = Down(f, k, i)
        BY <4>1, <1>3, Zenon
      <4>3. w[i] = Down(f, k, i + 1)
        <5>1. (IF i < k THEN i + 1 ELSE k + 1) = i + 1
          BY <3>2, <4>1, <1>1
        <5>. QED
          BY <5>1, <1>3, Zenon
      <4>. QED
        BY <3>2, <4>1, <4>2, <4>3, StopDown
    <3>3. CASE i # 0 /\ ~(i <= k)
      <4>1. i - 1 \in 0..MaxAreas /\ ~(i - 1 < k) /\ ~(i < k)
        BY <3>3, <1>1
      <4>2. w[i - 1] = Down(f, k, k + 1) /\ w[i] = Down(f, k, k + 1)
        BY <4>1, <1>3, Zenon
      <4>. QED
        BY <3>3, <4>2, StopDown, Zenon
    <3>. QED
      BY <3>1, <3>2, <3>3, Zenon
  <2>. QED
    BY <2>1, <1>3, Zenon DEF Walked
<1>5. w[MaxAreas] = Down(f, k, k + 1)
  <2>1. MaxAreas \in 0..MaxAreas /\ ~(MaxAreas < k)
    BY <1>1, <1>2
  <2>. QED
    BY <2>1, <1>3, Zenon
<1>. QED
  BY <1>4, <1>5, ChainWalk, Zenon

\* So a free list ends with Nil and offers exactly the areas of the stack.
LEMMA ChainAreas ==
  ASSUME Counting, Numbering, NEW f, NEW k, Linked(f, k), NEW c, c = FreeChain(Top(f, k))
  PROVE  c[Len(c)] = Nil /\ Elements(c) \ {Nil} = {f[i] : i \in 1..k}
<1>1. k \in Nat /\ c = Down(f, k, k + 1) /\ \A i \in 1..k : f[i] # Nil
  BY ChainIsStack DEF Linked, Areas, Nil
<1>2. DOMAIN c = 1..(k + 1) /\ \A j \in 1..(k + 1) : c[j] = Top(f, k + 1 - j)
  BY <1>1, Zenon DEF Down
<1>3. c = [j \in 1..(k + 1) |-> c[j]] /\ Len(c) = k + 1
  <2>1. c = [j \in 1..(k + 1) |-> c[j]]
    BY <1>1, <1>2, Zenon DEF Down
  <2>. QED
    BY <1>1, <2>1, SMTT(20)
<1>4. k + 1 \in 1..(k + 1) /\ k + 1 - (k + 1) = 0 /\ ~(0 > 0)
  BY <1>1
<1>5. c[Len(c)] = Nil
  BY <1>2, <1>3, <1>4, Zenon DEF Top
<1>6. ASSUME NEW x \in Elements(c), x # Nil PROVE \E i \in 1..k : x = f[i]
  <2>1. PICK j \in 1..(k + 1) : x = Top(f, k + 1 - j)
    BY <1>2, <1>6, Zenon DEF Elements
  <2>2. k + 1 - j > 0 => k + 1 - j \in 1..k
    BY <1>1, <2>1
  <2>. QED
    BY <1>6, <2>1, <2>2, Zenon DEF Top
<1>7. ASSUME NEW i \in 1..k PROVE f[i] \in Elements(c)
  <2>1. k + 1 - i \in 1..(k + 1) /\ k + 1 - (k + 1 - i) = i /\ i > 0
    BY <1>1
  <2>2. c[k + 1 - i] = f[i]
    BY <1>2, <2>1, Zenon DEF Top
  <2>. QED
    BY <1>2, <2>1, <2>2, Zenon DEF Elements
<1>. QED
  BY <1>1, <1>5, <1>6, <1>7, Zenon

=============================================================================
