------------------------- MODULE NodeStorageProofs --------------------------
(***************************************************************************)
(* NodeStorage starts in its invariant and stays in it.  What a crash      *)
(* leaves on disk, what readers find and what the allocator offers and     *)
(* keeps follow from it.                                                   *)
(***************************************************************************)
EXTENDS NodeStorageSteps, NodeStorageAreas, FiniteSetTheorems

-----------------------------------------------------------------------------
(* Counting                                                                *)

\* A set of naturals has a least element, and an interval a size.
LEMMA CountingHolds == Counting
<1>1. ASSUME NEW N, N \subseteq Nat, N # {} PROVE \E x \in N : \A y \in N : x <= y
  <2>1. PICK x \in N : \A y \in N : ~ (<<y, x>> \in OpToRel(<, Nat))
    BY <1>1, NatLessThanWellFounded, WFMin, Zenon
  <2>2. \A y \in N : ~(y < x)
    BY <1>1, <2>1, Zenon DEF OpToRel
  <2>. QED
    BY <1>1, <2>2
<1>2. ASSUME NEW a \in Int, NEW b \in Int PROVE Cardinality(a..b) = IF a > b THEN 0 ELSE b - a + 1
  BY FS_Interval, Zenon
<1>. QED
  BY <1>1, <1>2, Zenon DEF Counting

\* Numbers given to different elements of a finite set are at most as many.
LEMMA NumberingHolds == Numbering
<1>1. ASSUME NEW n \in Nat PROVE IsFiniteSet(1..n) /\ Cardinality(1..n) = n
  BY FS_Interval
<1>2. ASSUME NEW T, IsFiniteSet(T) PROVE Cardinality(T) \in Nat
  BY <1>2, FS_CardinalityType, Zenon
<1>3. ASSUME NEW T, NEW n, NEW f, IsFiniteSet(T), n \in Nat, f \in [1..n -> T],
             \A i, j \in 1..n : f[i] = f[j] => i = j
      PROVE  n <= Cardinality(T) /\ (n = Cardinality(T) => \A t \in T : \E i \in 1..n : f[i] = t)
  <2>1. f \in Injection(1..n, T)
    BY <1>3, Zenon DEF Injection, IsInjective
  <2>2. n <= Cardinality(T) /\ (n = Cardinality(T) => f \in Surjection(1..n, T))
    <3>1. PICK I : I = 1..n
      BY Zenon
    <3>2. Cardinality(I) = n /\ f \in Injection(I, T)
      BY <1>1, <1>3, <2>1, <3>1, Zenon
    <3>3. Cardinality(I) <= Cardinality(T) /\ (Cardinality(I) = Cardinality(T) => f \in Surjection(I, T))
      BY <1>3, <3>2, FS_Injection
    <3>. QED
      BY <3>1, <3>2, <3>3, Zenon
  <2>. QED
    BY <2>2, Zenon DEF Surjection
<1>. QED
  BY <1>1, <1>2, <1>3 DEF Numbering

-----------------------------------------------------------------------------
(* The invariant                                                           *)

\* A database that is opened for the first time is sound.
LEMMA InitHolds == Init => StorageInv
<1>1. SUFFICES ASSUME Init PROVE StorageInv
  BY Zenon
<1>2. scenario \in Scenarios /\ open = TRUE
  BY <1>1, Zenon DEF Init
<1>3. /\ Setting(Slots, MaxCommits) /\ IsFiniteSet(Leaves)
      /\ "existing" \in Opened => MaxCommits > 0 /\ Cardinality(Leaves) + 2 <= MaxAreas
  BY <1>2, Scene, Zenon
<1>4. CASE "existing" \in Opened /\ \E order \in LeafOrders, spare \in {0, 1} :
                                      Existing(Append(order, "root"), Len(Append(order, "root")) + spare, spare)
  <2>1. PICK order \in LeafOrders, spare \in {0, 1} :
               Existing(Append(order, "root"), Len(Append(order, "root")) + spare, spare)
    BY <1>4, Zenon
  <2>2. PICK written, N : written = Append(order, "root") /\ N = Cardinality(Leaves) + 1
    BY Zenon
  <2>3. Ordered(written, N, Slots) /\ Len(written) = N
    <3>1. "root" \notin Leaves
      BY <1>3, Zenon DEF Setting
    <3>. QED
      BY <1>3, <2>2, <3>1, NumberingHolds, WrittenOrder, Zenon
  <2>4. MaxCommits \in Nat /\ Nodes = Node(Slots, MaxCommits) /\ MaxCommits > 0
    BY <1>3, <1>4 DEF Setting, Nodes, Node
  <2>5. N + 1 <= MaxAreas
    <3>1. Cardinality(Leaves) \in Nat /\ MaxAreas \in Nat
      BY <1>3, FS_CardinalityType, ScenarioAssumption, Zenon
    <3>. QED
      BY <1>3, <1>4, <2>2, <3>1, SMTT(20)
  <2>6. Existing(written, N + spare, spare)
    BY <2>1, <2>2, <2>3, Zenon
  <2>7. PICK S, K : S = Slots /\ K = MaxCommits
    BY Zenon
  <2>8. Placed(written, N, spare, S, K)
    <3>1. K \in Nat /\ S = Slots /\ Nodes = Node(S, K) /\ K > 0 /\ Ordered(written, N, S)
      BY <2>3, <2>4, <2>7, Zenon
    <3>. QED
      BY <3>1, <2>5, <2>6, ExistingPlaced, Zenon
  <2>9. OpenInv(S, K)
    BY <1>1, <1>3, <2>3, <2>4, <2>7, <2>8, InitWritten
  <2>. QED
    BY <1>2, <2>7, <2>9, Zenon DEF StorageInv
<1>5. CASE \E o \in Opened \ {"existing"} :
             /\ OpenedAt(EmptyHeader) /\ loc = [n \in Nodes |-> InMemory] /\ disk = [a \in Areas |-> Unwritten]
             /\ diskHeader = [header EXCEPT !.written = (o = "truncated")]
  <2>1. /\ OpenedAt(EmptyHeader) /\ loc = [n \in Nodes |-> InMemory] /\ disk = [a \in Areas |-> Unwritten]
        /\ \E w \in BOOLEAN : diskHeader = [header EXCEPT !.written = w]
    BY <1>5, Zenon
  <2>2. OpenInv(Slots, MaxCommits)
    BY <1>1, <1>3, <2>1, InitEmpty, Zenon
  <2>. QED
    BY <1>2, <2>2, Zenon DEF StorageInv
<1>. QED
  BY <1>1, <1>4, <1>5, Zenon DEF Init, Existing

\* Nothing happens to the invariant when nothing happens.
LEMMA StutterStep ==
  ASSUME NEW S, NEW K, OpenInv(S, K), UNCHANGED vars
  PROVE  OpenInv(S, K)'
<1>1. UNCHANGED <<revisions, commits, pendingReaps, held, loc, disk, header, diskHeader, task, crashes,
                  cache, links, proposal, reading, outlived>>
  BY Zenon DEF vars, memory, caches, views
<1>2. PICK O, f, m, h, d : Sound(O, f, m, h, d, S, K)
  BY Zenon DEF OpenInv
<1>3. /\ TypeInv(S, K) /\ CacheInv(O) /\ \A x \in held : \E i \in 1..Len(revisions) : revisions[i].no = x
  BY <1>2, Zenon DEF Sound, HistoryInv
<1>4. TypeInv(S, K)' /\ CacheInv(O)'
  BY <1>1, <1>3, SMTT(20) DEF TypeInv, CacheInv, ReapTodo
<1>. QED
  BY <1>1, <1>2, <1>3, <1>4, ViewStep, ZenonT(30)

\* Every step of an open database keeps it sound, or a crash leaves a file that
\* cannot be opened.
LEMMA OpenStep ==
  ASSUME NEW S, NEW K, Setting(S, K), OpenInv(S, K), open = TRUE, Next
  PROVE  (open' = TRUE /\ OpenInv(S, K)') \/ (open' = FALSE /\ ClosedInv' /\ crashes' \in Nat)
<1>1. PICK O, f, m, h, d : Sound(O, f, m, h, d, S, K)
  BY DEF OpenInv
<1>2. ASSUME NEW t \in NewTries, Commit(t) PROVE open' = TRUE /\ OpenInv(S, K)'
  BY <1>1, <1>2, CountingHolds, CommitStep, Zenon DEF Commit
<1>3. ASSUME NEW r \in 0..commits, Hold(r) \/ Release(r) PROVE open' = TRUE /\ OpenInv(S, K)'
  BY <1>1, <1>3, HoldStep, Zenon DEF Hold, Release
<1>4. ASSUME StartPersist PROVE open' = TRUE /\ OpenInv(S, K)'
  BY <1>1, <1>4, StartPersistStep, Zenon DEF StartPersist
<1>5. ASSUME FlushFreelist PROVE open' = TRUE /\ OpenInv(S, K)'
  BY <1>1, <1>5, FlushFreelistStep DEF FlushFreelist
<1>6. ASSUME FlushHeader PROVE open' = TRUE /\ OpenInv(S, K)'
  BY <1>1, <1>6, FlushHeaderStep, Zenon DEF FlushHeader
<1>7. ASSUME NEW n \in Nodes, Allocate(n) PROVE open' = TRUE /\ OpenInv(S, K)'
  BY <1>1, <1>7, AllocateStep, Zenon DEF Allocate
<1>8. ASSUME NEW n \in Nodes, WriteNode(n) PROVE open' = TRUE /\ OpenInv(S, K)'
  BY <1>1, <1>8, WriteNodeStep, Zenon DEF WriteNode
<1>9. ASSUME NEW n \in Nodes, DeleteNode(n) PROVE open' = TRUE /\ OpenInv(S, K)'
  BY <1>1, <1>9, DeleteNodeStep DEF DeleteNode
<1>10. ASSUME StartReap PROVE open' = TRUE /\ OpenInv(S, K)'
  BY <1>1, <1>10, StartReapStep DEF StartReap
<1>11. ASSUME EndReap PROVE open' = TRUE /\ OpenInv(S, K)'
  BY <1>1, <1>11, EndReapStep DEF EndReap
<1>12. ASSUME Propose \/ DropProposal PROVE open' = TRUE /\ OpenInv(S, K)'
  BY <1>1, <1>12, ProposalStep, ZenonT(30) DEF Propose, DropProposal
<1>13. ASSUME NEW by \in held \cup {TheProposal}, NEW n \in Nodes, ReadNode(by, n) PROVE open' = TRUE /\ OpenInv(S, K)'
  BY <1>1, <1>13, ReadStep DEF ReadNode
<1>14. ASSUME CacheNode \/ \E a \in Areas : Evict(a) PROVE open' = TRUE /\ OpenInv(S, K)'
  BY <1>1, <1>14, CacheStep, Zenon DEF CacheNode, Evict
<1>15. ASSUME CrashAndReopen PROVE open' = TRUE /\ OpenInv(S, K)'
  BY <1>1, <1>15, CrashAndReopenStep, Zenon DEF CrashAndReopen
<1>16. ASSUME CrashAndFail PROVE open' = FALSE /\ ClosedInv' /\ crashes' \in Nat
  <2>1. crashes \in Nat
    BY <1>1, Zenon DEF Sound, TypeInv
  <2>2. /\ crashes' = crashes + 1 /\ open' = FALSE /\ held' = {} /\ ~diskHeader.written
        /\ diskHeader' = diskHeader /\ task'.at = "closed"
    BY <1>16 DEF CrashAndFail, Idle
  <2>. QED
    BY <2>1, <2>2 DEF ClosedInv
<1>17. ASSUME AtRest PROVE open' = TRUE /\ OpenInv(S, K)'
  <2>1. UNCHANGED vars
    BY <1>17, Zenon DEF AtRest
  <2>. QED
    BY <2>1, StutterStep, Zenon DEF vars
<1>. QED
  BY <1>2, <1>3, <1>4, <1>5, <1>6, <1>7, <1>8, <1>9, <1>10, <1>11, <1>12, <1>13, <1>14, <1>15, <1>16, <1>17, ZenonT(30) DEF Next

\* A database that could not be opened stays as it is.
LEMMA ClosedStep ==
  ASSUME ClosedInv, open = FALSE, Next
  PROVE  open' = FALSE /\ ClosedInv' /\ crashes' = crashes
<1>1. task.at = "closed" /\ held = {}
  BY SMTT(20) DEF ClosedInv
<1>2. ~Propose /\ ~CrashAndReopen /\ ~CrashAndFail /\ \A x : ~Commit(x) /\ ~Hold(x)
  BY Zenon DEF Propose, CrashAndReopen, CrashAndFail, Commit, Hold
<1>3. ~StartPersist /\ ~FlushFreelist /\ ~FlushHeader /\ ~StartReap /\ ~EndReap
  BY <1>1, Zenon DEF StartPersist, FlushFreelist, FlushHeader, StartReap, EndReap
<1>4. \A n : ~Allocate(n) /\ ~WriteNode(n) /\ ~DeleteNode(n)
  BY <1>1, Zenon DEF Allocate, WriteNode, DeleteNode
<1>5. \A r : ~Release(r)
  BY <1>1, Zenon DEF Release
<1>6. DropProposal \/ CacheNode \/ AtRest \/ (\E a : Evict(a)) \/ (\E by, n : ReadNode(by, n))
  BY <1>2, <1>3, <1>4, <1>5, Zenon DEF Next
<1>7. UNCHANGED <<open, diskHeader, crashes, task, held>>
  BY <1>6, Zenon DEF DropProposal, CacheNode, AtRest, Evict, ReadNode, vars, memory
<1>. QED
  BY <1>7, SMTT(20) DEF ClosedInv

\* The invariant is inductive.
LEMMA StorageStep == StorageInv /\ [Next]_vars => StorageInv'
<1>1. SUFFICES ASSUME StorageInv, [Next]_vars PROVE StorageInv'
  OBVIOUS
<1>2. scenario \in Scenarios /\ scenario' = scenario /\ open \in BOOLEAN
  BY <1>1 DEF StorageInv, Next, vars
<1>3. PICK S, K : S = Slots /\ K = MaxCommits
  OBVIOUS
<1>4. S = Slots' /\ K = MaxCommits' /\ Setting(S, K)
  <2>1. S = Slots' /\ K = MaxCommits'
    BY <1>2, <1>3 DEF Slots, Leaves, MaxCommits
  <2>. QED
    BY <2>1, <1>2, <1>3, Scene
<1>5. CASE Next /\ open = TRUE
  <2>1. OpenInv(S, K)
    BY <1>1, <1>3, <1>5 DEF StorageInv
  <2>2. (open' = TRUE /\ OpenInv(S, K)') \/ (open' = FALSE /\ ClosedInv' /\ crashes' \in Nat)
    BY <2>1, <1>4, <1>5, OpenStep, ZenonT(30)
  <2>. QED
    BY <2>2, <1>2, <1>4, ZenonT(30) DEF StorageInv
<1>6. CASE Next /\ open = FALSE
  <2>1. ClosedInv /\ crashes \in Nat
    BY <1>1, <1>6 DEF StorageInv
  <2>2. open' = FALSE /\ ClosedInv' /\ crashes' = crashes
    BY <2>1, <1>6, ClosedStep, Zenon
  <2>. QED
    BY <2>1, <2>2, <1>2, ZenonT(30) DEF StorageInv
<1>7. CASE UNCHANGED vars
  <2>1. open' = open /\ crashes' = crashes /\ task' = task /\ held' = held /\ diskHeader' = diskHeader
    BY <1>7 DEF vars, memory
  <2>2. open => OpenInv(S, K)'
    BY <1>1, <1>3, <1>7, StutterStep, SMTT(20) DEF StorageInv
  <2>3. ~open => ClosedInv' /\ crashes' \in Nat
    BY <1>1, <2>1 DEF StorageInv, ClosedInv
  <2>. QED
    BY <1>2, <1>4, <2>1, <2>2, <2>3 DEF StorageInv
<1>. QED
  BY <1>1, <1>2, <1>5, <1>6, <1>7, ZenonT(30)

\* The invariant holds in every state, for every scenario and every number of areas.
THEOREM StorageInvHolds == Spec => []StorageInv
BY InitHolds, StorageStep, PTL DEF Spec

-----------------------------------------------------------------------------
(* The properties                                                          *)

\* What a crash leaves at any moment is a database: the trie that the header on
\* disk names is on disk in full, and its free list ends and is disjoint from it.
THEOREM CrashImageHolds == Spec => []CrashImageSound
<1>1. StorageInv => CrashImageSound
  BY CountingHolds, NumberingHolds, CrashImageFollows, ZenonT(30)
<1>. QED
  BY <1>1, StorageInvHolds, PTL

\* Every node of every retained revision can be read, from its area or from the
\* cache, whatever areas were freed and reused meanwhile.
THEOREM RetainedReadableHolds == Spec => []RetainedReadable
<1>1. StorageInv => RetainedReadable
  BY CountingHolds, NumberingHolds, RetainedReadableFollows, ZenonT(30)
<1>. QED
  BY <1>1, StorageInvHolds, PTL

\* The allocator never offers an area in use, no two live nodes share one, and the
\* free-list cache agrees with the disk.
THEOREM AllocatorHolds == Spec => []AllocatorSound
<1>1. StorageInv => AllocatorSound
  BY CountingHolds, NumberingHolds, AllocatorFollows, Zenon
<1>. QED
  BY <1>1, StorageInvHolds, PTL

\* Until a crash no area is lost: each is free, or some node that is retained or
\* still to be freed has it.
THEOREM NoLeakHolds == Spec => []NoLeak
<1>1. StorageInv => NoLeak
  BY CountingHolds, NumberingHolds, NoLeakFollows, Zenon
<1>. QED
  BY <1>1, StorageInvHolds, PTL

=============================================================================
