-------------------------- MODULE NodeStorageAreas --------------------------
(***************************************************************************)
(* The steps that take areas and give them back keep the invariant of      *)
(* NodeStorage: allocation, the writes of nodes, and the reaper.           *)
(***************************************************************************)
EXTENDS NodeStorageLists

-----------------------------------------------------------------------------
(* The persist worker: areas and nodes                                     *)

\* The nodes of the revision being written are owned, and were committed.
LEMMA TaskNodes ==
  ASSUME NEW S, NEW K, K \in Nat, NEW O, O = Owned(S, K), HistoryInv(S, K), Writing
  PROVE  \A n \in Node(S, K) : In(n, task.trie) => n \in O /\ ~(n[2] > commits)
<1>1. PICK i \in 1..Len(revisions) : revisions[i].trie = task.trie
  BY Zenon DEF HistoryInv, Writing, Kept
<1>2. SUFFICES ASSUME NEW n \in Node(S, K), In(n, task.trie) PROVE n \in O /\ ~(n[2] > commits)
  BY Zenon
<1>3. n \in O
  BY <1>1, <1>2, Zenon DEF Owned, OwnedBy
<1>4. /\ History(revisions, commits, S, K) /\ n[1] \in S /\ n[2] \in 1..K
  BY NodeParts, Zenon DEF HistoryInv
<1>5. revisions[i] \in Revision(S, K) /\ revisions[i].trie[n[1]] <= revisions[i].no /\ revisions[i].no <= commits
  BY <1>1, <1>4 DEF History
<1>6. revisions[i].no \in Int /\ commits \in Int /\ n[2] = revisions[i].trie[n[1]]
  BY <1>1, <1>2, <1>4, <1>5 DEF Revision, History, In
<1>. QED
  BY <1>3, <1>4, <1>5, <1>6

\* The area that Allocate takes is nobody's, and the free list goes on without it.
LEMMA AllocateArea ==
  ASSUME NEW S, NEW K, NEW O, NEW f, NEW m, NEW h, NEW d, Sound(O, f, m, h, d, S, K), NEW n, Allocate(n)
  PROVE  \E a \in Areas, k \in 0..m :
           /\ header' \in Header(S, K) /\ header'.root = header.root /\ header'.trie = header.trie
           /\ header'.written = header.written /\ header.size <= header'.size /\ a <= header'.size
           /\ header.free = Nil => header'.free = Nil
           /\ \A b \in 1..header'.size : b = a \/ b \in 1..header.size
           /\ links' = [links EXCEPT ![a] = Missing] /\ loc' = [loc EXCEPT ![n] = [st |-> "allocated", at |-> a]]
           /\ header'.free = Top(f, k) /\ k <= h
           /\ \A i \in 1..h : i \in 1..k \/ f[i] = a
           /\ \A i \in 1..k : f[i] # a
           /\ \A x \in O : loc[x].at # a
<1>1. /\ TypeInv(S, K) /\ PlaceInv(O, S, K) /\ Stack(f, m, h, d, O) /\ HeaderInv(S) /\ O = Owned(S, K)
  BY Zenon DEF Sound
<1>2. /\ header \in Header(S, K) /\ header.size \in 0..MaxAreas /\ header.free \in 0..MaxAreas
      /\ diskHeader.size \in Int /\ diskHeader.size <= header.size /\ MaxAreas \in Nat
  BY <1>1, ScenarioAssumption DEF TypeInv, Header, HeaderInv
<1>3. ASSUME NEW x \in O
      PROVE  /\ loc[x].at \in 0..MaxAreas /\ loc[x].at <= header.size
             /\ loc[x].at # Nil => loc[x].st = "allocated" \/ loc[x].st = "persisted"
  <2>1. x \in Node(S, K) /\ loc[x] \in Location
    BY <1>1, Zenon DEF Owned, TypeInv
  <2>. QED
    BY <2>1, <1>1, Zenon DEF TypeInv, Location, PlaceInv
<1>4. m \in Nat /\ h \in 0..m /\ \A i \in 1..h : i \in 1..m
  BY <1>1 DEF Stack
<1>5. CASE header.free # Nil
  <2>1. h > 0 /\ header.free = f[h] /\ h \in 1..m /\ h \in 1..h
    BY <1>1, <1>4, <1>5 DEF Stack, Top
  <2>2. /\ header' = [header EXCEPT !.free = next_free_block(header.free)] /\ header.free \in Areas
        /\ links' = [links EXCEPT ![header.free] = Missing]
        /\ loc' = [loc EXCEPT ![n] = [st |-> "allocated", at |-> header.free]]
    BY <1>5, Zenon DEF Allocate
  <2>3. disk[f[h]] = FreeCell(Below(f, h)) /\ links[f[h]] \in {Missing, Below(f, h)} /\ f[h] <= diskHeader.size
    BY <2>1, <1>1, <1>4, Zenon DEF Stack
  <2>4. next_free_block(header.free) = Below(f, h)
    BY <2>1, <2>3 DEF next_free_block, FreeCell
  <2>5. Below(f, h) = Top(f, h - 1) /\ h - 1 \in 0..m /\ h - 1 <= h
    BY <2>1, <1>4 DEF Below, Top
  <2>6. Below(f, h) \in 0..MaxAreas
    <3>1. CASE h > 1
      <4>1. h - 1 \in 1..m
        BY <3>1, <2>1, <1>4
      <4>2. f[h - 1] \in Areas
        BY <4>1, <1>1, Zenon DEF Stack
      <4>. QED
        BY <4>2, <3>1, <1>2 DEF Below, Areas
    <3>2. CASE ~(h > 1)
      BY <3>2, <1>2 DEF Below, Nil
    <3>. QED
      BY <3>1, <3>2, Zenon
  <2>7. /\ header' \in Header(S, K) /\ header'.root = header.root /\ header'.trie = header.trie
        /\ header'.written = header.written /\ header'.size = header.size /\ header'.free = Top(f, h - 1)
    BY <2>2, <2>4, <2>5, <2>6, <1>2, Zenon DEF Header
  <2>8. \A i \in 1..h : i \in 1..(h - 1) \/ f[i] = header.free
    BY <2>1, <1>4
  <2>9. \A i \in 1..(h - 1) : f[i] # header.free
    <3>1. \A i \in 1..(h - 1) : i \in 1..m /\ i # h
      BY <2>1, <1>4
    <3>2. \A i, j \in 1..m : f[i] = f[j] => i = j
      BY <1>1, Zenon DEF Stack
    <3>. QED
      BY <3>1, <3>2, <2>1, Zenon
  <2>10. \A x \in O : loc[x].at # header.free
    <3>1. SUFFICES ASSUME NEW x \in O, loc[x].at = header.free PROVE FALSE
      BY Zenon
    <3>2. loc[x].st = "allocated" \/ loc[x].st = "persisted"
      BY <3>1, <1>3, <1>5, Zenon
    <3>3. loc[x].st # "allocated"
      <4>1. loc[x].st = "allocated" => \A i \in 1..h : loc[x].at # f[i]
        BY <1>1, Zenon DEF Stack
      <4>. QED
        BY <4>1, <3>1, <2>1, Zenon
    <3>4. disk[f[h]] = NodeCell(x)
      BY <3>1, <3>2, <3>3, <2>1, <1>1, Zenon DEF PlaceInv
    <3>. QED
      BY <3>4, <2>3 DEF NodeCell, FreeCell
  <2>11. header.size <= header'.size /\ header.free <= header'.size
    BY <2>1, <2>3, <2>7, <1>2
  <2>12. \A b \in 1..header'.size : b = header.free \/ b \in 1..header.size
    BY <2>7, Zenon
  <2>. QED
    BY <2>2, <2>5, <2>7, <2>8, <2>9, <2>10, <2>11, <2>12, <1>5, Zenon
<1>6. CASE header.free = Nil
  <2>1. /\ header' = [header EXCEPT !.size = header.size + 1] /\ header.size + 1 \in Areas
        /\ links' = [links EXCEPT ![header.size + 1] = Missing]
        /\ loc' = [loc EXCEPT ![n] = [st |-> "allocated", at |-> header.size + 1]]
    BY <1>6, <1>2, Zenon DEF Allocate
  <2>2. header.size + 1 \in 0..MaxAreas
    BY <2>1, <1>2 DEF Areas
  <2>3. /\ header' \in Header(S, K) /\ header'.root = header.root /\ header'.trie = header.trie
        /\ header'.written = header.written /\ header'.size = header.size + 1 /\ header'.free = header.free
    BY <2>1, <2>2, <1>2, Zenon DEF Header
  <2>4. header.size <= header'.size /\ header.size + 1 <= header'.size
        /\ \A b \in 1..header'.size : b = header.size + 1 \/ b \in 1..header.size
    BY <2>3, <1>2
  <2>5. \A x \in O : loc[x].at # header.size + 1
    BY <1>2, <1>3
  <2>6. \A i \in 1..h : f[i] # header.size + 1
    <3>1. ASSUME NEW i \in 1..h PROVE f[i] \in Int /\ f[i] <= diskHeader.size
      BY <1>1, <1>4 DEF Stack, Areas
    <3>. QED
      BY <3>1, <1>2
  <2>7. header'.free = Top(f, h) /\ h <= h
    BY <2>3, <1>1, <1>4 DEF Stack
  <2>. QED
    BY <2>1, <2>3, <2>4, <2>5, <2>6, <2>7, <1>4, Zenon
<1>. QED
  BY <1>5, <1>6, Zenon

\* A node gets an area.
LEMMA AllocateStep ==
  ASSUME NEW S, NEW K, NEW O, NEW f, NEW m, NEW h, NEW d, Setting(S, K), Sound(O, f, m, h, d, S, K),
         NEW n \in Nodes, Allocate(n)
  PROVE  OpenInv(S, K)'
<1>1. UNCHANGED <<revisions, commits, pendingReaps, held, disk, diskHeader, crashes,
                  cache, proposal, reading, outlived>>
  BY Zenon DEF Allocate, memory, views
<1>2. /\ TypeInv(S, K) /\ HistoryInv(S, K) /\ TaskInv(S, K) /\ HeaderInv(S) /\ PlaceInv(O, S, K)
      /\ Stack(f, m, h, d, O) /\ CacheInv(O) /\ O = Owned(S, K)
      /\ K \in Nat /\ n \in Node(S, K)
  BY Zenon DEF Sound, Setting, Nodes, Node
<1>3. /\ task.at = "allocate" /\ n \in task.todo
      /\ task' = [task EXCEPT !.todo = task.todo \ {n}, !.batch = task.batch \cup {n}]
  BY Zenon DEF Allocate
<1>4. Writing /\ In(n, task.trie) /\ loc[n].st = "unpersisted" /\ loc[n].at = Nil
  BY <1>2, <1>3, Zenon DEF TaskInv, Writing, TypeInv
<1>5. n \in O /\ ~(n[2] > commits)
  BY <1>2, <1>4, TaskNodes, Zenon
<1>6. PICK a \in Areas, k \in 0..m :
           /\ header' \in Header(S, K) /\ header'.root = header.root /\ header'.trie = header.trie
           /\ header'.written = header.written /\ header.size <= header'.size /\ a <= header'.size
           /\ header.free = Nil => header'.free = Nil
           /\ \A b \in 1..header'.size : b = a \/ b \in 1..header.size
           /\ links' = [links EXCEPT ![a] = Missing] /\ loc' = [loc EXCEPT ![n] = [st |-> "allocated", at |-> a]]
           /\ header'.free = Top(f, k) /\ k <= h
           /\ \A i \in 1..h : i \in 1..k \/ f[i] = a
           /\ \A i \in 1..k : f[i] # a
           /\ \A x \in O : loc[x].at # a
  BY AllocateArea
<1>7. /\ task'.at = "allocate" /\ task'.trie = task.trie /\ task'.no = task.no /\ task'.todo = task.todo \ {n}
      /\ task'.batch = task.batch \cup {n} /\ task'.unwritten = task.unwritten /\ task' \in Task(S, K)
  BY <1>2, <1>3, Zenon DEF TypeInv, Task
<1>8. ReapTodo' = ReapTodo /\ Writing'
  BY <1>3, <1>7, Zenon DEF ReapTodo, Writing
<1>9. O = Owned(S, K)'
  BY <1>1, <1>2, <1>8, Zenon DEF Owned
<1>10. a \in Int /\ a # Nil /\ a \in 0..MaxAreas
  BY ScenarioAssumption DEF Areas, Nil
<1>11. /\ loc'[n] = [st |-> "allocated", at |-> a] /\ loc' \in [Node(S, K) -> Location]
       /\ \A x \in Node(S, K) : x # n => loc'[x] = loc[x]
  BY <1>2, <1>6, <1>10, Zenon DEF TypeInv, Location
<1>12. loc'[n].st = "allocated" /\ loc'[n].at = a
  BY <1>11
<1>13. TypeInv(S, K)'
  <2>1. links' \in [Areas -> (0..MaxAreas) \cup {Missing}]
    BY <1>2, <1>6, Zenon DEF TypeInv
  <2>2. \A x \in Node(S, K) : loc'[x].st = "unpersisted" <=> loc'[x].at = Nil
    BY <1>2, <1>10, <1>11, <1>12, Zenon DEF TypeInv
  <2>. QED
    BY <1>1, <1>2, <1>6, <1>7, <1>11, <2>1, <2>2, Zenon DEF TypeInv
<1>14. HistoryInv(S, K)'
  BY <1>1, <1>2, <1>3, <1>6, <1>7, <1>8, Zenon DEF HistoryInv
<1>15. TaskInv(S, K)'
  <2>1. task'.todo = {x \in Node(S, K) : In(x, task.trie) /\ loc'[x].st = "unpersisted"}
    BY <1>2, <1>4, <1>7, <1>11, <1>12, Zenon DEF TaskInv
  <2>2. task'.batch = {x \in Node(S, K) : In(x, task.trie) /\ loc'[x].st = "allocated"}
    BY <1>2, <1>4, <1>7, <1>11, <1>12, Zenon DEF TaskInv
  <2>3. task'.unwritten = {}
    BY <1>2, <1>3, <1>7, Zenon DEF TaskInv
  <2>. QED
    BY <1>7, <1>8, <2>1, <2>2, <2>3, Zenon DEF TaskInv
<1>16. header.size \in Int /\ header'.size \in Int /\ diskHeader.size \in Int
  BY <1>2, <1>6 DEF TypeInv, Header
<1>17. HeaderInv(S)'
  <2>1. diskHeader.size <= header'.size
    BY <1>2, <1>6, <1>16, SMTT(20) DEF HeaderInv
  <2>. QED
    BY <1>1, <1>2, <1>6, <2>1, Zenon DEF HeaderInv
<1>18. ASSUME NEW x \in O
       PROVE  x \in Node(S, K) /\ loc[x].at \in Int /\ loc[x].at <= header.size /\ loc[x].at # a
  <2>1. x \in Node(S, K) /\ loc[x] \in Location /\ loc[x].at <= header.size
    BY <1>2, Zenon DEF Owned, TypeInv, PlaceInv
  <2>. QED
    BY <2>1, <1>6 DEF Location
<1>19. PlaceInv(O, S, K)'
  <2>1. \A x \in Node(S, K) : x[2] > commits => loc'[x].st = "unpersisted"
    BY <1>2, <1>5, <1>11, Zenon DEF PlaceInv
  <2>2. \A x \in O : loc'[x].at <= header'.size
    BY <1>6, <1>11, <1>12, <1>16, <1>18
  <2>3. \A x \in O : loc'[x].st = "persisted" => disk[loc'[x].at] = NodeCell(x)
    BY <1>2, <1>11, <1>12, <1>18, Zenon DEF PlaceInv
  <2>4. \A x \in O : loc'[x].st = "allocated" => x \in task'.batch
    BY <1>2, <1>7, <1>11, <1>18, Zenon DEF PlaceInv
  <2>5. \A x \in O : loc'[x].at > diskHeader.size => In(x, task'.trie)
    BY <1>2, <1>4, <1>7, <1>11, <1>18, Zenon DEF PlaceInv
  <2>6. \A x, y \in O : loc'[x].at = loc'[y].at /\ loc'[x].at # Nil => x = y
    BY <1>2, <1>11, <1>12, <1>18 DEF PlaceInv
  <2>7. \A x \in Node(S, K) : In(x, header'.trie) => loc'[x].st = "persisted" /\ loc'[x].at <= diskHeader.size
    BY <1>2, <1>4, <1>6, <1>11, Zenon DEF PlaceInv
  <2>. QED
    BY <1>1, <1>8, <2>1, <2>2, <2>3, <2>4, <2>5, <2>6, <2>7, Zenon DEF PlaceInv
<1>20. Stack(f, m, k, d, O)'
  <2>1. m \in Nat /\ h \in 0..m /\ k \in 0..h /\ \A i \in 1..k : i \in 1..h
    BY <1>2, <1>6 DEF Stack
  <2>2. \A x \in O : loc'[x].st = "allocated" => \A i \in 1..k : loc'[x].at # f[i]
    <3>1. \A i \in 1..k : loc'[n].at # f[i]
      BY <1>6, <1>12, Zenon
    <3>2. \A x \in O : loc[x].st = "allocated" => \A i \in 1..h : loc[x].at # f[i]
      BY <1>2, Zenon DEF Stack
    <3>. QED
      BY <3>1, <3>2, <2>1, <1>11, <1>18, Zenon
  <2>3. \A i \in 1..k : links'[f[i]] \in {Missing, Below(f, i)}
    <3>1. ASSUME NEW i \in 1..k PROVE links'[f[i]] = links[f[i]] /\ links[f[i]] \in {Missing, Below(f, i)}
      <4>1. i \in 1..m /\ i \in 1..h
        BY <2>1
      <4>2. f[i] \in Areas /\ f[i] # a /\ links[f[i]] \in {Missing, Below(f, i)}
        BY <4>1, <1>2, <1>6, Zenon DEF Stack
      <4>. QED
        BY <4>2, <1>2, <1>6, Zenon DEF TypeInv
    <3>. QED
      BY <3>1, Zenon
  <2>4. crashes = 0 => \A b \in 1..header'.size : (\E i \in 1..k : f[i] = b) \/ (\E x \in O : loc'[x].at = b)
    <3>1. SUFFICES ASSUME crashes = 0, NEW b \in 1..header'.size, b # a
                   PROVE  (\E i \in 1..k : f[i] = b) \/ (\E x \in O : loc'[x].at = b)
      BY <1>5, <1>12, Zenon
    <3>2. (\E i \in 1..h : f[i] = b) \/ (\E x \in O : loc[x].at = b)
      BY <3>1, <1>2, <1>6, Zenon DEF Stack
    <3>3. b # Nil
      BY SMTT(20) DEF Nil
    <3>. QED
      BY <3>1, <3>2, <3>3, <1>4, <1>6, <1>11, <1>18, Zenon
  <2>. QED
    BY <1>1, <1>2, <1>6, <1>7, <2>1, <2>2, <2>3, <2>4, Zenon DEF Stack
<1>21. CacheInv(O)'
  <2>1. \A x \in O : loc[x].st = "persisted" => loc'[x] = loc[x]
    BY <1>4, <1>11, <1>18, Zenon
  <2>. QED
    BY <1>1, <1>2, <1>8, <2>1 DEF CacheInv
<1>. QED
  BY <1>9, <1>13, <1>14, <1>15, <1>17, <1>19, <1>20, <1>21, Zenon DEF OpenInv, Sound

\* A node of the batch is written into its area, which no list leads through; the
\* last one makes the batch persisted.
LEMMA WriteNodeStep ==
  ASSUME NEW S, NEW K, NEW O, NEW f, NEW m, NEW h, NEW d, Setting(S, K), Sound(O, f, m, h, d, S, K),
         NEW n \in Nodes, WriteNode(n)
  PROVE  OpenInv(S, K)'
<1>1. UNCHANGED <<revisions, commits, pendingReaps, held, header, diskHeader, crashes,
                  links, proposal, reading, outlived>>
  BY Zenon DEF WriteNode, memory, views
<1>2. /\ TypeInv(S, K) /\ HistoryInv(S, K) /\ TaskInv(S, K) /\ HeaderInv(S) /\ PlaceInv(O, S, K)
      /\ Stack(f, m, h, d, O) /\ CacheInv(O) /\ O = Owned(S, K)
      /\ K \in Nat /\ Nodes = Node(S, K) /\ n \in Node(S, K)
  BY Zenon DEF Sound, Setting, Nodes, Node
<1>3. task.at = "write" /\ n \in task.unwritten /\ disk' = [disk EXCEPT ![loc[n].at] = NodeCell(n)]
  BY Zenon DEF WriteNode, AreaOf
<1>4. /\ Writing /\ task.unwritten \subseteq task.batch
      /\ task.batch = {x \in Node(S, K) : In(x, task.trie) /\ loc[x].st = "allocated"}
      /\ task.todo = {x \in Node(S, K) : In(x, task.trie) /\ loc[x].st = "unpersisted"}
      /\ \A x \in task.batch \ task.unwritten : disk[loc[x].at] = NodeCell(x)
  BY <1>2, <1>3, Zenon DEF TaskInv, Writing
<1>5. task.batch \subseteq O /\ \A x \in O : x \in Node(S, K)
  BY <1>2, <1>4, TaskNodes, Zenon DEF Owned
<1>6. \A x \in task.batch : loc[x].at # Nil /\ loc[x].at \in Areas /\ x \in Node(S, K)
  <2>1. SUFFICES ASSUME NEW x \in task.batch PROVE loc[x].at # Nil /\ loc[x].at \in Areas
    BY <1>4, Zenon
  <2>2. loc[x] \in Location /\ loc[x].at # Nil
    BY <1>2, <1>4, Zenon DEF TypeInv
  <2>. QED
    BY <2>2, ScenarioAssumption DEF Location, Areas, Nil
<1>7. n \in task.batch /\ n \in O /\ loc[n].at \in Areas /\ loc[n].at # Nil /\ loc[n].st = "allocated"
  BY <1>3, <1>4, <1>5, <1>6, Zenon
<1>8. /\ disk'[loc[n].at] = NodeCell(n) /\ disk' \in [Areas -> Cell(S, K)]
      /\ \A a \in Areas : a # loc[n].at => disk'[a] = disk[a]
  <2>1. NodeCell(n) \in Cell(S, K)
    BY <1>2, ScenarioAssumption DEF NodeCell, Cell, Nil
  <2>. QED
    BY <1>2, <1>3, <1>7, <2>1, Zenon DEF TypeInv
<1>9. \A x \in O : loc[x].at # Nil /\ x # n => loc[x].at # loc[n].at /\ loc[x].at \in Areas
  <2>1. SUFFICES ASSUME NEW x \in O, loc[x].at # Nil, x # n PROVE loc[x].at # loc[n].at /\ loc[x].at \in Areas
    BY Zenon
  <2>2. loc[x] \in Location
    BY <1>2, <1>5, Zenon DEF TypeInv
  <2>3. loc[x].at \in Areas
    BY <2>1, <2>2, ScenarioAssumption DEF Location, Areas, Nil
  <2>. QED
    BY <2>1, <2>3, <1>2, <1>7, Zenon DEF PlaceInv
<1>10. \A x \in O : loc[x].st = "persisted" \/ x \in task.batch => loc[x].at # Nil
  BY <1>2, <1>5, <1>6, Zenon DEF TypeInv
<1>11. \A x \in task.batch \ (task.unwritten \ {n}) : disk'[loc[x].at] = NodeCell(x)
  <2>1. SUFFICES ASSUME NEW x \in task.batch, x \notin task.unwritten \ {n}, x # n PROVE disk'[loc[x].at] = NodeCell(x)
    BY <1>8, Zenon
  <2>. QED
    BY <2>1, <1>4, <1>5, <1>8, <1>9, <1>10, Zenon
<1>12. \A x \in O : loc[x].st = "persisted" => disk'[loc[x].at] = NodeCell(x)
  <2>1. SUFFICES ASSUME NEW x \in O, loc[x].st = "persisted" PROVE disk'[loc[x].at] = NodeCell(x)
    BY Zenon
  <2>2. x # n
    BY <2>1, <1>7, Zenon
  <2>. QED
    BY <2>1, <2>2, <1>2, <1>8, <1>9, <1>10, Zenon DEF PlaceInv
<1>13. m = h /\ \A i \in 1..m : f[i] \in Areas /\ disk'[f[i]] = disk[f[i]]
  <2>1. m = h /\ \A i \in 1..h : loc[n].at # f[i]
    BY <1>2, <1>3, <1>7, Zenon DEF Stack
  <2>2. \A i \in 1..m : f[i] \in Areas
    BY <1>2, Zenon DEF Stack
  <2>. QED
    BY <2>1, <2>2, <1>8, Zenon
<1>14. CASE task.unwritten # {n}
  <2>1. task' = [task EXCEPT !.unwritten = task.unwritten \ {n}] /\ loc' = loc /\ cache' = cache
    BY <1>14, Zenon DEF WriteNode
  <2>2. /\ task'.at = "write" /\ task'.trie = task.trie /\ task'.no = task.no /\ task'.todo = task.todo
        /\ task'.batch = task.batch /\ task'.unwritten = task.unwritten \ {n} /\ task' \in Task(S, K)
    BY <2>1, <1>2, <1>3, Zenon DEF TypeInv, Task
  <2>3. ReapTodo' = ReapTodo /\ Writing'
    BY <1>3, <2>2, Zenon DEF ReapTodo, Writing
  <2>4. O = Owned(S, K)'
    BY <1>1, <1>2, <2>3, Zenon DEF Owned
  <2>5. TypeInv(S, K)'
    BY <1>1, <1>2, <1>8, <2>1, <2>2, Zenon DEF TypeInv
  <2>6. HistoryInv(S, K)' /\ HeaderInv(S)'
    BY <1>1, <1>2, <1>3, <2>2, <2>3, Zenon DEF HistoryInv, HeaderInv
  <2>7. TaskInv(S, K)'
    BY <1>3, <1>4, <1>11, <1>14, <2>1, <2>2, <2>3, SMTT(20) DEF TaskInv
  <2>8. PlaceInv(O, S, K)'
    BY <1>1, <1>2, <1>12, <2>1, <2>2, <2>3, Zenon DEF PlaceInv
  <2>9. Stack(f, m, h, d, O)'
    BY <1>1, <1>2, <1>3, <1>13, <2>1, <2>2 DEF Stack
  <2>10. CacheInv(O)'
    BY <1>1, <1>2, <2>1, <2>3, Zenon DEF CacheInv
  <2>. QED
    BY <2>4, <2>5, <2>6, <2>7, <2>8, <2>9, <2>10, Zenon DEF OpenInv, Sound
<1>15. CASE task.unwritten = {n}
  <2>1. /\ task' = [task EXCEPT !.at = "allocate", !.batch = {}, !.unwritten = {}]
        /\ loc' = [x \in Nodes |-> IF x \in task.batch THEN [loc[x] EXCEPT !.st = "persisted"] ELSE loc[x]]
        /\ cache' = write_cached_nodes(task.batch)
    BY <1>15, Zenon DEF WriteNode
  <2>2. /\ task'.at = "allocate" /\ task'.trie = task.trie /\ task'.no = task.no /\ task'.todo = task.todo
        /\ task'.batch = {} /\ task'.unwritten = {} /\ task' \in Task(S, K)
    BY <2>1, <1>2, <1>3, Zenon DEF TypeInv, Task
  <2>3. ReapTodo' = ReapTodo /\ ReapTodo = {} /\ Writing'
    BY <1>3, <2>2, Zenon DEF ReapTodo, Writing
  <2>4. O = Owned(S, K)'
    BY <1>1, <1>2, <2>3, Zenon DEF Owned
  <2>5. ASSUME NEW x \in Node(S, K)
        PROVE  /\ loc'[x] \in Location /\ loc'[x].at = loc[x].at
               /\ loc'[x].st = IF x \in task.batch THEN "persisted" ELSE loc[x].st
    <3>1. loc[x] \in Location /\ loc'[x] = IF x \in task.batch THEN [loc[x] EXCEPT !.st = "persisted"] ELSE loc[x]
      BY <1>2, <2>1, Zenon DEF TypeInv
    <3>. QED
      BY <3>1, Zenon DEF Location
  <2>6. loc' \in [Node(S, K) -> Location]
    BY <1>2, <2>1, <2>5, Zenon
  <2>7. ASSUME NEW a \in Areas
        PROVE  cache'[a] = cache[a] \/ (cache'[a] \in task.batch /\ loc[cache'[a]].at = a)
    <3>1. cache'[a] = IF Strategy # "off" /\ \E x \in task.batch : loc[x].at = a
                      THEN CHOOSE x \in task.batch : loc[x].at = a ELSE cache[a]
      BY <2>1, <2>7, Zenon DEF write_cached_nodes, AreaOf
    <3>. QED
      BY <3>1, Zenon
  <2>8. cache' \in [Areas -> Node(S, K) \cup {NoNode}]
    <3>1. cache' = [a \in Areas |-> cache'[a]]
      BY <2>1, Zenon DEF write_cached_nodes
    <3>2. \A a \in Areas : cache'[a] \in Node(S, K) \cup {NoNode}
      BY <2>7, <1>2, <1>6, Zenon DEF TypeInv
    <3>. QED
      BY <3>1, <3>2, Zenon
  <2>9. TypeInv(S, K)'
    <3>1. \A x \in Node(S, K) : loc'[x].st = "unpersisted" <=> loc'[x].at = Nil
      BY <1>2, <1>6, <2>5, Zenon DEF TypeInv
    <3>. QED
      BY <1>1, <1>2, <1>8, <2>2, <2>6, <2>8, <3>1, Zenon DEF TypeInv
  <2>10. HistoryInv(S, K)' /\ HeaderInv(S)'
    BY <1>1, <1>2, <1>3, <2>2, <2>3, Zenon DEF HistoryInv, HeaderInv
  <2>11. TaskInv(S, K)'
    <3>1. \A x \in Node(S, K) : loc'[x].st = "unpersisted" <=> loc[x].st = "unpersisted"
      BY <1>4, <2>5, Zenon
    <3>2. \A x \in Node(S, K) : In(x, task.trie) => loc'[x].st # "allocated"
      BY <1>4, <2>5, Zenon
    <3>3. task'.todo = {x \in Node(S, K) : In(x, task.trie) /\ loc'[x].st = "unpersisted"}
      BY <1>4, <2>2, <3>1, ZenonT(30)
    <3>4. task'.batch = {x \in Node(S, K) : In(x, task.trie) /\ loc'[x].st = "allocated"}
      BY <2>2, <3>2, Zenon
    <3>. QED
      BY <2>2, <2>3, <3>3, <3>4, Zenon DEF TaskInv
  <2>12. \A x \in O : loc'[x].st # "allocated"
    BY <1>2, <1>5, <2>5, SMTT(20) DEF PlaceInv
  <2>13. PlaceInv(O, S, K)'
    <3>1. \A x \in Node(S, K) : x[2] > commits => loc'[x].st = "unpersisted"
      BY <1>2, <1>4, <2>5 DEF PlaceInv
    <3>2. \A x \in O : loc'[x].at = loc[x].at
      BY <1>5, <2>5, Zenon
    <3>3. \A x \in O : loc'[x].st = "persisted" => disk'[loc'[x].at] = NodeCell(x)
      BY <1>5, <1>11, <1>12, <1>15, <2>5, <3>2, Zenon
    <3>4. \A x \in Node(S, K) : In(x, header.trie) => loc'[x].st = "persisted" /\ loc'[x].at <= diskHeader.size
      BY <1>2, <2>5, SMTT(20) DEF PlaceInv
    <3>. QED
      BY <1>1, <1>2, <2>2, <2>3, <2>12, <3>1, <3>2, <3>3, <3>4, SMTT(20) DEF PlaceInv
  <2>14. Stack(f, m, h, d, O)'
    <3>1. \A x \in O : loc'[x].at = loc[x].at
      BY <1>5, <2>5, Zenon
    <3>. QED
      BY <1>1, <1>2, <1>13, <2>2, <2>12, <3>1 DEF Stack
  <2>15. CacheInv(O)'
    <3>1. SUFFICES ASSUME ~outlived PROVE CacheInv(O)'
      BY <1>1, Zenon DEF CacheInv
    <3>2. \A x \in O : loc[x].st = "persisted" => loc'[x].st = "persisted" /\ loc'[x].at = loc[x].at
      BY <1>5, <2>5, Zenon
    <3>3. \A x \in task.batch : x \in O /\ loc'[x].st = "persisted" /\ loc'[x].at = loc[x].at
      BY <1>5, <2>5, ZenonT(30)
    <3>4. ASSUME NEW a \in Areas, cache'[a] # NoNode
          PROVE  cache'[a] \in O \ ReapTodo /\ loc'[cache'[a]].st = "persisted" /\ loc'[cache'[a]].at = a
      BY <3>1, <3>2, <3>3, <3>4, <2>3, <2>7, <1>2 DEF CacheInv
    <3>5. proposal \subseteq O \ ReapTodo
      BY <3>1, <1>2, Zenon DEF CacheInv
    <3>6. reading # NoRead => reading.got \in O \ ReapTodo /\ loc'[reading.got].st = "persisted" /\ loc'[reading.got].at = reading.area
      BY <3>1, <3>2, <1>2, Zenon DEF CacheInv
    <3>. QED
      BY <1>1, <1>2, <2>3, <3>1, <3>4, <3>5, <3>6, Zenon DEF CacheInv
  <2>. QED
    BY <2>4, <2>9, <2>10, <2>11, <2>13, <2>14, <2>15, Zenon DEF OpenInv, Sound
<1>. QED
  BY <1>14, <1>15, Zenon

-----------------------------------------------------------------------------
(* The reaper                                                              *)

\* A node is no free area.
LEMMA CellKinds == \A x, n : FreeCell(x) # NodeCell(n)
BY Zenon DEF FreeCell, NodeCell

\* The reaper takes the oldest list.  The nodes on it are in no retained trie, and
\* their copies leave the cache; a read that is on its way is of another node.
LEMMA StartReapStep ==
  ASSUME NEW S, NEW K, NEW O, NEW f, NEW m, NEW h, NEW d, Setting(S, K), Sound(O, f, m, h, d, S, K),
         StartReap
  PROVE  OpenInv(S, K)'
<1>1. UNCHANGED <<revisions, commits, held, loc, disk, header, diskHeader, crashes, links, proposal, reading>>
  BY Zenon DEF StartReap
<1>2. /\ TypeInv(S, K) /\ HistoryInv(S, K) /\ TaskInv(S, K) /\ HeaderInv(S) /\ PlaceInv(O, S, K)
      /\ Stack(f, m, h, d, O) /\ CacheInv(O) /\ O = Owned(S, K) /\ K \in Nat /\ NoTrie = [s \in S |-> 0]
  BY Zenon DEF Sound, Setting, NoTrie
<1>3. PICK H : H = Head(pendingReaps)
  BY Zenon
<1>4. /\ task.at = "idle" /\ pendingReaps # <<>> /\ pendingReaps' = Tail(pendingReaps)
      /\ task' = [at |-> "reap", trie |-> NoTrie, no |-> 0, todo |-> H, batch |-> {}, unwritten |-> {}]
      /\ cache' = invalidate_cached_nodes(H) /\ outlived' = (outlived \/ H \cap proposal # {})
  BY <1>3, Zenon DEF StartReap, Idle
<1>5. /\ task'.at = "reap" /\ task'.trie = [s \in S |-> 0] /\ task'.no = 0 /\ task'.todo = H
      /\ task'.batch = {} /\ task'.unwritten = {}
  BY <1>2, <1>4, Zenon
<1>6. ReapTodo = {} /\ ReapTodo' = H /\ ~Writing /\ ~Writing'
  BY <1>4, <1>5, Zenon DEF ReapTodo, Writing
<1>7. /\ Waiting(pendingReaps', revisions, H, commits, S, K)
      /\ \A n : OwnedBy(n, pendingReaps', revisions, H) <=> OwnedBy(n, pendingReaps, revisions, {})
  <2>1. History(revisions, commits, S, K) /\ Waiting(pendingReaps, revisions, {}, commits, S, K)
    BY <1>2, <1>6, Zenon DEF HistoryInv
  <2>. QED
    BY <2>1, <1>2, <1>3, <1>4, WaitingReap, Zenon
<1>8. O = Owned(S, K)'
  BY <1>1, <1>2, <1>6, <1>7, Zenon DEF Owned
<1>9. H \subseteq Node(S, K) /\ \A n \in H, i \in 1..Len(revisions) : ~In(n, revisions[i].trie)
  BY <1>7, Zenon DEF Waiting
<1>10. /\ cache' \in [Areas -> Node(S, K) \cup {NoNode}]
       /\ \A a \in Areas : cache'[a] # NoNode => cache'[a] = cache[a] /\ \A n \in H : loc[n].at # a
  BY <1>2, <1>4, Zenon DEF TypeInv, invalidate_cached_nodes, AreaOf
<1>11. TypeInv(S, K)'
  <2>1. 0 \in 0..K /\ [s \in S |-> 0] \in [S -> 0..K]
    BY <1>2
  <2>2. task' \in Task(S, K)
    BY <1>2, <1>4, <1>9, <2>1, Zenon DEF Task
  <2>3. outlived' \in BOOLEAN
    BY <1>4, Zenon
  <2>. QED
    BY <1>1, <1>2, <1>10, <2>2, <2>3, Zenon DEF TypeInv
<1>12. HistoryInv(S, K)'
  BY <1>1, <1>2, <1>5, <1>6, <1>7, Zenon DEF HistoryInv
<1>13. TaskInv(S, K)'
  BY <1>1, <1>2, <1>5, <1>6, Zenon DEF TaskInv
<1>14. HeaderInv(S)' /\ PlaceInv(O, S, K)'
  <2>1. task.batch = {}
    BY <1>2, <1>6, ZenonT(30) DEF TaskInv
  <2>. QED
    BY <1>1, <1>2, <1>6, <2>1, Zenon DEF HeaderInv, PlaceInv
<1>15. Stack(f, m, h, d, O)'
  BY <1>1, <1>2, <1>4, <1>5, Zenon DEF Stack
<1>16. CacheInv(O)'
  <2>1. SUFFICES ASSUME ~outlived' PROVE CacheInv(O)'
    BY Zenon DEF CacheInv
  <2>2. ~outlived /\ H \cap proposal = {}
    BY <2>1, <1>4, Zenon
  <2>3. proposal \subseteq O \ H
    BY <2>2, <1>2, ZenonT(30) DEF CacheInv
  <2>4. ASSUME NEW a \in Areas, cache'[a] # NoNode
        PROVE  cache'[a] \in O \ H /\ loc[cache'[a]].st = "persisted" /\ loc[cache'[a]].at = a
    BY <2>2, <2>4, <1>2, <1>10, ZenonT(30) DEF CacheInv
  <2>5. ASSUME reading # NoRead PROVE reading.got \notin H
    BY <2>2, <2>5, <1>2, <1>9, Zenon DEF CacheInv
  <2>. QED
    BY <1>1, <1>2, <1>6, <2>2, <2>3, <2>4, <2>5, Zenon DEF CacheInv
<1>. QED
  BY <1>8, <1>11, <1>12, <1>13, <1>14, <1>15, <1>16, ZenonT(30) DEF OpenInv, Sound

\* A free area a on top of the stack f, at height k.
Push(f, k, a) == [i \in 1..k |-> IF i = k THEN a ELSE f[i]]

\* What it is compared with f up to h.
OnTop(g, k, a, f, m, h) ==
  /\ k \in Nat /\ g \in [1..k -> Areas] /\ g[k] = a /\ k \in 1..k /\ h <= k
  /\ \A i \in 1..h : i \in 1..m /\ i \in 1..k /\ i # k /\ g[i] = f[i] /\ Below(g, i) = Below(f, i)
  /\ \A i \in 1..k : i = k \/ i \in 1..h
  /\ Below(g, k) = Top(f, h) /\ Top(g, k) = a
  /\ \A i \in 0..h : Top(g, i) = Top(f, i)

\* The rest of the stack stays as it is.
LEMMA Pushed ==
  ASSUME NEW f, NEW m \in Nat, NEW h \in 0..m, NEW a \in Areas, f \in [1..m -> Areas],
         NEW k, k = h + 1, NEW g, g = Push(f, k, a)
  PROVE  OnTop(g, k, a, f, m, h)
<1>1. h \in Nat /\ \A i \in 1..h : i \in 1..m /\ i \in 1..k /\ i # k
  OBVIOUS
<1>2. k \in Nat /\ k \in 1..k /\ h <= k /\ \A i \in 1..k : i = k \/ i \in 1..h
  BY <1>1
<1>3. g \in [1..k -> Areas] /\ g[k] = a
  BY <1>1, <1>2, Zenon DEF Push
<1>4. \A i \in 1..h : g[i] = f[i]
  BY <1>1, Zenon DEF Push
<1>5. \A i \in 1..h : i > 1 => i - 1 \in 1..h
  BY <1>1
<1>6. \A i \in 1..h : Below(g, i) = Below(f, i)
  BY <1>4, <1>5, Zenon DEF Below
<1>7. \A i \in 0..h : Top(g, i) = Top(f, i)
  <2>1. \A i \in 0..h : i > 0 => i \in 1..h
    BY <1>1
  <2>. QED
    BY <1>4, <2>1, Zenon DEF Top
<1>8. Below(g, k) = Top(f, h) /\ Top(g, k) = a
  <2>1. k > 0 /\ (k > 1 <=> h > 0) /\ k - 1 = h /\ (h > 0 => h \in 1..h)
    BY <1>1
  <2>. QED
    BY <1>3, <1>4, <2>1, Zenon DEF Below, Top
<1>. QED
  BY <1>1, <1>2, <1>3, <1>4, <1>6, <1>7, <1>8, Zenon DEF OnTop

\* A reaped node gives its area to the free list.
LEMMA DeleteNodeStep ==
  ASSUME NEW S, NEW K, NEW O, NEW f, NEW m, NEW h, NEW d, Setting(S, K), Sound(O, f, m, h, d, S, K),
         NEW n \in Nodes, DeleteNode(n)
  PROVE  OpenInv(S, K)'
<1>1. UNCHANGED <<revisions, commits, pendingReaps, held, loc, diskHeader, crashes, cache, proposal, reading, outlived>>
  BY Zenon DEF DeleteNode, memory, views
<1>2. /\ TypeInv(S, K) /\ HistoryInv(S, K) /\ TaskInv(S, K) /\ HeaderInv(S) /\ PlaceInv(O, S, K)
      /\ Stack(f, m, h, d, O) /\ CacheInv(O) /\ O = Owned(S, K) /\ K \in Nat /\ n \in Node(S, K)
  BY Zenon DEF Sound, Setting, Nodes, Node
<1>3. task.at = "reap" /\ n \in task.todo /\ task' = [task EXCEPT !.todo = task.todo \ {n}]
  BY Zenon DEF DeleteNode
<1>4. /\ task'.at = "reap" /\ task'.trie = task.trie /\ task'.no = task.no /\ task'.todo = task.todo \ {n}
      /\ task'.batch = task.batch /\ task'.unwritten = task.unwritten /\ task' \in Task(S, K)
  BY <1>2, <1>3, Zenon DEF TypeInv, Task
<1>5. ReapTodo = task.todo /\ ReapTodo' = task.todo \ {n} /\ ~Writing /\ ~Writing'
  BY <1>3, <1>4, Zenon DEF ReapTodo, Writing
<1>6. /\ Waiting(pendingReaps, revisions, task.todo \ {n}, commits, S, K)
      /\ \A x : OwnedBy(x, pendingReaps, revisions, task.todo \ {n}) <=>
                  OwnedBy(x, pendingReaps, revisions, task.todo) /\ x # n
  <2>1. PICK D : D = task.todo
    BY Zenon
  <2>2. Waiting(pendingReaps, revisions, D, commits, S, K) /\ n \in D /\ K \in Nat
    BY <1>2, <1>3, <1>5, <2>1, Zenon DEF HistoryInv
  <2>3. PICK R : R = D \ {n}
    BY Zenon
  <2>4. /\ Waiting(pendingReaps, revisions, R, commits, S, K)
        /\ \A x : OwnedBy(x, pendingReaps, revisions, R) <=> OwnedBy(x, pendingReaps, revisions, D) /\ x # n
    BY <2>2, <2>3, WaitingDelete, SMTT(30)
  <2>. QED
    BY <2>1, <2>3, <2>4, Zenon
<1>7. PICK O2 : O2 = O \ {n}
  BY Zenon
<1>8. O2 = Owned(S, K)' /\ n \in O /\ O2 \ ReapTodo' = O \ ReapTodo /\ O2 \subseteq O
  <2>1. O2 = Owned(S, K)'
    BY <1>1, <1>2, <1>5, <1>6, <1>7, Zenon DEF Owned
  <2>2. n \in O
    BY <1>2, <1>3, <1>5, Zenon DEF Owned, OwnedBy
  <2>. QED
    BY <2>1, <2>2, <1>3, <1>5, <1>7, Zenon
<1>9. task.batch = {} /\ task.unwritten = {} /\ header.size = diskHeader.size /\ task.trie = [s \in S |-> 0]
  BY <1>2, <1>3, <1>5, Zenon DEF TaskInv
<1>10. CacheInv(O2)'
  BY <1>1, <1>2, <1>8, Zenon DEF CacheInv
<1>11. CASE loc[n].at = Nil
  <2>1. UNCHANGED <<disk, header, links>>
    BY <1>11, Zenon DEF DeleteNode, AreaOf
  <2>2. TypeInv(S, K)' /\ HeaderInv(S)'
    BY <1>1, <1>2, <1>4, <2>1, Zenon DEF TypeInv, HeaderInv
  <2>3. HistoryInv(S, K)'
    BY <1>1, <1>2, <1>4, <1>5, <1>6, <2>1, Zenon DEF HistoryInv
  <2>4. TaskInv(S, K)'
    BY <1>1, <1>4, <1>5, <1>9, <2>1, Zenon DEF TaskInv
  <2>5. PlaceInv(O2, S, K)'
    BY <1>1, <1>2, <1>4, <1>5, <1>8, <2>1, Zenon DEF PlaceInv
  <2>6. Stack(f, m, h, d, O2)'
    <3>1. crashes = 0 => \A a \in 1..header.size : (\E i \in 1..h : f[i] = a) \/ (\E x \in O2 : loc[x].at = a)
      <4>1. \A a \in 1..header.size : a # Nil
        BY DEF Nil
      <4>2. crashes = 0 => \A a \in 1..header.size : (\E i \in 1..h : f[i] = a) \/ (\E x \in O : loc[x].at = a)
        BY <1>2, Zenon DEF Stack
      <4>. QED
        BY <4>1, <4>2, <1>7, <1>11, Zenon
    <3>. QED
      BY <1>1, <1>2, <1>3, <1>4, <1>8, <2>1, <3>1 DEF Stack
  <2>. QED
    BY <1>8, <1>10, <2>2, <2>3, <2>4, <2>5, <2>6, Zenon DEF OpenInv, Sound
<1>12. CASE loc[n].at # Nil
  <2> DEFINE a == loc[n].at
  <2>1. /\ disk' = [disk EXCEPT ![a] = FreeCell(header.free)]
        /\ links' = add_to_free_list_cache(a, header.free) /\ header' = [header EXCEPT !.free = a]
    BY <1>12, Zenon DEF DeleteNode, AreaOf
  <2>2. loc[n] \in Location /\ loc[n].st # "unpersisted" /\ loc[n].st # "allocated"
    BY <1>2, <1>8, <1>9, <1>12, Zenon DEF TypeInv, PlaceInv
  <2>3. a \in 0..MaxAreas /\ a \in Areas /\ loc[n].st = "persisted"
    BY <2>2, <1>12, ScenarioAssumption DEF Location, Areas, Nil
  <2>4. disk[a] = NodeCell(n) /\ a <= diskHeader.size
    <3>1. ~(a > diskHeader.size) /\ diskHeader.size \in Int
      BY <1>2, <1>5, <1>8, SMTT(20) DEF PlaceInv, TypeInv, Header
    <3>2. disk[a] = NodeCell(n)
      BY <1>2, <1>8, <2>3, Zenon DEF PlaceInv
    <3>. QED
      BY <3>1, <3>2, <2>3, SMTT(20)
  <2> HIDE DEF a
  <2>5. /\ header' \in Header(S, K) /\ header'.root = header.root /\ header'.trie = header.trie
        /\ header'.size = header.size /\ header'.written = header.written /\ header'.free = a
    BY <1>2, <2>1, <2>3, Zenon DEF TypeInv, Header
  <2>6. FreeCell(header.free) \in Cell(S, K) /\ header.free \in 0..MaxAreas
    BY <1>2, Zenon DEF TypeInv, Header, FreeCell, Cell
  <2>7. /\ disk' \in [Areas -> Cell(S, K)] /\ disk'[a] = FreeCell(header.free)
        /\ \A b \in Areas : b # a => disk'[b] = disk[b]
    BY <1>2, <2>1, <2>3, <2>6, Zenon DEF TypeInv
  <2>8. /\ links' \in [Areas -> (0..MaxAreas) \cup {Missing}] /\ links'[a] \in {Missing, header.free}
        /\ \A b \in Areas : b # a => links'[b] = links[b]
    BY <1>2, <2>1, <2>3, <2>6, Zenon DEF TypeInv, add_to_free_list_cache
  <2>9. TypeInv(S, K)'
    BY <1>1, <1>2, <1>4, <2>5, <2>7, <2>8, Zenon DEF TypeInv
  <2>10. HistoryInv(S, K)'
    BY <1>1, <1>2, <1>4, <1>5, <1>6, <2>5, Zenon DEF HistoryInv
  <2>11. TaskInv(S, K)'
    BY <1>1, <1>4, <1>5, <1>9, <2>5, Zenon DEF TaskInv
  <2>12. HeaderInv(S)'
    <3>1. diskHeader.written
      <4>1. a > 0 /\ a \in Int /\ ~(a <= 0)
        BY <2>3, ScenarioAssumption DEF Areas
      <4>. QED
        BY <1>2, <2>4, <4>1, Zenon DEF HeaderInv
    <3>. QED
      BY <1>1, <1>2, <2>5, <3>1, Zenon DEF HeaderInv
  <2>13. ASSUME NEW x \in O2, loc[x].at # Nil PROVE loc[x].at # a /\ loc[x].at \in Areas /\ x \in Node(S, K)
    <3>1. x \in O /\ x # n
      BY <1>7, <1>8, Zenon
    <3>2. loc[x].at # a
      BY <3>1, <2>13, <1>2, <1>8, Zenon DEF PlaceInv, a
    <3>3. x \in Node(S, K) /\ loc[x] \in Location
      BY <3>1, <1>2, Zenon DEF Owned, TypeInv
    <3>. QED
      BY <3>2, <3>3, <2>13, ScenarioAssumption DEF Location, Areas, Nil
  <2>14. PlaceInv(O2, S, K)'
    <3>1. \A x \in O2 : loc[x].st = "persisted" => disk'[loc[x].at] = NodeCell(x)
      <4>1. SUFFICES ASSUME NEW x \in O2, loc[x].st = "persisted" PROVE disk'[loc[x].at] = NodeCell(x)
        BY Zenon
      <4>2. x \in O /\ x \in Node(S, K)
        BY <1>8, <1>2, Zenon DEF Owned
      <4>3. loc[x].at # Nil
        BY <4>1, <4>2, <1>2, Zenon DEF TypeInv
      <4>. QED
        BY <4>1, <4>2, <4>3, <2>7, <2>13, <1>2, Zenon DEF PlaceInv
    <3>. QED
      BY <1>1, <1>2, <1>4, <1>5, <1>8, <2>5, <3>1, Zenon DEF PlaceInv
  <2>15. PICK k, g : k = h + 1 /\ g = Push(f, k, a)
    BY Zenon
  <2>16. m \in Nat /\ h \in 0..m /\ h \in Nat /\ f \in [1..m -> Areas] /\ d \in 0..h
    BY <1>2, <1>3 DEF Stack
  <2>17. /\ k \in Nat /\ g \in [1..k -> Areas] /\ g[k] = a /\ k \in 1..k /\ h <= k
         /\ \A i \in 1..h : i \in 1..m /\ i \in 1..k /\ i # k /\ g[i] = f[i] /\ Below(g, i) = Below(f, i)
         /\ \A i \in 1..k : i = k \/ i \in 1..h
         /\ Below(g, k) = Top(f, h) /\ Top(g, k) = a
         /\ \A i \in 0..h : Top(g, i) = Top(f, i)
    <3>1. a \in Areas /\ f \in [1..m -> Areas] /\ m \in Nat /\ h \in 0..m
      BY <2>3, <2>16, Zenon
    <3>2. OnTop(g, k, a, f, m, h)
      BY <3>1, <2>15, Pushed, Zenon
    <3>. QED
      BY <3>2, Zenon DEF OnTop
  <2>18. \A i \in 1..h : f[i] # a /\ f[i] \in Areas
    <3>1. \A i \in 1..h : disk[f[i]] = FreeCell(Below(f, i)) /\ f[i] \in Areas
      BY <1>2, <2>17, Zenon DEF Stack
    <3>. QED
      BY <3>1, <2>4, CellKinds, Zenon
  <2>19. Stack(g, k, k, d, O2)'
    <3>1. k \in 0..k /\ d \in 0..k /\ d <= k
      BY <2>16, <2>17
    <3>2. \A i, j \in 1..k : g[i] = g[j] => i = j
      <4>1. \A i, j \in 1..h : f[i] = f[j] => i = j
        BY <1>2, <2>17, Zenon DEF Stack
      <4>. QED
        BY <4>1, <2>17, <2>18, Zenon
    <3>3. ASSUME NEW i \in 1..k PROVE disk'[g[i]] = FreeCell(Below(g, i)) /\ g[i] <= diskHeader.size
      <4>1. CASE i = k
        BY <4>1, <2>4, <2>7, <2>17, <1>2, ZenonT(30) DEF Stack
      <4>2. CASE i \in 1..h
        BY <4>2, <2>7, <2>17, <2>18, <1>2 DEF Stack
      <4>. QED
        BY <4>1, <4>2, <2>17, Zenon
    <3>4. header'.free = Top(g, k) /\ diskHeader.free = Top(g, d)
      BY <1>2, <2>5, <2>16, <2>17, Zenon DEF Stack
    <3>5. \A x \in O2 : loc[x].st # "allocated"
      BY <1>2, <1>8, <1>9, Zenon DEF PlaceInv
    <3>6. \A i \in 1..k : links'[g[i]] \in {Missing, Below(g, i)}
      <4>1. header.free = Top(f, h) /\ \A i \in 1..h : links[f[i]] \in {Missing, Below(f, i)}
        BY <1>2, Zenon DEF Stack
      <4>. QED
        BY <4>1, <2>8, <2>17, <2>18, Zenon
    <3>7. crashes = 0 => \A b \in 1..header.size : (\E i \in 1..k : g[i] = b) \/ (\E x \in O2 : loc[x].at = b)
      <4>1. SUFFICES ASSUME crashes = 0, NEW b \in 1..header.size
                     PROVE  (\E i \in 1..k : g[i] = b) \/ (\E x \in O2 : loc[x].at = b)
        BY Zenon
      <4>2. (\E i \in 1..h : f[i] = b) \/ (\E x \in O : loc[x].at = b)
        BY <4>1, <1>2, Zenon DEF Stack
      <4>. QED
        BY <4>2, <2>17, <1>7, Zenon DEF a
    <3>. QED
      BY <1>1, <1>4, <2>5, <2>17, <3>1, <3>2, <3>3, <3>4, <3>5, <3>6, <3>7, ZenonT(30) DEF Stack
  <2>. QED
    BY <1>8, <1>10, <2>9, <2>10, <2>11, <2>12, <2>14, <2>19, Zenon DEF OpenInv, Sound
<1>. QED
  BY <1>11, <1>12, Zenon

\* The list is done.
LEMMA EndReapStep ==
  ASSUME NEW S, NEW K, NEW O, NEW f, NEW m, NEW h, NEW d, Setting(S, K), Sound(O, f, m, h, d, S, K),
         EndReap
  PROVE  OpenInv(S, K)'
<1>1. UNCHANGED <<revisions, commits, pendingReaps, held, loc, disk, header, diskHeader, crashes,
                  cache, links, proposal, reading, outlived>>
  BY Zenon DEF EndReap, memory, caches, views
<1>2. /\ TypeInv(S, K) /\ HistoryInv(S, K) /\ TaskInv(S, K) /\ HeaderInv(S) /\ PlaceInv(O, S, K)
      /\ Stack(f, m, h, d, O) /\ CacheInv(O) /\ O = Owned(S, K) /\ K \in Nat /\ NoTrie = [s \in S |-> 0]
  BY Zenon DEF Sound, Setting, NoTrie
<1>3. task.at = "reap" /\ task.todo = {} /\ task' = Idle
  BY Zenon DEF EndReap
<1>4. /\ task'.at = "idle" /\ task'.trie = [s \in S |-> 0] /\ task'.no = 0 /\ task'.todo = {}
      /\ task'.batch = {} /\ task'.unwritten = {}
  BY <1>2, <1>3, Zenon DEF Idle
<1>5. ReapTodo' = ReapTodo /\ ~Writing /\ ~Writing'
  BY <1>3, <1>4, Zenon DEF ReapTodo, Writing
<1>6. O = Owned(S, K)'
  BY <1>1, <1>2, <1>5, Zenon DEF Owned
<1>7. TypeInv(S, K)'
  <2>1. 0 \in 0..K /\ [s \in S |-> 0] \in [S -> 0..K]
    BY <1>2
  <2>2. task' \in Task(S, K)
    BY <1>2, <1>3, <2>1, Zenon DEF Idle, Task
  <2>. QED
    BY <1>1, <1>2, <2>2, Zenon DEF TypeInv
<1>8. HistoryInv(S, K)' /\ HeaderInv(S)'
  BY <1>1, <1>2, <1>4, <1>5, Zenon DEF HistoryInv, HeaderInv
<1>9. TaskInv(S, K)'
  BY <1>1, <1>2, <1>4, <1>5, Zenon DEF TaskInv
<1>10. PlaceInv(O, S, K)'
  <2>1. task.batch = {}
    BY <1>2, <1>5, ZenonT(30) DEF TaskInv
  <2>. QED
    BY <1>1, <1>2, <1>5, <2>1, Zenon DEF PlaceInv
<1>11. Stack(f, m, h, d, O)'
  <2>1. d <= h
    BY <1>2, <1>3, Zenon DEF Stack
  <2>. QED
    BY <1>1, <1>2, <1>4, <2>1 DEF Stack
<1>12. CacheInv(O)'
  BY <1>1, <1>2, <1>5, Zenon DEF CacheInv
<1>. QED
  BY <1>6, <1>7, <1>8, <1>9, <1>10, <1>11, <1>12, Zenon DEF OpenInv, Sound

-----------------------------------------------------------------------------
(* What the properties say                                                 *)

\* The retained nodes and the doomed ones, as the properties name them, are the
\* owned ones; the revision being written adds nothing.
LEMMA OwnedNodes ==
  ASSUME NEW S, NEW K, NEW O, NEW f, NEW m, NEW h, NEW d, Setting(S, K), Sound(O, f, m, h, d, S, K)
  PROVE  O = Retained \cup Doomed /\ NodesOf(task.trie) \subseteq O /\ O \subseteq Node(S, K)
<1>1. /\ K \in Nat /\ S = Slots /\ O = Owned(S, K) /\ HistoryInv(S, K) /\ TaskInv(S, K) /\ TypeInv(S, K)
  BY Zenon DEF Sound, Setting
<1>2. /\ revisions \in Seq(Revision(S, K)) /\ pendingReaps \in Seq(SUBSET Node(S, K)) /\ ReapTodo \subseteq Node(S, K)
  BY <1>1, Zenon DEF HistoryInv, History, Waiting
<1>3. PICK L, P : L = Len(revisions) /\ P = Len(pendingReaps)
  BY Zenon
<1>4. L \in Nat /\ P \in Nat /\ DOMAIN revisions = 1..L /\ DOMAIN pendingReaps = 1..P
  BY <1>2, <1>3
<1>5. \A i \in 1..L : revisions[i].trie \in [S -> 0..K] /\ revisions[i].deleted \subseteq Node(S, K)
  <2>1. \A i \in 1..L : revisions[i] \in Revision(S, K)
    BY <1>2, <1>3
  <2>. QED
    BY <2>1, Zenon DEF Revision
<1>6. \A i \in 1..L : NodesOf(revisions[i].trie) = {n \in Node(S, K) : In(n, revisions[i].trie)}
  BY <1>1, <1>5, NodesOfTrie
<1>7. \A n : n \in Retained <=> n \in Node(S, K) /\ \E i \in 1..L : In(n, revisions[i].trie)
  BY <1>4, <1>6, Zenon DEF Retained
<1>8. \A n : n \in Doomed <=> n \in Node(S, K) /\ (n \in ReapTodo \/ \E p \in Lists(pendingReaps, revisions) : n \in ListAt(pendingReaps, revisions, p))
  <2>1. \A n : n \in Doomed <=> \/ \E i \in 1..L : n \in revisions[i].deleted
                                \/ \E p \in 1..P : n \in pendingReaps[p]
                                \/ n \in ReapTodo
    <3> DEFINE D == {revisions[i].deleted : i \in DOMAIN revisions} \cup Elements(pendingReaps)
    <3>2. Doomed = (UNION D) \cup ReapTodo
      BY Zenon DEF Doomed, ReapTodo
    <3>3. \A n : n \in UNION D <=> (\E i \in 1..L : n \in revisions[i].deleted) \/ (\E p \in 1..P : n \in pendingReaps[p])
      <4>1. \A x : x \in D <=> (\E i \in 1..L : x = revisions[i].deleted) \/ (\E p \in 1..P : x = pendingReaps[p])
        BY <1>4, Zenon DEF Elements
      <4> HIDE DEF D
      <4>. QED
        BY <4>1, ZenonT(30)
    <3> HIDE DEF D
    <3>. QED
      BY <3>2, <3>3, Zenon
  <2>2. \A n : (\E p \in Lists(pendingReaps, revisions) : n \in ListAt(pendingReaps, revisions, p)) <=>
                 \/ \E i \in 1..L : n \in revisions[i].deleted
                 \/ \E p \in 1..P : n \in pendingReaps[p]
    <3>1. Lists(pendingReaps, revisions) = 1..(P + L)
      BY <1>3, Zenon DEF Lists
    <3>2. \A p \in 1..(P + L) : (p <= P /\ p \in 1..P) \/ (~(p <= P) /\ p - P \in 1..L)
      BY <1>4
    <3>3. \A i \in 1..L : P + i \in 1..(P + L) /\ ~(P + i <= P) /\ P + i - P = i
      BY <1>4
    <3>4. \A p \in 1..P : p \in 1..(P + L) /\ p <= P
      BY <1>4
    <3>5. \A p : ListAt(pendingReaps, revisions, p) = IF p <= P THEN pendingReaps[p] ELSE revisions[p - P].deleted
      BY <1>3, Zenon DEF ListAt
    <3>6. ASSUME NEW n, NEW p \in 1..(P + L), n \in ListAt(pendingReaps, revisions, p)
          PROVE  (\E i \in 1..L : n \in revisions[i].deleted) \/ (\E q \in 1..P : n \in pendingReaps[q])
      BY <3>2, <3>5, <3>6, Zenon
    <3>7. ASSUME NEW n, NEW i \in 1..L, n \in revisions[i].deleted
          PROVE  P + i \in 1..(P + L) /\ n \in ListAt(pendingReaps, revisions, P + i)
      <4>1. PICK q : q = P + i
        BY Zenon
      <4>2. q \in 1..(P + L) /\ ~(q <= P) /\ q - P = i
        BY <4>1, <1>4
      <4>3. ListAt(pendingReaps, revisions, q) = revisions[i].deleted
        BY <4>2, <3>5, Zenon
      <4>. QED
        BY <4>1, <4>2, <4>3, <3>7, Zenon
    <3>8. ASSUME NEW n, NEW p \in 1..P, n \in pendingReaps[p]
          PROVE  p \in 1..(P + L) /\ n \in ListAt(pendingReaps, revisions, p)
      BY <3>4, <3>5, <3>8, Zenon
    <3>. QED
      BY <3>1, <3>6, <3>7, <3>8, Zenon
  <2>3. \A p \in 1..P : pendingReaps[p] \subseteq Node(S, K)
    BY <1>2, <1>3
  <2>. QED
    BY <2>1, <2>2, <2>3, <1>2, <1>5, Zenon
<1>9. O = Retained \cup Doomed
  BY <1>1, <1>3, <1>7, <1>8, Zenon DEF Owned, OwnedBy
<1>10. NodesOf(task.trie) = {n \in Node(S, K) : In(n, task.trie)}
  <2>1. task.trie \in [S -> 0..K]
    BY <1>1, Zenon DEF TypeInv, Task
  <2>. QED
    BY <2>1, <1>1, NodesOfTrie
<1>11. NodesOf(task.trie) \subseteq O
  <2>1. CASE Writing
    BY <2>1, <1>1, <1>10, TaskNodes, Zenon
  <2>2. CASE ~Writing
    <3>1. task.trie = [s \in S |-> 0]
      BY <2>2, <1>1, Zenon DEF TaskInv
    <3>2. \A n \in Node(S, K) : n[1] \in S /\ n[2] \in 1..K
      BY <1>1, NodeParts, Zenon
    <3>3. \A n \in Node(S, K) : ~In(n, task.trie)
      BY <3>1, <3>2 DEF In
    <3>. QED
      BY <3>3, <1>10, Zenon
  <2>. QED
    BY <2>1, <2>2, Zenon
<1>. QED
  BY <1>1, <1>9, <1>11, Zenon DEF Owned

\* Owned nodes that have an area have it to themselves, and no free list offers it.
LEMMA OwnedAreas ==
  ASSUME NEW S, NEW K, NEW O, NEW f, NEW m, NEW h, NEW d, Setting(S, K), Sound(O, f, m, h, d, S, K),
         NEW n \in O, loc[n].st # "unpersisted"
  PROVE  /\ loc[n].at \in 1..header.size /\ loc[n].at \in Areas
         /\ \A i \in 1..h : loc[n].at # f[i]
         /\ loc[n].st = "persisted" => \A i \in 1..m : loc[n].at # f[i]
         /\ \A x \in O : loc[x].at = loc[n].at => x = n
<1>1. TypeInv(S, K) /\ PlaceInv(O, S, K) /\ Stack(f, m, h, d, O) /\ n \in Node(S, K) /\ MaxAreas \in Nat
  BY ScenarioAssumption, Zenon DEF Sound, Owned
<1>2. loc[n] \in Location /\ loc[n].at # Nil /\ loc[n].at <= header.size /\ header \in Header(S, K)
  BY <1>1, Zenon DEF TypeInv, PlaceInv
<1>3. loc[n].at \in 1..header.size /\ loc[n].at \in Areas /\ loc[n].st \in {"persisted", "allocated"}
  BY <1>1, <1>2 DEF Location, Header, Areas, Nil
<1>4. \A x \in O : loc[x].at = loc[n].at => x = n
  BY <1>1, <1>2, Zenon DEF PlaceInv
<1>5. \A i \in 1..m : disk[f[i]] = FreeCell(Below(f, i))
  BY <1>1, Zenon DEF Stack
<1>6. loc[n].st = "persisted" => disk[loc[n].at] = NodeCell(n)
  BY <1>1, Zenon DEF PlaceInv
<1>7. loc[n].st = "persisted" => \A i \in 1..m : loc[n].at # f[i]
  BY <1>5, <1>6, CellKinds, Zenon
<1>8. loc[n].st = "allocated" => \A i \in 1..h : loc[n].at # f[i]
  BY <1>1, Zenon DEF Stack
<1>9. \A i \in 1..h : i \in 1..m
  BY <1>1 DEF Stack
<1>. QED
  BY <1>3, <1>4, <1>7, <1>8, <1>9, Zenon

\* A walk that ends, and found the first k areas of the free list.
Offered(c, f, k, m) ==
  /\ c[Len(c)] = Nil /\ Elements(c) \ {Nil} = {f[i] : i \in 1..k}
  /\ \A i \in 1..k : i \in 1..m /\ f[i] \in Areas /\ f[i] \in 1..diskHeader.size

\* Both free lists are what the walks along the disk find.
LEMMA BothChains ==
  ASSUME Counting, Numbering,
         NEW S, NEW K, NEW O, NEW f, NEW m, NEW h, NEW d, Sound(O, f, m, h, d, S, K), NEW k \in {h, d},
         NEW head, head = Top(f, k), NEW c, c = FreeChain(head)
  PROVE  Offered(c, f, k, m)
<1>1. Stack(f, m, h, d, O) /\ diskHeader.size \in Int
  BY DEF Sound, TypeInv, Header
<1>2. k \in 0..m /\ m \in Nat /\ f \in [1..m -> Areas]
  BY <1>1, Zenon DEF Stack
<1>3. k \in Nat /\ \A i \in 1..k : i \in 1..m /\ i - 1 \in 0..k
  BY <1>2
<1>4. PICK g : g = [i \in 1..k |-> f[i]]
  BY Zenon
<1>5. g \in [1..k -> Areas] /\ \A i \in 1..k : g[i] = f[i] /\ Below(g, i) = Below(f, i)
  <2>1. g \in [1..k -> Areas] /\ \A i \in 1..k : g[i] = f[i]
    BY <1>2, <1>3, <1>4, Zenon
  <2>2. \A i \in 1..k : i > 1 => i - 1 \in 1..k
    BY <1>3
  <2>. QED
    BY <2>1, <2>2, Zenon DEF Below
<1>6. Linked(g, k)
  <2>1. \A i, j \in 1..m : f[i] = f[j] => i = j
    BY <1>1, Zenon DEF Stack
  <2>2. \A i \in 1..m : disk[f[i]] = FreeCell(Below(f, i))
    BY <1>1, Zenon DEF Stack
  <2>3. \A i, j \in 1..k : g[i] = g[j] => i = j
    BY <1>3, <1>5, <2>1, Zenon
  <2>4. \A i \in 1..k : disk[g[i]] = FreeCell(Below(g, i))
    BY <1>3, <1>5, <2>2, Zenon
  <2>. QED
    BY <1>3, <1>5, <2>3, <2>4, Zenon DEF Linked
<1>7. Top(g, k) = head
  <2>1. k > 0 => k \in 1..k
    BY <1>3
  <2>. QED
    BY <2>1, <1>5, Zenon DEF Top
<1>8. c[Len(c)] = Nil /\ Elements(c) \ {Nil} = {g[i] : i \in 1..k}
  BY <1>6, <1>7, ChainAreas, Zenon
<1>9. {g[i] : i \in 1..k} = {f[i] : i \in 1..k}
  BY <1>5, Zenon
<1>10. ASSUME NEW i \in 1..k PROVE f[i] \in Areas /\ f[i] \in 1..diskHeader.size
  <2>1. f[i] \in Areas /\ f[i] <= diskHeader.size
    BY <1>1, <1>2, <1>3, Zenon DEF Stack
  <2>. QED
    BY <2>1, <1>1 DEF Areas
<1>. QED
  BY <1>3, <1>8, <1>9, <1>10, Zenon DEF Offered

\* The invariant says so of each state: CrashImageSound.
LEMMA CrashImageFollows ==
  ASSUME Counting, Numbering, StorageInv
  PROVE  CrashImageSound
<1>1. SUFFICES ASSUME StorageInv, diskHeader.written
               PROVE  /\ OnDisk(diskHeader.trie, diskHeader.size)
                      /\ SoundFreeList(diskHeader, {AreaOf(n) : n \in NodesOf(diskHeader.trie)})
  BY Zenon DEF CrashImageSound
<1>2. PICK S, K : S = Slots /\ K = MaxCommits
  BY Zenon
<1>3. OpenInv(S, K) /\ Setting(S, K)
  BY <1>1, <1>2, Scene, Zenon DEF StorageInv, ClosedInv
<1>4. PICK O, f, m, h, d : Sound(O, f, m, h, d, S, K)
  BY <1>3, Zenon DEF OpenInv
<1>5. /\ TypeInv(S, K) /\ HistoryInv(S, K) /\ HeaderInv(S) /\ PlaceInv(O, S, K) /\ Stack(f, m, h, d, O)
      /\ O = Owned(S, K) /\ K \in Nat
  BY <1>3, <1>4, Zenon DEF Sound, Setting
<1>6. NodesOf(diskHeader.trie) = {n \in Node(S, K) : In(n, header.trie)}
  <2>1. diskHeader.trie = header.trie /\ header.trie \in [S -> 0..K]
    BY <1>5, Zenon DEF HeaderInv, TypeInv, Header
  <2>. QED
    BY <2>1, <1>2, <1>5, NodesOfTrie
<1>7. ASSUME NEW n \in NodesOf(diskHeader.trie)
      PROVE  /\ loc[n].at \in 1..diskHeader.size /\ disk[loc[n].at] = NodeCell(n)
             /\ \A i \in 1..m : loc[n].at # f[i]
  <2>1. n \in Node(S, K) /\ In(n, header.trie)
    BY <1>6, Zenon
  <2>2. n \in O
    BY <2>1, <1>5, Zenon DEF HistoryInv, Kept, Owned, OwnedBy
  <2>3. loc[n].st = "persisted" /\ loc[n].at <= diskHeader.size
    BY <2>1, <1>5, Zenon DEF PlaceInv
  <2>4. loc[n].at \in 1..header.size /\ \A i \in 1..m : loc[n].at # f[i]
    BY <2>2, <2>3, <1>3, <1>4, OwnedAreas, SMTT(20)
  <2>5. header.size \in Int /\ diskHeader.size \in Int
    BY <1>5 DEF TypeInv, Header
  <2>6. loc[n].at \in 1..diskHeader.size
    BY <2>3, <2>4, <2>5
  <2>. QED
    BY <2>2, <2>3, <2>4, <2>6, <1>5, Zenon DEF PlaceInv
<1>8. OnDisk(diskHeader.trie, diskHeader.size)
  BY <1>7, Zenon DEF OnDisk, AreaOf
<1>9. PICK c : c = FreeChain(diskHeader.free)
  BY Zenon
<1>10. /\ c[Len(c)] = Nil /\ Elements(c) \ {Nil} = {f[i] : i \in 1..d}
       /\ \A i \in 1..d : i \in 1..m /\ f[i] \in 1..diskHeader.size
  <2>1. diskHeader.free = Top(f, d)
    BY <1>5, Zenon DEF Stack
  <2>2. d \in {h, d}
    BY Zenon
  <2>3. Offered(c, f, d, m)
    BY <2>1, <2>2, <1>4, <1>9, BothChains, Zenon
  <2>. QED
    BY <2>3, Zenon DEF Offered
<1>11. SoundFreeList(diskHeader, {AreaOf(n) : n \in NodesOf(diskHeader.trie)})
  BY <1>7, <1>9, <1>10 DEF SoundFreeList, AreaOf
<1>. QED
  BY <1>8, <1>11, Zenon

\* The invariant says so of each state: RetainedReadable.
LEMMA RetainedReadableFollows ==
  ASSUME Counting, Numbering, StorageInv
  PROVE  RetainedReadable
<1>1. SUFFICES ASSUME StorageInv, open, NEW n \in Retained, loc[n].st = "persisted"
               PROVE  disk[loc[n].at] = NodeCell(n) /\ (outlived \/ cache[loc[n].at] \in {NoNode, n})
  BY Zenon DEF RetainedReadable, AreaOf
<1>2. PICK S, K : S = Slots /\ K = MaxCommits
  BY Zenon
<1>3. OpenInv(S, K) /\ Setting(S, K)
  BY <1>1, <1>2, Scene, Zenon DEF StorageInv
<1>4. PICK O, f, m, h, d : Sound(O, f, m, h, d, S, K)
  BY <1>3, Zenon DEF OpenInv
<1>5. n \in O
  BY <1>1, <1>3, <1>4, OwnedNodes, Zenon
<1>6. disk[loc[n].at] = NodeCell(n)
  BY <1>1, <1>4, <1>5, Zenon DEF Sound, PlaceInv
<1>7. loc[n].at \in Areas /\ \A x \in O : loc[x].at = loc[n].at => x = n
  BY <1>1, <1>3, <1>4, <1>5, OwnedAreas, SMTT(20)
<1>8. ~outlived /\ cache[loc[n].at] # NoNode => cache[loc[n].at] = n
  BY <1>4, <1>7 DEF Sound, CacheInv
<1>. QED
  BY <1>6, <1>8, Zenon

\* The invariant says so of each state: AllocatorSound.
LEMMA AllocatorFollows ==
  ASSUME Counting, Numbering, StorageInv
  PROVE  AllocatorSound
<1> DEFINE live == {n \in Retained \cup NodesOf(task.trie) : loc[n].st # "unpersisted"}
<1>1. SUFFICES ASSUME StorageInv, open
               PROVE  /\ SoundFreeList(header, {AreaOf(n) : n \in live})
                      /\ \A x, n \in live : AreaOf(x) = AreaOf(n) => x = n
                      /\ \A a \in FreeAreas(header) : links[a] \in {Missing, disk[a].next}
  BY Zenon DEF AllocatorSound
<1>2. PICK S, K : S = Slots /\ K = MaxCommits
  BY Zenon
<1>3. OpenInv(S, K) /\ Setting(S, K)
  BY <1>1, <1>2, Scene, Zenon DEF StorageInv
<1>4. PICK O, f, m, h, d : Sound(O, f, m, h, d, S, K)
  BY <1>3, Zenon DEF OpenInv
<1>5. TypeInv(S, K) /\ HeaderInv(S) /\ Stack(f, m, h, d, O)
  BY <1>4, Zenon DEF Sound
<1>6. \A n \in live : n \in O /\ loc[n].st # "unpersisted"
  BY <1>3, <1>4, OwnedNodes, Zenon
<1> HIDE DEF live
<1>7. ASSUME NEW n \in live
      PROVE  (\A i \in 1..h : loc[n].at # f[i]) /\ \A x \in O : loc[x].at = loc[n].at => x = n
  BY <1>3, <1>4, <1>6, OwnedAreas
<1>8. PICK c : c = FreeChain(header.free)
  BY Zenon
<1>9. /\ c[Len(c)] = Nil /\ Elements(c) \ {Nil} = {f[i] : i \in 1..h}
      /\ \A i \in 1..h : i \in 1..m /\ f[i] \in Areas /\ f[i] \in 1..diskHeader.size
  <2>1. header.free = Top(f, h)
    BY <1>5, Zenon DEF Stack
  <2>2. h \in {h, d}
    BY Zenon
  <2>3. Offered(c, f, h, m)
    BY <2>1, <2>2, <1>4, <1>8, BothChains, Zenon
  <2>. QED
    BY <2>3, Zenon DEF Offered
<1>10. \A i \in 1..h : f[i] \in 1..header.size
  <2>1. diskHeader.size \in Int /\ header.size \in Int /\ diskHeader.size <= header.size
    BY <1>5 DEF TypeInv, Header, HeaderInv
  <2>. QED
    BY <2>1, <1>9
<1>11. SoundFreeList(header, {AreaOf(n) : n \in live})
  BY <1>7, <1>8, <1>9, <1>10 DEF SoundFreeList, AreaOf
<1>12. \A x, n \in live : AreaOf(x) = AreaOf(n) => x = n
  BY <1>6, <1>7, Zenon DEF AreaOf
<1>13. ASSUME NEW a \in FreeAreas(header) PROVE links[a] \in {Missing, disk[a].next}
  <2>1. PICK i \in 1..h : a = f[i]
    BY <1>8, <1>9, Zenon DEF FreeAreas
  <2>2. disk[a] = FreeCell(Below(f, i)) /\ links[a] \in {Missing, Below(f, i)}
    BY <2>1, <1>5, <1>9, Zenon DEF Stack
  <2>. QED
    BY <2>2 DEF FreeCell
<1>. QED
  BY <1>11, <1>12, <1>13, Zenon

\* The invariant says so of each state: NoLeak.
LEMMA NoLeakFollows ==
  ASSUME Counting, Numbering, StorageInv
  PROVE  NoLeak
<1> DEFINE used == {AreaOf(n) : n \in Retained \cup Doomed \cup NodesOf(task.trie)} \ {Nil}
<1>1. SUFFICES ASSUME StorageInv, crashes = 0 PROVE 1..header.size = FreeAreas(header) \cup used
  BY Zenon DEF NoLeak
<1>2. PICK S, K : S = Slots /\ K = MaxCommits
  BY Zenon
<1>3. OpenInv(S, K) /\ Setting(S, K)
  BY <1>1, <1>2, Scene DEF StorageInv, ClosedInv
<1>4. PICK O, f, m, h, d : Sound(O, f, m, h, d, S, K)
  BY <1>3, Zenon DEF OpenInv
<1>5. TypeInv(S, K) /\ HeaderInv(S) /\ Stack(f, m, h, d, O)
  BY <1>4, Zenon DEF Sound
<1>6. used = {loc[n].at : n \in O} \ {Nil} /\ O \subseteq Node(S, K)
  BY <1>3, <1>4, OwnedNodes, Zenon DEF AreaOf
<1> HIDE DEF used
<1>7. ASSUME NEW n \in O, loc[n].at # Nil PROVE loc[n].at \in 1..header.size
  <2>1. loc[n].st # "unpersisted"
    BY <1>5, <1>6, <1>7, Zenon DEF TypeInv
  <2>. QED
    BY <2>1, <1>3, <1>4, OwnedAreas, Zenon
<1>8. PICK c : c = FreeChain(header.free)
  BY Zenon
<1>9. /\ Elements(c) \ {Nil} = {f[i] : i \in 1..h}
      /\ \A i \in 1..h : f[i] \in 1..diskHeader.size
  <2>1. header.free = Top(f, h)
    BY <1>5, Zenon DEF Stack
  <2>2. h \in {h, d}
    BY Zenon
  <2>3. Offered(c, f, h, m)
    BY <2>1, <2>2, <1>4, <1>8, BothChains, Zenon
  <2>. QED
    BY <2>3, Zenon DEF Offered
<1>10. \A i \in 1..h : f[i] \in 1..header.size
  <2>1. diskHeader.size \in Int /\ header.size \in Int /\ diskHeader.size <= header.size
    BY <1>5 DEF TypeInv, Header, HeaderInv
  <2>. QED
    BY <2>1, <1>9
<1>11. FreeAreas(header) = {f[i] : i \in 1..h}
  BY <1>8, <1>9, Zenon DEF FreeAreas
<1>12. ASSUME NEW a \in 1..header.size PROVE (\E i \in 1..h : f[i] = a) \/ a \in used
  <2>1. (\E i \in 1..h : f[i] = a) \/ (\E n \in O : loc[n].at = a)
    BY <1>1, <1>5, Zenon DEF Stack
  <2>2. a # Nil
    BY DEF Nil
  <2>. QED
    BY <2>1, <2>2, <1>6, Zenon
<1>. QED
  BY <1>6, <1>7, <1>10, <1>11, <1>12

=============================================================================
