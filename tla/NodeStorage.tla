----------------------------- MODULE NodeStorage -----------------------------
(***************************************************************************)
(* Nodes on disk: allocation and free lists (nodestore/alloc.rs), writing  *)
(* a revision (nodestore/persist.rs), reaping (nodestore/mod.rs), the      *)
(* states of MaybePersistedNode (node/persist.rs), and what a restart      *)
(* after a process crash finds (NodeStoreHeader, RevisionManager::new);    *)
(* and the two caches in front of the file (linear/filebacked.rs).         *)
(*                                                                         *)
(* A trie is a root with leaves; the node at slot s written by revision k  *)
(* is <<s, k>>, so a revision is the function from slots to the revision   *)
(* that wrote them, and copy-on-write sharing is equality of its values.   *)
(* A persisted parent holds the addresses of its children, which never     *)
(* change once allocated.  All nodes have one area size: free lists of     *)
(* different sizes never exchange areas.  When the background thread       *)
(* writes and reaps is left open, within the bounds PersistWorker proves.  *)
(***************************************************************************)
EXTENDS Integers, Sequences, FiniteSets

CONSTANTS Scenarios,     \* the databases and workloads to start from
          MaxAreas       \* bound: areas of the file

VARIABLE scenario        \* the one of this run

Leaves == scenario.leaves              \* slots below the root
MaxGap == scenario.gap                 \* max_persistence_gap
MaxRevisions == scenario.revisions     \* max_revisions
MaxCommits == scenario.commits         \* bound: commits of one run
MaxCrashes == scenario.crashes         \* bound: crashes of one run
Readers == scenario.readers            \* bound: revisions held at the same time
Opened == scenario.opened              \* a "new" file, a "truncated" one, an "existing" database
Proposals == scenario.proposals        \* proposals are read as well
Strategy == scenario.strategy          \* CacheReadStrategy, or "off": the node cache keeps nothing
Linking == scenario.linking            \* the free-list cache keeps something

ASSUME ScenarioAssumption ==
  /\ MaxAreas \in Nat
  /\ \A c \in Scenarios :
       /\ {c.gap, c.revisions, c.commits, c.crashes, c.readers} \subseteq Nat
       /\ 0 < c.gap /\ c.gap < c.revisions
       /\ "root" \notin c.leaves /\ IsFiniteSet(c.leaves)
       /\ c.opened \subseteq {"new", "truncated", "existing"}
       /\ {c.linking, c.proposals} \subseteq BOOLEAN
       /\ c.strategy \in {"off", "BranchReads", "All"}
       /\ "existing" \in c.opened => c.commits > 0 /\ Cardinality(c.leaves) + 2 <= MaxAreas

VARIABLES revisions,    \* retained revisions: number, trie, deleted nodes
          commits,      \* number of the newest revision
          held,         \* numbers of revisions readers hold
          pendingReaps, \* deleted lists on their way to the free lists
          loc,          \* MaybePersisted state of each node
          disk,         \* the areas of the file
          header,       \* the header in memory
          diskHeader,   \* the header on disk
          task,         \* what the background thread is doing
          open,         \* the last open succeeded
          crashes,
          cache,        \* the node cache: the node at each area, or NoNode
          links,        \* the free-list cache: the link of each area, or Missing
          proposal,     \* the nodes a proposal shares with the revision it was made from
          reading,      \* a read that missed the cache, its result not cached yet
          outlived      \* nodes were reaped that a proposal still refers to

memory == <<revisions, commits, held, pendingReaps>>
caches == <<cache, links>>
views == <<proposal, reading, outlived>>
vars == <<scenario, memory, loc, disk, header, diskHeader, task, open, crashes, caches, views>>

Nil == 0
Areas == 1..MaxAreas
Slots == Leaves \cup {"root"}
NoTrie == [s \in Slots |-> 0]
NodesOf(t) == {<<s, t[s]>> : s \in {x \in Slots : t[x] # 0}}
Nodes == Slots \X (1..MaxCommits)

NoNode == <<"root", 0>>

\* Contents of an area: never written, a node, or a FreeArea with its link.
Unwritten == [kind |-> "unwritten", node |-> NoNode, next |-> Nil]
NodeCell(n) == [kind |-> "node", node |-> n, next |-> Nil]
FreeCell(next) == [kind |-> "free", node |-> NoNode, next |-> next]

Missing == -1
EmptyCache == [a \in Areas |-> NoNode]
EmptyLinks == [a \in Areas |-> Missing]

\* Who reads: the number of a held revision, the proposal, or nobody.
TheProposal == -1
Nobody == -2
NoRead == [by |-> Nobody, area |-> Nil, got |-> NoNode]

InMemory == [st |-> "unpersisted", at |-> Nil]
AreaOf(n) == loc[n].at

\* NodeStoreHeader::new.  On disk, "written" says that the whole header is
\* there: opening a new file without truncate leaves that to the first persist.
EmptyHeader == [root |-> 0, trie |-> NoTrie, size |-> 0, free |-> Nil, written |-> TRUE]

Idle == [at |-> "idle", trie |-> NoTrie, no |-> 0, todo |-> {}, batch |-> {}, unwritten |-> {}]

\* RevisionManager::new keeps one revision, the one the header names.
OpenedAt(h) ==
  /\ revisions = <<[no |-> h.root, trie |-> h.trie, deleted |-> {}]>>
  /\ commits = h.root /\ header = h

\* The leaves in some order.
LeafOrders == {order \in [1..Cardinality(Leaves) -> Leaves] :
                 \A i, j \in 1..Cardinality(Leaves) : order[i] = order[j] => i = j}

\* An existing database has one trie with all its leaves, written children
\* first; an area after them may be free.
Init ==
  /\ scenario \in Scenarios
  /\ held = {} /\ pendingReaps = <<>>
  /\ task = Idle /\ open = TRUE /\ crashes = 0
  /\ cache = EmptyCache /\ links = EmptyLinks
  /\ proposal = {} /\ reading = NoRead /\ outlived = FALSE
  /\ \/ /\ "existing" \in Opened
        /\ \E order \in LeafOrders, spare \in {0, 1} :
             LET written == Append(order, "root")
                 size == Len(written) + spare IN
             /\ OpenedAt([EmptyHeader EXCEPT !.root = 1, !.trie = [s \in Slots |-> 1], !.size = size,
                                             !.free = IF spare = 1 THEN size ELSE Nil])
             /\ loc = [n \in Nodes |-> IF n[2] = 1
                                       THEN [st |-> "persisted", at |-> CHOOSE i \in DOMAIN written : written[i] = n[1]]
                                       ELSE InMemory]
             /\ disk = [a \in Areas |-> CASE a \in DOMAIN written -> NodeCell(<<written[a], 1>>)
                                         [] a = header.free -> FreeCell(Nil)
                                         [] OTHER -> Unwritten]
             /\ diskHeader = header
     \/ \E o \in Opened \ {"existing"} :
          /\ OpenedAt(EmptyHeader)
          /\ loc = [n \in Nodes |-> InMemory]
          /\ disk = [a \in Areas |-> Unwritten]
          /\ diskHeader = [header EXCEPT !.written = (o = "truncated")]

Current == revisions[Len(revisions)]
\* Revisions committed since the one the header names.
Outstanding == Cardinality({i \in DOMAIN revisions : revisions[i].no > header.root})

-----------------------------------------------------------------------------
(* The caches of FileBacked                                                *)

\* A batch that was written: each node is cached under its address.
write_cached_nodes(batch) ==
  [a \in Areas |-> IF Strategy # "off" /\ \E m \in batch : AreaOf(m) = a
                   THEN CHOOSE m \in batch : AreaOf(m) = a ELSE cache[a]]

invalidate_cached_nodes(nodes) ==
  [a \in Areas |-> IF \E n \in nodes : AreaOf(n) = a THEN NoNode ELSE cache[a]]

\* The link behind the head of the free list: from the cache, or else from the area.
next_free_block(a) == IF links[a] # Missing THEN links[a] ELSE disk[a].next

add_to_free_list_cache(a, next) == [links EXCEPT ![a] = IF Linking THEN next ELSE Missing]

-----------------------------------------------------------------------------
(* Commit and readers                                                      *)

\* The revisions the reaping loop of a commit takes off the front.
Popped == CHOOSE n \in 0..Len(revisions) :
            /\ \A i \in 1..n : revisions[i].no \notin held /\ Len(revisions) - i + 1 >= MaxRevisions
            /\ \/ Len(revisions) - n < MaxRevisions
               \/ revisions[n + 1].no \in held

\* Variants (plausible mistakes in the definition that follows, which the
\* properties tell from the code): what a commit supersedes is freed with the
\* commit, not when the revisions that share it are reaped.
CommitFreesNow(t) ==
  /\ open /\ commits < MaxCommits /\ Outstanding < MaxGap
  /\ t["root"] = IF \E s \in Leaves : t[s] # 0 THEN commits + 1 ELSE 0
  /\ \E s \in Leaves : t[s] # Current.trie[s]
  /\ commits' = commits + 1
  /\ pendingReaps' = Append(pendingReaps, NodesOf(Current.trie) \ NodesOf(t))
  /\ revisions' = Append(SubSeq(revisions, Popped + 1, Len(revisions)),
                         [no |-> commits + 1, trie |-> t, deleted |-> {}])
  /\ UNCHANGED <<held, loc, disk, header, diskHeader, task, open, crashes, caches, views>>

\* A new trie: leaves are rewritten, removed or shared; every change rewrites
\* the root.  The superseded nodes are the new revision's deleted list.
Commit(t) ==
  /\ open /\ commits < MaxCommits /\ Outstanding < MaxGap
  /\ \A s \in Leaves : t[s] \in {Current.trie[s], commits + 1, 0}
  /\ t["root"] = IF \E s \in Leaves : t[s] # 0 THEN commits + 1 ELSE 0
  /\ \E s \in Leaves : t[s] # Current.trie[s]
  /\ commits' = commits + 1
  /\ pendingReaps' = pendingReaps \o [i \in 1..Popped |-> revisions[i].deleted]
  /\ revisions' = Append(SubSeq(revisions, Popped + 1, Len(revisions)),
                         [no      |-> commits + 1,
                          trie    |-> t,
                          deleted |-> NodesOf(Current.trie) \ NodesOf(t)])
  /\ UNCHANGED <<held, loc, disk, header, diskHeader, task, open, crashes, caches, views>>

Hold(r) ==
  /\ open /\ Cardinality(held) < Readers /\ r \in {revisions[i].no : i \in DOMAIN revisions} \ held
  /\ held' = held \cup {r}
  /\ UNCHANGED <<revisions, commits, pendingReaps, loc, disk, header, diskHeader, task, open, crashes, caches, views>>

Release(r) ==
  /\ r \in held /\ reading.by # r
  /\ held' = held \ {r}
  /\ UNCHANGED <<revisions, commits, pendingReaps, loc, disk, header, diskHeader, task, open, crashes, caches, views>>

-----------------------------------------------------------------------------
(* Writing a revision: persist()                                           *)

StartPersist ==
  /\ task.at = "idle" /\ Current.no > header.root
  /\ task' = [Idle EXCEPT !.at = "allocate", !.trie = Current.trie, !.no = Current.no,
                          !.todo = {n \in NodesOf(Current.trie) : loc[n].st # "persisted"}]
  /\ UNCHANGED <<memory, loc, disk, header, diskHeader, open, crashes, caches, views>>

\* Variant: the head of the free list stays where it is.
AllocateTwice(n) ==
  /\ task.at = "allocate" /\ n \in task.todo
  /\ n[1] = "root" => task.todo = {n}
  /\ LET a == IF header.free # Nil THEN header.free ELSE header.size + 1 IN
       /\ a \in Areas
       /\ header' = IF header.free # Nil THEN header ELSE [header EXCEPT !.size = @ + 1]
       /\ loc' = [loc EXCEPT ![n] = [st |-> "allocated", at |-> a]]
  /\ task' = [task EXCEPT !.todo = @ \ {n}, !.batch = @ \cup {n}]
  /\ UNCHANGED <<memory, disk, diskHeader, open, crashes, caches, views>>

\* The next unpersisted node, children before their parent, is allocated from
\* the free list or else at the end of the file.  A hit in the free-list cache
\* takes the entry out of it; otherwise the link is read from the area.
Allocate(n) ==
  /\ task.at = "allocate" /\ n \in task.todo
  /\ n[1] = "root" => task.todo = {n}
  /\ LET reuse == header.free # Nil
         a == IF reuse THEN header.free ELSE header.size + 1 IN
       /\ a \in Areas
       /\ header' = IF reuse THEN [header EXCEPT !.free = next_free_block(a)]
                    ELSE [header EXCEPT !.size = @ + 1]
       /\ links' = [links EXCEPT ![a] = Missing]
       /\ loc' = [loc EXCEPT ![n] = [st |-> "allocated", at |-> a]]
  /\ task' = [task EXCEPT !.todo = @ \ {n}, !.batch = @ \cup {n}]
  /\ UNCHANGED <<memory, disk, diskHeader, open, crashes, cache, views>>

\* Variant: the free lists are written with the header only.
FlushFreelistLater ==
  /\ task.at = "allocate" /\ task.batch # {}
  /\ task' = [task EXCEPT !.at = "write", !.unwritten = task.batch]
  /\ UNCHANGED <<memory, loc, disk, header, diskHeader, open, crashes, caches, views>>

\* The batch is full or the last one: flush_freelist comes before its writes.
FlushFreelist ==
  /\ task.at = "allocate" /\ task.batch # {}
  /\ diskHeader' = [diskHeader EXCEPT !.free = header.free]
  /\ task' = [task EXCEPT !.at = "write", !.unwritten = task.batch]
  /\ UNCHANGED <<memory, loc, disk, header, open, crashes, caches, views>>

\* write_batch writes the nodes in some order; after the last one
\* write_cached_nodes puts the batch into the cache and marks it persisted.
WriteNode(n) ==
  /\ task.at = "write" /\ n \in task.unwritten
  /\ disk' = [disk EXCEPT ![AreaOf(n)] = NodeCell(n)]
  /\ IF task.unwritten = {n}
     THEN /\ task' = [task EXCEPT !.at = "allocate", !.batch = {}, !.unwritten = {}]
          /\ loc' = [m \in Nodes |-> IF m \in task.batch THEN [loc[m] EXCEPT !.st = "persisted"] ELSE loc[m]]
          /\ cache' = write_cached_nodes(task.batch)
     ELSE /\ task' = [task EXCEPT !.unwritten = @ \ {n}]
          /\ UNCHANGED <<loc, cache>>
  /\ UNCHANGED <<memory, header, diskHeader, open, crashes, links, views>>

\* set_root_location and flush_to: the header is written last.
FlushHeader ==
  /\ task.at = "allocate" /\ task.todo = {} /\ task.batch = {}
  /\ header' = [header EXCEPT !.root = task.no, !.trie = task.trie]
  /\ diskHeader' = header'
  /\ task' = Idle
  /\ UNCHANGED <<memory, loc, disk, open, crashes, caches, views>>

-----------------------------------------------------------------------------
(* Reaping: reap_deleted()                                                 *)

\* The cached copies of the nodes go first (invalidate_cached_nodes).
StartReap ==
  /\ task.at = "idle" /\ pendingReaps # <<>>
  /\ task' = [Idle EXCEPT !.at = "reap", !.todo = Head(pendingReaps)]
  /\ pendingReaps' = Tail(pendingReaps)
  /\ cache' = invalidate_cached_nodes(task'.todo)
  /\ outlived' = (outlived \/ task'.todo \cap proposal # {})
  /\ UNCHANGED <<revisions, commits, held, loc, disk, header, diskHeader, open, crashes, links, proposal, reading>>

\* Variant: a freed area does not link to the rest of the list.
DeleteNodeUnlinked(n) ==
  /\ task.at = "reap" /\ n \in task.todo
  /\ task' = [task EXCEPT !.todo = @ \ {n}]
  /\ IF AreaOf(n) = Nil
     THEN UNCHANGED <<disk, header, links>>
     ELSE /\ disk' = [disk EXCEPT ![AreaOf(n)] = FreeCell(Nil)]
          /\ links' = add_to_free_list_cache(AreaOf(n), Nil)
          /\ header' = [header EXCEPT !.free = AreaOf(n)]
  /\ UNCHANGED <<memory, loc, diskHeader, open, crashes, cache, views>>

\* delete_node: a node that never got an area is dropped; otherwise its area is
\* overwritten with a FreeArea at once, its link is cached, and it heads the list
\* in memory.
DeleteNode(n) ==
  /\ task.at = "reap" /\ n \in task.todo
  /\ task' = [task EXCEPT !.todo = @ \ {n}]
  /\ IF AreaOf(n) = Nil
     THEN UNCHANGED <<disk, header, links>>
     ELSE /\ disk' = [disk EXCEPT ![AreaOf(n)] = FreeCell(header.free)]
          /\ links' = add_to_free_list_cache(AreaOf(n), header.free)
          /\ header' = [header EXCEPT !.free = AreaOf(n)]
  /\ UNCHANGED <<memory, loc, diskHeader, open, crashes, cache, views>>

EndReap ==
  /\ task.at = "reap" /\ task.todo = {}
  /\ task' = Idle
  /\ UNCHANGED <<memory, loc, disk, header, diskHeader, open, crashes, caches, views>>

-----------------------------------------------------------------------------
(* Reads: read_node_from_disk() and the caches of FileBacked               *)

\* A proposal of the current revision refers to its nodes without holding it.
Propose ==
  /\ open /\ Proposals /\ proposal = {} /\ NodesOf(Current.trie) # {}
  /\ proposal' = NodesOf(Current.trie)
  /\ UNCHANGED <<memory, loc, disk, header, diskHeader, task, open, crashes, caches, reading, outlived>>

DropProposal ==
  /\ proposal # {} /\ reading.by # TheProposal
  /\ proposal' = {}
  /\ UNCHANGED <<memory, loc, disk, header, diskHeader, task, open, crashes, caches, reading, outlived>>

\* The nodes that holder by can read.
NodesSeenBy(by) ==
  IF by = TheProposal THEN proposal
  ELSE UNION {NodesOf(revisions[i].trie) : i \in {j \in DOMAIN revisions : revisions[j].no = by}}

\* read_cached_node misses, and the area is read and parsed; what is not a node is
\* an error and changes nothing.  A hit changes nothing either.
ReadNode(by, n) ==
  /\ Strategy # "off" /\ reading = NoRead
  /\ n \in NodesSeenBy(by) /\ loc[n].st = "persisted"
  /\ cache[AreaOf(n)] = NoNode /\ disk[AreaOf(n)].kind = "node"
  /\ reading' = [by |-> by, area |-> AreaOf(n), got |-> disk[AreaOf(n)].node]
  /\ UNCHANGED <<memory, loc, disk, header, diskHeader, task, open, crashes, caches, proposal, outlived>>

\* cache_node, without looking at what happened since the read.
CacheNode ==
  /\ reading # NoRead
  /\ cache' = IF Strategy = "All" \/ reading.got[1] = "root"
              THEN [cache EXCEPT ![reading.area] = reading.got] ELSE cache
  /\ reading' = NoRead
  /\ UNCHANGED <<memory, loc, disk, header, diskHeader, task, open, crashes, links, proposal, outlived>>

\* An entry leaves a cache: it is the least recently used one, or take_cached_node
\* takes it for a proposal that replaces the node.
Evict(a) ==
  /\ \/ cache[a] # NoNode /\ cache' = [cache EXCEPT ![a] = NoNode] /\ UNCHANGED links
     \/ links[a] # Missing /\ links' = [links EXCEPT ![a] = Missing] /\ UNCHANGED cache
  /\ UNCHANGED <<memory, loc, disk, header, diskHeader, task, open, crashes, views>>

-----------------------------------------------------------------------------
(* A process crash and the next open: RevisionManager::new                 *)

FileHasAreas == \E a \in Areas : disk[a] # Unwritten

\* A header that is there is read back; a file that ends before the end of the
\* header is taken for a new database.
CrashAndReopen ==
  /\ open /\ crashes < MaxCrashes
  /\ diskHeader.written \/ ~FileHasAreas
  /\ crashes' = crashes + 1
  /\ header' = IF diskHeader.written THEN diskHeader ELSE EmptyHeader
  /\ revisions' = <<[no |-> header'.root, trie |-> header'.trie, deleted |-> {}]>>
  /\ loc' = [n \in Nodes |-> IF n \in NodesOf(header'.trie) THEN loc[n] ELSE InMemory]
  /\ held' = {} /\ pendingReaps' = <<>> /\ task' = Idle
  /\ cache' = EmptyCache /\ links' = EmptyLinks
  /\ proposal' = {} /\ reading' = NoRead /\ outlived' = FALSE
  /\ UNCHANGED <<commits, disk, diskHeader, open>>

\* A file with areas but no header fails NodeStoreHeader::validate.
CrashAndFail ==
  /\ open /\ crashes < MaxCrashes
  /\ ~diskHeader.written /\ FileHasAreas
  /\ crashes' = crashes + 1
  /\ open' = FALSE
  /\ held' = {} /\ pendingReaps' = <<>> /\ task' = [Idle EXCEPT !.at = "closed"]
  /\ UNCHANGED <<revisions, commits, loc, disk, header, diskHeader, caches, views>>

\* Nothing is left to write or reap, or there is no database to open.
AtRest ==
  /\ \/ task.at = "idle" /\ pendingReaps = <<>> /\ Current.no = header.root
     \/ ~open
  /\ UNCHANGED vars

\* The tries a commit may propose, leaf by leaf.
NewTries == {t \in [Slots -> {0, commits + 1} \cup {Current.trie[s] : s \in Slots}] :
               \A s \in Leaves : t[s] \in {Current.trie[s], commits + 1, 0}}

Next ==
  /\ UNCHANGED scenario
  /\ \/ \E t \in NewTries : Commit(t)
     \/ \E r \in 0..commits : Hold(r) \/ Release(r)
     \/ StartPersist \/ FlushFreelist \/ FlushHeader
     \/ \E n \in Nodes : Allocate(n) \/ WriteNode(n) \/ DeleteNode(n)
     \/ StartReap \/ EndReap
     \/ Propose \/ DropProposal \/ CacheNode
     \/ \E by \in held \cup {TheProposal}, n \in Nodes : ReadNode(by, n)
     \/ \E a \in Areas : Evict(a)
     \/ CrashAndReopen \/ CrashAndFail \/ AtRest

Spec == Init /\ [][Next]_vars

-----------------------------------------------------------------------------
(* Properties                                                              *)

\* The areas met when following the links of a free list, with the last stop
\* (Nil for a list that ends properly).
FreeChain(head) ==
  LET walk[i \in 0..MaxAreas] ==
        IF i = 0 THEN <<head>>
        ELSE LET w == walk[i - 1]
                 a == w[Len(w)] IN
             IF a = Nil \/ disk[a].kind # "free" THEN w ELSE Append(w, disk[a].next)
  IN walk[MaxAreas]

Elements(s) == {s[i] : i \in DOMAIN s}
FreeAreas(h) == Elements(FreeChain(h.free)) \ {Nil}

\* A free list ends, stays inside the file's high-water mark, and shares no area
\* with the nodes of the trie.
SoundFreeList(h, used) ==
  LET chain == FreeChain(h.free)
      areas == Elements(chain) \ {Nil} IN
    chain[Len(chain)] = Nil /\ areas \subseteq 1..h.size /\ areas \cap used = {}

\* The nodes of t can be read back from the disk below the high-water mark.
OnDisk(t, size) ==
  \A n \in NodesOf(t) : AreaOf(n) \in 1..size /\ disk[AreaOf(n)] = NodeCell(n)

\* What a crash at this instant leaves is a database: the trie the header on disk
\* names is there in full, and its free list is well formed and disjoint from
\* it, although nodes, free areas, free lists and header are separate writes.
CrashImageSound ==
  diskHeader.written =>
    /\ OnDisk(diskHeader.trie, diskHeader.size)
    /\ SoundFreeList(diskHeader, {AreaOf(n) : n \in NodesOf(diskHeader.trie)})

Retained == UNION {NodesOf(revisions[i].trie) : i \in DOMAIN revisions}

\* Every node of every retained revision can be read, and reading it gives that
\* node: it is in memory, or its area still holds it, and the node cache has either
\* nothing or this node for the area, although areas are reused and readers cache
\* what they read some time before.  The cache is only right while no proposal has
\* outlived the revisions whose nodes it refers to.
RetainedReadable ==
  open => \A n \in Retained : loc[n].st = "persisted" =>
            /\ disk[AreaOf(n)] = NodeCell(n)
            /\ outlived \/ cache[AreaOf(n)] \in {NoNode, n}

\* The allocator's free list never offers an area that a retained revision or the
\* write in progress uses, no two live nodes share one, and the links the free-list
\* cache has for the areas of the list are the ones on disk.
AllocatorSound ==
  LET live == {n \in Retained \cup NodesOf(task.trie) : loc[n].st # "unpersisted"} IN
    open => /\ SoundFreeList(header, {AreaOf(n) : n \in live})
            /\ \A m, n \in live : AreaOf(m) = AreaOf(n) => m = n
            /\ \A a \in FreeAreas(header) : links[a] \in {Missing, disk[a].next}

\* Nodes whose areas a deleted list has still to free.
Doomed == (UNION ({revisions[i].deleted : i \in DOMAIN revisions} \cup Elements(pendingReaps)))
          \cup (IF task.at = "reap" THEN task.todo ELSE {})

\* Until a crash, space is never lost: each area below the high-water mark is free,
\* holds a retained node, or holds a node some deleted list still will free.
NoLeak ==
  crashes = 0 =>
    1..header.size = FreeAreas(header) \cup
                     ({AreaOf(n) : n \in Retained \cup Doomed \cup NodesOf(task.trie)} \ {Nil})

-----------------------------------------------------------------------------
(* Statements of the documentation that the code does not keep             *)

\* A process crash leaves "the system in a valid state" (firewood/src/lib.rs): the database
\* can be opened again.
AlwaysReopens == open
=============================================================================
