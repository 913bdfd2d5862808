---------------------------- MODULE PersistWorker ----------------------------
(***************************************************************************)
(* Deferred persistence of committed revisions: the commit path of         *)
(* RevisionManager (manager.rs), which runs in a client thread under the   *)
(* write lock of the revisions queue, and the background thread of         *)
(* PersistWorker (persist_worker.rs), which share one PersistChannel.      *)
(*                                                                         *)
(* Revisions are numbered by their position in the history: 0 is the one   *)
(* found on disk when the database was opened, and the in-memory queue is  *)
(* the interval front..back.  Commits are serialised by the write lock and *)
(* close() owns the database, so one client thread stands for all of them; *)
(* readers that keep a revision alive are in "held".                       *)
(***************************************************************************)
EXTENDS Integers, Sequences, FiniteSets

CONSTANTS MaxPersistenceGap,  \* RevisionManagerConfig::max_persistence_gap
          MaxRevisions,       \* RevisionManagerConfig::max_revisions
          MaxCommits,         \* bound: commits of one run
          Faults,             \* which faults the environment may inject
          Histories           \* histories of one run: which revisions are the empty trie

ASSUME GapAssumption == MaxPersistenceGap \in Nat \ {0}
\* RevisionManager::new refuses max_revisions <= max_persistence_gap
ASSUME RevisionsAssumption == MaxRevisions \in Nat /\ MaxRevisions > MaxPersistenceGap
ASSUME BoundAssumption == MaxCommits \in Nat
ASSUME FaultsAssumption == Faults \subseteq {"io", "rootstore", "panic"}
\* a commit that changes nothing makes no revision, so no two in a row are empty
ASSUME HistoriesAssumption ==
  \A e \in Histories : e \subseteq Nat /\ \A r \in e : r + 1 \notin e

VARIABLES
  permits,            \* PersistChannelState.permits_available
  shutdown,           \* PersistChannelState.shutdown
  pendingReaps,       \* PersistChannelState.pending_reaps
  latestCommitted,    \* PersistChannelState.latest_committed
  committerParked,    \* the client waits on commit_not_full
  loopParked,         \* the background thread waits on persist_ready
  error,              \* SharedState.error
  persistOnShutdown,  \* SharedState.persist_on_shutdown
  rootStore,          \* SharedState.root_store is Some: archival mode
  handleTaken,        \* PersistWorker.handle was taken and joined
  loop,               \* where the background thread is
  loopResult,         \* how its current cycle went
  guard,              \* its PersistDataGuard
  client,             \* where the client thread is
  outcome,            \* result of the client's last call
  front, back,        \* oldest and newest revision of the queue
  held,               \* revisions some reader keeps an Arc to
  submitted,          \* newest revision push() accepted
  persisted,          \* revision whose root is in the on-disk header
  freed,              \* revisions whose deleted nodes were given to the free lists
  roots,              \* revisions recorded in the RootStore
  empty               \* revisions of the empty trie: no root_hash, no root_address

channel == <<permits, shutdown, pendingReaps, latestCommitted>>
parked  == <<committerParked, loopParked>>
shared  == <<error, persistOnShutdown, rootStore, empty>>
bg      == <<loop, loopResult, guard>>
queue   == <<front, back>>
disk    == <<persisted, freed, roots>>
vars == <<channel, parked, shared, handleTaken, bg, client, outcome, queue, held,
          submitted, disk>>

NoRevision == -1
EmptyGuard == [release |-> 0, reaps |-> <<>>, revision |-> NoRevision]

\* PersistWorker::new
PersistInterval == (MaxPersistenceGap + 1) \div 2
PersistPermitsThreshold == MaxPersistenceGap - PersistInterval

\* Revisions::len() and the Arc clones that make Arc::try_unwrap fail
QueueLen == back - front + 1
Referenced(r) == r \in held \/ r = latestCommitted \/ r = guard.revision

Init ==
  /\ permits = MaxPersistenceGap /\ shutdown = FALSE
  /\ pendingReaps = <<>> /\ latestCommitted = NoRevision
  /\ committerParked = FALSE /\ loopParked = FALSE
  /\ error = "none" /\ persistOnShutdown = NoRevision /\ handleTaken = FALSE
  /\ loop = "pop" /\ loopResult = "ok" /\ guard = EmptyGuard
  /\ client = "idle" /\ outcome = "none"
  /\ front = 0 /\ back = 0 /\ held = {} /\ submitted = 0
  /\ persisted = 0 /\ freed = {}
  /\ rootStore \in BOOLEAN
  /\ empty \in IF rootStore THEN Histories ELSE {{}}     \* only add_root looks at it
  /\ roots = IF rootStore THEN {0} \ empty ELSE {}

-----------------------------------------------------------------------------
(* The client thread: commit_critical_section and close.                   *)

\* The persist worker has failed: the commit is refused.
CommitRefused ==
  /\ client = "idle" /\ back < MaxCommits /\ error # "none"
  /\ outcome' = "error"
  /\ UNCHANGED <<channel, parked, shared, handleTaken, bg, client, queue, held, submitted, disk>>

\* Variant: commit does not look at the worker's error.
CommitStartUnchecked ==
  /\ client = "idle" /\ back < MaxCommits
  /\ client' = "reap" /\ outcome' = "none"
  /\ UNCHANGED <<channel, parked, shared, handleTaken, bg, queue, held, submitted, disk>>

CommitStart ==
  /\ client = "idle" /\ back < MaxCommits /\ error = "none"
  /\ client' = "reap" /\ outcome' = "none"
  /\ UNCHANGED <<channel, parked, shared, handleTaken, bg, queue, held, submitted, disk>>

\* Variants: plausible mistakes in the definition that follows, which the
\* properties tell from the code.  Here: reaping one revision too early.
ReapOldestEarly ==
  /\ client = "reap" /\ QueueLen >= MaxRevisions - 1 /\ ~Referenced(front) /\ ~shutdown
  /\ front' = front + 1
  /\ IF rootStore THEN UNCHANGED <<pendingReaps, loopParked>>
     ELSE pendingReaps' = Append(pendingReaps, front) /\ loopParked' = FALSE
  /\ UNCHANGED <<permits, shutdown, latestCommitted, committerParked, shared, handleTaken, bg,
                 client, outcome, back, held, submitted, disk>>

\* One iteration of the reaping loop: pop the oldest revision and hand it to
\* the worker, which drops it in archival mode.
ReapOldest ==
  /\ client = "reap" /\ QueueLen >= MaxRevisions /\ ~Referenced(front)
  /\ front' = front + 1
  /\ \/ /\ rootStore
        /\ UNCHANGED <<pendingReaps, loopParked, client>>
     \/ /\ ~rootStore /\ ~shutdown
        /\ pendingReaps' = Append(pendingReaps, front)
        /\ loopParked' = FALSE
        /\ UNCHANGED client
     \/ /\ ~rootStore /\ shutdown
        /\ client' = "reapJoin"
        /\ UNCHANGED <<pendingReaps, loopParked>>
  /\ UNCHANGED <<permits, shutdown, latestCommitted, committerParked, shared, handleTaken, bg,
                 outcome, back, held, submitted, disk>>

\* The queue is short enough, or the oldest revision is still referenced.
ReapDone ==
  /\ client = "reap" /\ (QueueLen < MaxRevisions \/ Referenced(front))
  /\ client' = "push"
  /\ UNCHANGED <<channel, parked, shared, handleTaken, bg, outcome, queue, held, submitted, disk>>

\* push(): no permit is left, the committer waits for one.
PushParks ==
  /\ client = "push" /\ permits = 0 /\ ~shutdown
  /\ client' = "parked" /\ committerParked' = TRUE
  /\ UNCHANGED <<channel, loopParked, shared, handleTaken, bg, outcome, queue, held, submitted, disk>>

CommitterWakes ==
  /\ client = "parked" /\ ~committerParked
  /\ client' = "push"
  /\ UNCHANGED <<channel, parked, shared, handleTaken, bg, outcome, queue, held, submitted, disk>>

\* Variant: push() with the wake-up threshold off by one.
PushOkLate ==
  /\ client = "push" /\ permits > 0 /\ ~shutdown
  /\ latestCommitted' = back + 1 /\ submitted' = back + 1
  /\ permits' = permits - 1
  /\ loopParked' = (loopParked /\ permits' >= PersistPermitsThreshold)
  /\ client' = "publish"
  /\ UNCHANGED <<shutdown, pendingReaps, committerParked, shared, handleTaken, bg, outcome,
                 queue, held, disk>>

\* Variant: push() does not wait for a permit.
PushOkUnblocked ==
  /\ client \in {"push", "parked"} /\ ~shutdown
  /\ latestCommitted' = back + 1 /\ submitted' = back + 1
  /\ permits' = IF permits = 0 THEN 0 ELSE permits - 1
  /\ loopParked' = (loopParked /\ permits' > PersistPermitsThreshold)
  /\ client' = "publish"
  /\ UNCHANGED <<shutdown, pendingReaps, committerParked, shared, handleTaken, bg, outcome,
                 queue, held, disk>>

PushOk ==
  /\ client = "push" /\ permits > 0 /\ ~shutdown
  /\ latestCommitted' = back + 1
  /\ submitted' = back + 1
  /\ permits' = permits - 1
  /\ loopParked' = (loopParked /\ permits' > PersistPermitsThreshold)
  /\ client' = "publish"
  /\ UNCHANGED <<shutdown, pendingReaps, committerParked, shared, handleTaken, bg, outcome,
                 queue, held, disk>>

PushShutdown ==
  /\ client = "push" /\ shutdown
  /\ client' = "pushJoin"
  /\ UNCHANGED <<channel, parked, shared, handleTaken, bg, outcome, queue, held, submitted, disk>>

\* The new revision enters the queue and the commit returns.
Publish ==
  /\ client = "publish"
  /\ back' = back + 1
  /\ client' = "idle" /\ outcome' = "ok"
  /\ UNCHANGED <<channel, parked, shared, handleTaken, bg, front, held, submitted, disk>>

\* join_handle() and check_error() after the channel turned out to be closed.
JoinPanics ==
  /\ client \in {"reapJoin", "pushJoin"} /\ loop = "exited"
  /\ loopResult = "panic" /\ ~handleTaken
  /\ handleTaken' = TRUE
  /\ client' = "idle" /\ outcome' = "panic"
  /\ UNCHANGED <<channel, parked, shared, bg, queue, held, submitted, disk>>

JoinError ==
  /\ client \in {"reapJoin", "pushJoin"} /\ loop = "exited" /\ error # "none"
  /\ handleTaken' = TRUE
  /\ client' = "idle" /\ outcome' = "error"
  /\ UNCHANGED <<channel, parked, shared, bg, queue, held, submitted, disk>>

\* No handle left to join and no error recorded: reap() and submit_revision()
\* return Ok and the commit goes on.
JoinSilent ==
  /\ client \in {"reapJoin", "pushJoin"} /\ loop = "exited" /\ error = "none"
  /\ loopResult = "panic" => handleTaken
  /\ handleTaken' = TRUE
  /\ client' = IF client = "reapJoin" THEN "reap" ELSE "publish"
  /\ UNCHANGED <<channel, parked, shared, bg, outcome, queue, held, submitted, disk>>

CloseSet ==
  /\ client = "idle"
  /\ persistOnShutdown' = back
  /\ client' = "closing"
  /\ UNCHANGED <<channel, parked, error, rootStore, empty, handleTaken, bg, outcome, queue, held, submitted, disk>>

CloseSignal ==
  /\ client = "closing"
  /\ shutdown' = TRUE /\ loopParked' = FALSE /\ committerParked' = FALSE
  /\ client' = "closeJoin"
  /\ UNCHANGED <<permits, pendingReaps, latestCommitted, shared, handleTaken, bg, outcome,
                 queue, held, submitted, disk>>

CloseJoin ==
  /\ client = "closeJoin" /\ loop = "exited"
  /\ outcome' = IF loopResult = "panic" /\ ~handleTaken THEN "panic"
                ELSE IF error # "none" THEN "error" ELSE "ok"
  /\ handleTaken' = TRUE
  /\ client' = "closed"
  /\ UNCHANGED <<channel, parked, shared, bg, queue, held, submitted, disk>>

\* Readers take and drop references to retained revisions.
Hold(r) ==
  /\ client # "closed" /\ r \in front..back
  /\ held' = held \cup {r}
  /\ UNCHANGED <<channel, parked, shared, handleTaken, bg, client, outcome, queue, submitted, disk>>

Release(r) ==
  /\ r \in held
  /\ held' = held \ {r}
  /\ UNCHANGED <<channel, parked, shared, handleTaken, bg, client, outcome, queue, submitted, disk>>

-----------------------------------------------------------------------------
(* The background thread: PersistLoop::run.                                *)

\* pop(): the channel was shut down, event_loop leaves its while loop.
PopShutdown ==
  /\ loop = "pop" /\ shutdown
  /\ loop' = "shutdown"
  /\ UNCHANGED <<channel, parked, shared, handleTaken, loopResult, guard, client, outcome, queue,
                 held, submitted, disk>>

ShouldPersist == permits <= PersistPermitsThreshold /\ latestCommitted # NoRevision

PopPersist ==
  /\ loop = "pop" /\ ~shutdown /\ ShouldPersist
  /\ guard' = [release  |-> MaxPersistenceGap - permits,
               reaps    |-> pendingReaps,
               revision |-> latestCommitted]
  /\ pendingReaps' = <<>> /\ latestCommitted' = NoRevision
  /\ loop' = "reap"
  /\ UNCHANGED <<permits, shutdown, parked, shared, handleTaken, loopResult, client, outcome,
                 queue, held, submitted, disk>>

PopReaps ==
  /\ loop = "pop" /\ ~shutdown /\ ~ShouldPersist /\ pendingReaps # <<>>
  /\ guard' = [release |-> 0, reaps |-> pendingReaps, revision |-> NoRevision]
  /\ pendingReaps' = <<>>
  /\ loop' = "reap"
  /\ UNCHANGED <<permits, shutdown, latestCommitted, parked, shared, handleTaken, loopResult,
                 client, outcome, queue, held, submitted, disk>>

PopParks ==
  /\ loop = "pop" /\ ~shutdown /\ ~ShouldPersist /\ pendingReaps = <<>>
  /\ loop' = "parked" /\ loopParked' = TRUE
  /\ UNCHANGED <<channel, committerParked, shared, handleTaken, loopResult, guard, client,
                 outcome, queue, held, submitted, disk>>

LoopWakes ==
  /\ loop = "parked" /\ ~loopParked
  /\ loop' = "pop"
  /\ UNCHANGED <<channel, parked, shared, handleTaken, loopResult, guard, client, outcome, queue,
                 held, submitted, disk>>

\* PersistLoop::reap of the next pending revision.
ReapNext ==
  /\ loop = "reap" /\ guard.reaps # <<>>
  /\ freed' = freed \cup {Head(guard.reaps)}
  /\ guard' = [guard EXCEPT !.reaps = Tail(@)]
  /\ UNCHANGED <<channel, parked, shared, handleTaken, loop, loopResult, client, outcome, queue,
                 held, submitted, persisted, roots>>

\* It fails, before or after some of the revision's nodes were freed; the
\* rest of the cycle is abandoned and its revision dropped.
ReapFails ==
  /\ loop = "reap" /\ guard.reaps # <<>> /\ "io" \in Faults
  /\ freed' \in {freed, freed \cup {Head(guard.reaps)}}
  /\ loopResult' = "FileIo" /\ loop' = "drop"
  /\ guard' = [guard EXCEPT !.reaps = <<>>, !.revision = NoRevision]
  /\ UNCHANGED <<channel, parked, shared, handleTaken, client, outcome, queue, held, submitted,
                 persisted, roots>>

ReapsDone ==
  /\ loop = "reap" /\ guard.reaps = <<>>
  /\ loop' = IF guard.revision # NoRevision THEN "persist" ELSE "drop"
  /\ UNCHANGED <<channel, parked, shared, handleTaken, loopResult, guard, client, outcome, queue,
                 held, submitted, disk>>

\* Variant: the write on shutdown forgets the RootStore.
PersistUnrecorded ==
  /\ loop \in {"persist", "finalPersist"}
  /\ persisted' = guard.revision
  /\ IF rootStore /\ loop = "persist"
     THEN loop' = "rootStore" /\ UNCHANGED guard
     ELSE /\ loop' = (IF loop = "persist" THEN "drop" ELSE "exit")
          /\ guard' = [guard EXCEPT !.revision = NoRevision]
  /\ UNCHANGED <<channel, parked, shared, handleTaken, loopResult, client, outcome, queue, held,
                 submitted, freed, roots>>

\* persist_to_disk: in a cycle, or for the last revision on shutdown.
Persist ==
  /\ loop \in {"persist", "finalPersist"}
  /\ persisted' = guard.revision
  /\ IF rootStore
     THEN loop' = (IF loop = "persist" THEN "rootStore" ELSE "finalRootStore") /\ UNCHANGED guard
     ELSE /\ loop' = (IF loop = "persist" THEN "drop" ELSE "exit")
          /\ guard' = [guard EXCEPT !.revision = NoRevision]
  /\ UNCHANGED <<channel, parked, shared, handleTaken, loopResult, client, outcome, queue, held,
                 submitted, freed, roots>>

PersistFails ==
  /\ loop \in {"persist", "finalPersist"} /\ "io" \in Faults
  /\ loopResult' = "FileIo"
  /\ loop' = IF loop = "persist" THEN "drop" ELSE "fail"
  /\ guard' = [guard EXCEPT !.revision = NoRevision]
  /\ UNCHANGED <<channel, parked, shared, handleTaken, client, outcome, queue, held, submitted,
                 disk>>

\* maybe_save_to_root_store: add_root, but for the empty trie, which has neither
\* a root hash nor an address.
SaveRoot ==
  /\ loop \in {"rootStore", "finalRootStore"}
  /\ roots' = roots \cup ({guard.revision} \ empty)
  /\ loop' = IF loop = "rootStore" THEN "drop" ELSE "exit"
  /\ guard' = [guard EXCEPT !.revision = NoRevision]
  /\ UNCHANGED <<channel, parked, shared, handleTaken, loopResult, client, outcome, queue, held,
                 submitted, persisted, freed>>

SaveRootFails ==
  /\ loop \in {"rootStore", "finalRootStore"} /\ guard.revision \notin empty
  /\ "rootstore" \in Faults
  /\ loopResult' = "RootStore"
  /\ loop' = IF loop = "rootStore" THEN "drop" ELSE "fail"
  /\ guard' = [guard EXCEPT !.revision = NoRevision]
  /\ UNCHANGED <<channel, parked, shared, handleTaken, client, outcome, queue, held, submitted,
                 disk>>

\* A panic while working on a cycle unwinds through the guard and the loop.
Panics ==
  /\ loop \in {"reap", "persist", "rootStore", "finalPersist", "finalRootStore"}
  /\ "panic" \in Faults
  /\ loopResult' = "panic"
  /\ loop' = IF loop \in {"finalPersist", "finalRootStore"} THEN "exit" ELSE "drop"
  /\ guard' = [guard EXCEPT !.reaps = <<>>, !.revision = NoRevision]
  /\ UNCHANGED <<channel, parked, shared, handleTaken, client, outcome, queue, held, submitted,
                 disk>>

\* A variant that tells nobody.
DropGuardSilent ==
  /\ loop = "drop"
  /\ permits' = IF permits + guard.release > MaxPersistenceGap
                THEN MaxPersistenceGap ELSE permits + guard.release
  /\ guard' = EmptyGuard
  /\ loop' = CASE loopResult = "ok" -> "pop" [] loopResult = "panic" -> "exit" [] OTHER -> "fail"
  /\ UNCHANGED <<shutdown, pendingReaps, latestCommitted, parked, shared, handleTaken,
                 loopResult, client, outcome, queue, held, submitted, disk>>

\* Drop of PersistDataGuard: give the permits back, whatever the result was.
DropGuard ==
  /\ loop = "drop"
  /\ permits' = IF permits + guard.release > MaxPersistenceGap
                THEN MaxPersistenceGap ELSE permits + guard.release
  /\ committerParked' = (committerParked /\ guard.release = 0)
  /\ guard' = EmptyGuard
  /\ loop' = CASE loopResult = "ok" -> "pop" [] loopResult = "panic" -> "exit" [] OTHER -> "fail"
  /\ UNCHANGED <<shutdown, pendingReaps, latestCommitted, loopParked, shared, handleTaken,
                 loopResult, client, outcome, queue, held, submitted, disk>>

\* run(): the error is recorded.
RecordError ==
  /\ loop = "fail"
  /\ error' = loopResult
  /\ loop' = "exit"
  /\ UNCHANGED <<channel, parked, persistOnShutdown, rootStore, empty, handleTaken, loopResult,
                 guard, client, outcome, queue, held, submitted, disk>>

\* Variant: the last write waits for the persist threshold, like the loop.
FinalCheckThreshold ==
  /\ loop = "shutdown"
  /\ IF persistOnShutdown # NoRevision /\ permits <= PersistPermitsThreshold
     THEN /\ loop' = "finalPersist"
          /\ guard' = [release |-> 0, reaps |-> <<>>, revision |-> persistOnShutdown]
     ELSE loop' = "exit" /\ UNCHANGED guard
  /\ UNCHANGED <<channel, parked, shared, handleTaken, loopResult, client, outcome, queue, held,
                 submitted, disk>>

\* After the loop: persist the last revision if commits are outstanding.
FinalCheck ==
  /\ loop = "shutdown"
  /\ IF persistOnShutdown # NoRevision /\ permits # MaxPersistenceGap
     THEN /\ loop' = "finalPersist"
          /\ guard' = [release |-> 0, reaps |-> <<>>, revision |-> persistOnShutdown]
     ELSE loop' = "exit" /\ UNCHANGED guard
  /\ UNCHANGED <<channel, parked, shared, handleTaken, loopResult, client, outcome, queue, held,
                 submitted, disk>>

\* Drop of PersistLoop: close the channel.
ExitLoop ==
  /\ loop = "exit"
  /\ shutdown' = TRUE /\ loopParked' = FALSE /\ committerParked' = FALSE
  /\ loop' = "exited"
  /\ UNCHANGED <<permits, pendingReaps, latestCommitted, shared, handleTaken, loopResult, guard,
                 client, outcome, queue, held, submitted, disk>>

-----------------------------------------------------------------------------
Commit == \/ CommitRefused \/ CommitStart \/ ReapOldest \/ ReapDone
          \/ PushParks \/ CommitterWakes \/ PushOk \/ PushShutdown \/ Publish
          \/ JoinPanics \/ JoinError \/ JoinSilent
Close == CloseSet \/ CloseSignal \/ CloseJoin
Readers == \E r \in front..back : Hold(r) \/ Release(r)
PersistLoop == \/ PopShutdown \/ PopPersist \/ PopReaps \/ PopParks \/ LoopWakes
               \/ ReapNext \/ ReapFails \/ ReapsDone \/ Persist \/ PersistFails
               \/ SaveRoot \/ SaveRootFails \/ Panics \/ DropGuard
               \/ RecordError \/ FinalCheck \/ ExitLoop
\* The database is closed and the thread has ended: nothing is left to do.
Terminated == client = "closed" /\ loop = "exited" /\ UNCHANGED vars
Next == Commit \/ Close \/ Readers \/ PersistLoop \/ Terminated

Spec == Init /\ [][Next]_vars

\* The background thread runs, and a call that was made is executed; whether
\* the application commits or closes again is its own choice.
InCall == client \notin {"idle", "closed"}
FairSpec == /\ Spec
            /\ WF_vars(PersistLoop)
            /\ WF_vars(InCall /\ (Commit \/ Close))
-----------------------------------------------------------------------------
(* Properties                                                              *)

LoopPoints == {"pop", "parked", "reap", "persist", "rootStore", "drop", "fail", "shutdown",
               "finalPersist", "finalRootStore", "exit", "exited"}
ClientPoints == {"idle", "reap", "push", "parked", "publish", "reapJoin", "pushJoin",
                 "closing", "closeJoin", "closed"}
GuardType ==
  [release : 0..MaxPersistenceGap, reaps : Seq(Nat), revision : Nat \cup {NoRevision}]

\* Every variable has the type of the field it models; permits_available
\* stays within 0..max_permits, so neither `permits - 1` in push() nor
\* `max_permits - permits` in pop() underflows.
TypeOK ==
  /\ permits \in 0..MaxPersistenceGap
  /\ shutdown \in BOOLEAN /\ committerParked \in BOOLEAN /\ loopParked \in BOOLEAN
  /\ handleTaken \in BOOLEAN /\ rootStore \in BOOLEAN
  /\ pendingReaps \in Seq(Nat)
  /\ latestCommitted \in Nat \cup {NoRevision}
  /\ persistOnShutdown \in Nat \cup {NoRevision}
  /\ error \in {"none", "FileIo", "RootStore"}
  /\ loop \in LoopPoints /\ client \in ClientPoints
  /\ loopResult \in {"ok", "FileIo", "RootStore", "panic"}
  /\ guard \in GuardType
  /\ outcome \in {"none", "ok", "error", "panic"}
  /\ front \in Nat /\ back \in Nat /\ submitted \in Nat /\ persisted \in Nat
  /\ held \subseteq Nat /\ freed \subseteq Nat /\ roots \subseteq Nat
  /\ empty \subseteq Nat

\* Commits that are accepted but not yet durable.
Outstanding == submitted - persisted

\* Permits are a faithful count of what a crash would lose: between two
\* cycles of the background thread the permits taken are exactly the accepted
\* revisions that are not durable yet.  The guard returns what pop() took,
\* not one permit more although commits went on during the write.
PermitsCountOutstanding ==
  loop \in {"pop", "parked", "shutdown"} => MaxPersistenceGap - permits = Outstanding

\* max_persistence_gap bounds how far commits run ahead of the checkpoint as
\* long as persistence works.
GapBounded == loopResult = "ok" => Outstanding <= MaxPersistenceGap

\* The same with persistence failing at any point: the permits which the
\* failed cycle gives back let commits through until the error is noticed, but
\* never more than max_persistence_gap of them.
GapBoundedEver == Outstanding <= 2 * MaxPersistenceGap

\* Crash safety of reaping: nodes are given to the free lists (and overwritten
\* on disk) only if the revision that superseded them is at or before the one
\* the on-disk header names, so a restart never finds its trie overwritten.
ReapedBehindCheckpoint == \A k \in freed : k <= persisted

\* A revision a reader holds, or the background thread is about to write, is
\* never reaped.
HeldNotReaped ==
  /\ \A r \in held : r \in front..back /\ r \notin freed
  /\ guard.revision \notin freed /\ latestCommitted \notin freed

\* The revision the header names only moves forward, and only to a revision
\* that was committed.
CheckpointAdvances ==
  [][persisted' # persisted => persisted' > persisted /\ persisted' <= submitted]_vars

\* close() that returns Ok leaves nothing behind: the newest revision is the
\* one in the header, unless the background thread panicked.
CloseIsDurable ==
  client = "closed" /\ outcome = "ok" /\ loopResult # "panic" => persisted = back

\* Once the worker's error is visible, no commit that starts afterwards changes
\* the queue: the revisions in memory stay what they were.
FailStop ==
  \A b \in 0..MaxCommits : \A f \in 0..b :
    [](client = "idle" /\ error # "none" /\ front = f /\ back = b => [](front = f /\ back = b))

\* In archival mode nothing is ever reaped, and every checkpoint that has a root
\* node is recorded in the RootStore before the next one replaces it in the
\* header, the one of shutdown included.  The RootStore names no revision the
\* header has not reached, and none of the empty trie.
ArchiveComplete ==
  rootStore =>
    /\ freed = {}
    /\ \A r \in roots : r <= persisted /\ r \notin empty
    /\ loopResult = "ok" /\ loop \notin {"rootStore", "finalRootStore"} =>
         persisted \in roots \cup empty

\* No commit, and no close(), is left waiting: neither for a permit nor for the
\* background thread to end.
CallsReturn == InCall ~> ~InCall

\* Once persist_interval commits have accumulated the checkpoint advances,
\* unless persistence fails or the database is closed first.
CheckpointFollows ==
  \A p \in 0..MaxCommits :
    (persisted = p /\ Outstanding >= PersistInterval) ~>
      (persisted > p \/ loopResult # "ok" \/ shutdown)

\* What the module implements: revisions committed within the gap, reclaimed
\* only behind the checkpoint.
Abstract == INSTANCE DeferredDurability
              WITH Gap <- MaxPersistenceGap, committed <- submitted, durable <- persisted,
                   reclaimed <- freed, failed <- (loopResult # "ok")
ImplementsDeferredDurability == Abstract!DSpec

-----------------------------------------------------------------------------
(* The inductive invariant behind the safety properties                    *)

\* The queue is never empty, holds what readers hold, and ends at the last
\* revision push() accepted as long as the background thread is there.
QueueInv ==
  /\ front <= back /\ held \subseteq front..back
  /\ loop # "exited" \/ loopResult = "ok" =>
       submitted = IF client = "publish" THEN back + 1 ELSE back
  /\ latestCommitted \in {NoRevision, submitted}

\* The result of a cycle determines where the background thread can be.
LoopInv ==
  /\ loopResult # "ok" => loop \in {"drop", "fail", "exit", "exited"}
  /\ loop = "fail" => loopResult \in {"FileIo", "RootStore"}
  /\ loop \in {"exit", "exited"} /\ loopResult \in {"FileIo", "RootStore"} => error # "none"
  /\ loopResult = "panic" => "panic" \in Faults

\* Only close(), or the end of the background thread, shuts the channel down.
ShutdownInv ==
  /\ shutdown /\ loop # "exited" => client = "closeJoin"
  /\ loop \in {"shutdown", "finalPersist", "finalRootStore"} => shutdown
  /\ loop \in {"exit", "exited"} /\ loopResult = "ok" => shutdown /\ client \in {"closeJoin", "closed"}
  /\ loop = "exited" => shutdown
  /\ IF client \in {"closing", "closeJoin", "closed"}
     THEN persistOnShutdown = back ELSE persistOnShutdown = NoRevision
  /\ client = "closed" => loop = "exited" /\ (outcome = "ok" => error = "none")

\* Permits taken and revisions outstanding, at every point of a cycle.
PermitInv ==
  /\ loop \in {"pop", "parked", "reap", "persist", "shutdown", "finalPersist"} =>
       Outstanding = MaxPersistenceGap - permits
  /\ loop \in {"rootStore", "drop"} /\ loopResult = "ok" =>
       Outstanding = MaxPersistenceGap - permits - guard.release
  /\ loop = "drop" => Outstanding <= MaxPersistenceGap - permits
  /\ loop \in {"finalRootStore", "exit", "exited"} /\ loopResult = "ok" => Outstanding = 0
  /\ Outstanding >= 0
  /\ loopResult # "ok" => Outstanding <= 2 * MaxPersistenceGap - permits

\* What the guard of a cycle holds.
GuardInv ==
  /\ guard.release <= MaxPersistenceGap - permits
  /\ loop \in {"reap", "persist"} =>
       guard.revision = IF guard.release = 0 THEN NoRevision ELSE persisted + guard.release
  /\ loop = "persist" => guard.release > 0
  /\ loop \in {"rootStore", "finalRootStore"} => guard.revision = persisted
  /\ loop = "finalPersist" => guard.revision = back /\ Outstanding > 0
  /\ loop # "reap" => guard.reaps = <<>>
  /\ loop \notin {"reap", "persist", "rootStore", "finalPersist", "finalRootStore"} =>
       guard.revision = NoRevision
  /\ loop \notin {"reap", "persist", "rootStore", "drop"} => guard.release = 0

\* Revisions on their way to the free lists have left the queue, and as long as
\* they can still be reaped they are covered by the checkpoint.
ReapInv ==
  /\ \A k \in freed : k < front /\ k <= persisted
  /\ \A i \in DOMAIN pendingReaps :
       pendingReaps[i] < front /\ (loopResult = "ok" => pendingReaps[i] <= persisted)
  /\ \A i \in DOMAIN guard.reaps : guard.reaps[i] < front /\ guard.reaps[i] <= persisted
  /\ guard.revision # NoRevision => guard.revision >= front
  /\ latestCommitted # NoRevision => latestCommitted >= front

\* Together: what makes gap bound, permit accounting, crash safety of reaping
\* and durability of close() inductive.
InductiveInv ==
  TypeOK /\ QueueInv /\ LoopInv /\ ShutdownInv /\ PermitInv /\ GuardInv /\ ReapInv

-----------------------------------------------------------------------------
(* Statements of the documentation that the code does not keep             *)

\* "Returns an error if the background thread has shut down"
\* (submit_revision): a commit is published only if push() accepted it.
SubmitErrorsAfterShutdown == client = "publish" => submitted = back + 1
=============================================================================
