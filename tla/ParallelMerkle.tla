--------------------------- MODULE ParallelMerkle ---------------------------
(***************************************************************************)
(* How a batch is applied in parallel (firewood/src/merkle/parallel.rs).   *)
(* The coordinator, the thread that calls apply, turns the root into a     *)
(* branch without a partial path, and sends each operation to a worker for *)
(* the subtrie of the first nibble of its key.  A worker is a job of a     *)
(* pool of threads: it waits for operations until the coordinator drops    *)
(* its sender, then hashes its subtrie and sends it back.  A read from     *)
(* disk may fail in each of them.                                          *)
(***************************************************************************)
EXTENDS MerkleIter

CONSTANTS
    Nibbles,    \* PathComponent::ALL
    Keys,       \* the keys and the prefixes of operations
    StoredKeys, \* the keys the trie may hold before the batch
    PoolSizes,  \* how many threads the pool may have
    MaxOps,     \* bound: the length of a batch
    MaxFaults   \* bound: failing reads

VARIABLES
    root,       \* the root branch; the new root once apply has returned Ok
    disk,       \* the children of the root branch that are read from disk
    coord,      \* the coordinator: "split", "clear", "merge", or "done"
    todo,       \* the nibbles remove_all_entries has still to visit
    result,     \* what apply returned
    workers,    \* by nibble: state of the job, channel to it, subtrie
    responses,  \* the channel from the workers to the coordinator
    idle,       \* threads of the pool without a job
    opsLeft, faultsLeft,
    kv, serial  \* history: the pairs the operations taken so far leave, and the
                \* trie that apply_batch_serial makes of them

vars == <<root, disk, coord, todo, result, workers, responses, idle,
          opsLeft, faultsLeft, kv, serial>>

Ops == {Put(k, "new") : k \in Keys} \cup {Delete(k) : k \in Keys}
         \cup {DeleteRange(k) : k \in Keys}

NoWorker == [state |-> "none", inbox |-> <<>>, sub |-> Nil]

\* Senders that live as long as ParallelMerkle.
SendersDroppedLate == coord = "done"

\* Whether the coordinator has dropped its senders to the workers: when it
\* starts to merge, and with ParallelMerkle itself once apply returns.
SendersDropped == coord \in {"merge", "done"}

\* What an operation does to the pairs of the database.
Effect(pairs, op) ==
    LET kept == {k \in DOMAIN pairs : CASE op.op = "delete" -> k # op.key
                                        [] op.op = "delete_range" -> ~IsPrefix(op.key, k)
                                        [] OTHER -> TRUE}
        keys == IF op.op = "put" THEN kept \cup {op.key} ELSE kept
    IN  [k \in keys |-> IF op.op = "put" /\ k = op.key THEN op.value ELSE pairs[k]]

-----------------------------------------------------------------------------
(* The two ends of apply.                                                  *)

\* force_root with force_branch_for_insert.
ForceRoot(node) ==
    IF node = Nil THEN Branch(<<>>, NoValue, <<>>)
    ELSE IF node.path = <<>> THEN Branch(<<>>, node.value, node.ch)
    ELSE Branch(<<>>, NoValue,
                SetChild(<<>>, node.path[1], [node EXCEPT !.path = Tail(@)]))

\* postprocess_trie.
PostprocessTrie(branch) ==
    LET kids == DOMAIN branch.ch
        only == Min(kids)
    IN  IF kids = {} THEN IF branch.value = NoValue THEN Nil ELSE Leaf(<<>>, branch.value)
        ELSE IF branch.value # NoValue \/ Cardinality(kids) > 1 THEN branch
        ELSE [branch.ch[only] EXCEPT !.path = <<only>> \o @]

Init ==
    /\ kv \in UNION {[d -> {"old"}] : d \in SUBSET StoredKeys}
    /\ serial = Canonical(kv)
    /\ root = ForceRoot(serial)
    /\ disk = IF serial # Nil /\ serial.path = <<>> THEN DOMAIN serial.ch ELSE {}
    /\ coord = "split" /\ todo = {} /\ result = "none"
    /\ workers = [n \in Nibbles |-> NoWorker]
    /\ responses = <<>> /\ idle \in PoolSizes
    /\ opsLeft = MaxOps /\ faultsLeft = MaxFaults

-----------------------------------------------------------------------------
(* The coordinator.                                                        *)

Return(outcome) == coord' = "done" /\ result' = outcome

\* A read from disk fails.
Fault == faultsLeft > 0 /\ faultsLeft' = faultsLeft - 1

\* create_worker: the subtrie leaves the root branch for the new job.
CreateWorker(n, op) ==
    /\ workers' = [workers EXCEPT ![n] =
          [state |-> "queued", inbox |-> <<op>>,
           sub |-> IF n \in DOMAIN root.ch THEN root.ch[n] ELSE Nil]]
    /\ root' = [root EXCEPT !.ch = SetChild(@, n, Nil)]
    /\ disk' = disk \ {n}
    /\ UNCHANGED <<coord, result, responses, faultsLeft>>

\* create_worker when the root of the subtrie cannot be read.
CreateWorkerFails(n) ==
    /\ n \in disk
    /\ Fault
    /\ Return("FileIoError")
    /\ UNCHANGED <<workers, root, disk, responses>>

\* find_fileio_error: what apply returns when a worker no longer receives.
FindFileIoError ==
    IF \E i \in DOMAIN responses : ~responses[i].ok THEN "FileIoError" ELSE "SendError"

\* worker, then send.
SendTo(n, op) ==
    CASE workers[n].state = "none" -> CreateWorker(n, op) \/ CreateWorkerFails(n)
      [] workers[n].state = "ended" ->
            /\ Return(FindFileIoError)
            /\ responses' = <<>>
            /\ UNCHANGED <<workers, root, disk, faultsLeft>>
      [] OTHER ->
            /\ workers' = [workers EXCEPT ![n].inbox = Append(@, op)]
            /\ UNCHANGED <<coord, result, root, disk, responses, faultsLeft>>

\* The next operation of the batch.  An empty key is the root's own.
TakeOp(op) ==
    /\ coord = "split" /\ opsLeft > 0
    /\ opsLeft' = opsLeft - 1
    /\ kv' = Effect(kv, op)
    /\ serial' = Apply(serial, op)
    /\ IF op.key # <<>> THEN SendTo(op.key[1], op) /\ UNCHANGED todo
       ELSE /\ IF op.op = "delete_range"
               THEN coord' = "clear" /\ todo' = Nibbles /\ UNCHANGED root
               ELSE /\ root' = [root EXCEPT !.value =
                                    IF op.op = "put" THEN op.value ELSE NoValue]
                    /\ UNCHANGED <<coord, todo>>
            /\ UNCHANGED <<disk, result, workers, responses, faultsLeft>>

\* An operation that the iterator or check_batch_op refuses.
RefuseOp ==
    /\ coord = "split" /\ opsLeft > 0
    /\ opsLeft' = opsLeft - 1
    /\ Return("InvalidOp")
    /\ UNCHANGED <<root, disk, todo, workers, responses, faultsLeft, kv, serial>>

\* A clearing that forgets what earlier operations of the batch inserted.
NeedsClearingOnDisk(n) == n \in DOMAIN root.ch

\* remove_all_entries: a nibble is visited when the root has a child for it,
\* or a worker does.
NeedsClearing(n) == n \in DOMAIN root.ch \/ workers[n].state # "none"

ClearNext ==
    /\ coord = "clear" /\ todo # {}
    /\ LET n == Min(todo)
       IN  /\ todo' = todo \ {n}
           /\ IF NeedsClearing(n) THEN SendTo(n, DeleteRange(<<>>))
              ELSE UNCHANGED <<coord, result, workers, root, disk, responses, faultsLeft>>
    /\ UNCHANGED <<opsLeft, kv, serial>>

ClearDone ==
    /\ coord = "clear" /\ todo = {}
    /\ coord' = "split"
    /\ root' = [root EXCEPT !.value = NoValue]
    /\ UNCHANGED <<disk, todo, result, workers, responses, opsLeft, faultsLeft, kv, serial>>

\* The batch ends: the senders are dropped.
EndBatch ==
    /\ coord = "split"
    /\ coord' = "merge"
    /\ UNCHANGED <<root, disk, todo, result, workers, responses, opsLeft, faultsLeft, kv, serial>>

\* merge_children: one response.
MergeChildren ==
    /\ coord = "merge" /\ responses # <<>>
    /\ responses' = Tail(responses)
    /\ LET r == Head(responses)
       IN  IF r.ok
           THEN /\ root' = [root EXCEPT !.ch = SetChild(@, r.nibble, r.sub)]
                /\ UNCHANGED <<coord, result>>
           ELSE Return("FileIoError") /\ UNCHANGED root
    /\ UNCHANGED <<disk, todo, workers, opsLeft, faultsLeft, kv, serial>>

\* Every worker has dropped its sender: the response channel is closed.
ResponsesClosed == responses = <<>> /\ \A n \in Nibbles : workers[n].state \in {"none", "ended"}

\* The merge ends and the root is brought back to canonical form.
Postprocess ==
    /\ coord = "merge" /\ ResponsesClosed
    /\ \/ /\ root' = PostprocessTrie(root)
          /\ Return("Ok")
          /\ UNCHANGED faultsLeft
       \/ /\ root.value = NoValue /\ \E n \in disk : DOMAIN root.ch = {n}
          /\ Fault
          /\ Return("FileIoError")
          /\ UNCHANGED root
    /\ UNCHANGED <<disk, todo, workers, responses, opsLeft, kv, serial>>

\* The steps of the coordinator that do not depend on a further operation.
Proceed ==
    /\ ClearNext \/ ClearDone \/ EndBatch \/ MergeChildren \/ Postprocess
    /\ UNCHANGED idle

Coordinator ==
    \/ Proceed
    \/ ((\E op \in Ops : TakeOp(op)) \/ RefuseOp) /\ UNCHANGED idle

-----------------------------------------------------------------------------
(* The workers.                                                            *)

\* A response is lost when apply has returned and dropped the receiver.
Respond(r) == responses' = IF coord = "done" THEN responses ELSE Append(responses, r)

\* A thread of the pool takes the job.
Start(n) ==
    /\ workers[n].state = "queued" /\ idle > 0
    /\ idle' = idle - 1
    /\ workers' = [workers EXCEPT ![n].state = "running"]
    /\ UNCHANGED <<root, disk, coord, todo, result, responses, opsLeft, faultsLeft, kv, serial>>

\* worker_event_loop: one operation, without the first nibble of its key.
Handle(n) ==
    LET op == Head(workers[n].inbox)
        key == IF op.key = <<>> THEN <<>> ELSE Tail(op.key)
    IN  /\ workers[n].state = "running" /\ workers[n].inbox # <<>>
        /\ workers' = [workers EXCEPT ![n].inbox = Tail(@),
                                      ![n].sub = Apply(@, [op EXCEPT !.key = key])]
        /\ UNCHANGED <<root, disk, coord, todo, result, responses, idle,
                       opsLeft, faultsLeft, kv, serial>>

\* A worker that closes its channel before it reports why.
HandleFailsSilently(n) ==
    /\ workers[n].state = "running" /\ workers[n].inbox # <<>> /\ workers[n].sub # Nil
    /\ Fault
    /\ workers' = [workers EXCEPT ![n].state = "ended"]
    /\ idle' = idle + 1
    /\ UNCHANGED <<root, disk, coord, todo, result, responses, opsLeft, kv, serial>>

\* worker_event_loop: the operation fails.  The worker reports it, stops
\* receiving, and goes on to hash what it has; when nobody takes the report
\* it returns at once.
HandleFails(n) ==
    /\ workers[n].state = "running" /\ workers[n].inbox # <<>> /\ workers[n].sub # Nil
    /\ Fault
    /\ Respond([ok |-> FALSE])
    /\ IF coord = "done"
       THEN workers' = [workers EXCEPT ![n] = [NoWorker EXCEPT !.state = "ended"]] /\ idle' = idle + 1
       ELSE workers' = [workers EXCEPT ![n].state = "failed"] /\ UNCHANGED idle
    /\ UNCHANGED <<root, disk, coord, todo, result, opsLeft, kv, serial>>

\* worker_event_loop: the channel is closed and drained, or an operation has
\* failed; the subtrie is hashed and sent, which may fail as well.  The
\* receiving end of the worker's channel lives until the job returns.
Finish(n) ==
    /\ \/ workers[n].state = "running" /\ workers[n].inbox = <<>> /\ SendersDropped
       \/ workers[n].state = "failed"
    /\ workers' = [workers EXCEPT ![n] = [NoWorker EXCEPT !.state = "ended"]]
    /\ idle' = idle + 1
    /\ \/ /\ Respond([ok |-> TRUE, nibble |-> n, sub |-> workers[n].sub])
          /\ UNCHANGED faultsLeft
       \/ /\ workers[n].sub # Nil
          /\ Fault
          /\ Respond([ok |-> FALSE])
    /\ UNCHANGED <<root, disk, coord, todo, result, opsLeft, kv, serial>>

Worker(n) == Start(n) \/ Handle(n) \/ HandleFails(n) \/ Finish(n)

Next == Coordinator \/ \E n \in Nibbles : Worker(n)

\* The caller's thread and the threads of the pool keep running, and the
\* batch ends: its length is finite.
Spec ==
    /\ Init /\ [][Next]_vars
    /\ WF_vars(Proceed)
    /\ \A n \in Nibbles : WF_vars(Worker(n))

-----------------------------------------------------------------------------
(* Properties.                                                             *)

\* Whatever the order of operations that led to it, the trie of the serial
\* path is the one canonical trie of its pairs (Merkle::insert, remove and
\* remove_prefix): the root hash depends on the contents alone.
HistoryIndependent == serial = Canonical(kv)

\* An iteration from any key, present or not, returns the pairs from that key
\* on, each once and in order (MerkleKeyValueIter).
IterationExact ==
    \A k \in Keys :
        KeyValuesFrom(serial, k) =
            LET keys == SetToSortSeq({l \in DOMAIN kv : LessEq(k, l)}, Less)
            IN  [i \in DOMAIN keys |-> [key |-> keys[i], value |-> kv[keys[i]]]]

\* A parallel application that returns Ok leaves the same trie as the serial
\* one, however the workers were scheduled (ParallelMerkle::apply against
\* RevisionManager::apply_batch_serial).
ParallelEqualsSerial == result = "Ok" => root = serial

\* When a worker fails, apply does not return Ok, and the error it returns is
\* the failure itself and never the SendError that it causes: a worker's
\* report is always in the response channel before its own channel closes.
FailureReported ==
    /\ result = "Ok" => faultsLeft = MaxFaults
    /\ result # "SendError"

\* apply returns and every job gives its thread back, also when the pool has
\* fewer threads than there are workers, and when apply returns early.
ApplyReturns == <>(/\ coord = "done"
                   /\ \A n \in Nibbles : workers[n].state \in {"none", "ended"})
=============================================================================
