----------------------------- MODULE WriteBatch -----------------------------
(***************************************************************************)
(* One batch of writes through io_uring (storage/src/linear/io_uring.rs).  *)
(* The writing thread, which holds the ring's mutex until the batch ends,  *)
(* fills the submission queue, waits for completions, and submits again    *)
(* what was written in part or refused for the moment.  The kernel takes   *)
(* submissions and completes them in any order, and is external: it is     *)
(* modelled by the outcomes the code handles.                              *)
(*                                                                         *)
(* The thread sees the head of the submission queue as of its last sync:   *)
(* the queue may look full to it after the kernel has emptied it.  Pushed  *)
(* entries become visible to the kernel with the sync that ends a fill, so *)
(* a fill is one step.                                                     *)
(***************************************************************************)
EXTENDS Integers, Sequences, FiniteSets, FiniteSetsExt, Functions

CONSTANTS
    Offsets,    \* the offsets of the writes, which are distinct
    Length,     \* bytes of each write
    SqSize,     \* SUBMISSION_QUEUE_SIZE
    CqSize,     \* COMPLETION_QUEUE_SIZE
    MaxAgain,   \* bound: how often the kernel answers EAGAIN
    MaxErrors   \* bound: how often a write or a system call fails

ASSUME SizesAssumption ==
    /\ Length \in Nat \ {0} /\ SqSize \in Nat \ {0} /\ CqSize \in Nat \ {0}
    /\ IsFiniteSet(Offsets)

VARIABLES
    pc,         \* "seed", "top", "drain", "flush" or "done"
    entries,    \* the writes not yet taken from the iterator
    backlog,    \* writes taken that are not with the kernel
    outstanding,\* writes with the kernel
    seen,       \* how many submissions the thread believes to be in the queue
    written, errors, result,
    sq,         \* the submission queue
    inflight,   \* what the kernel works on
    cq,         \* the completion queue
    overflow,   \* completions the kernel keeps back (IORING_FEAT_NODROP)
    file,       \* by write: which byte of its buffer is at which position
    againLeft, errorsLeft

thread == <<pc, entries, backlog, outstanding, seen, written, errors, result>>
kernel == <<sq, inflight, cq, overflow, file, againLeft>>
vars == <<thread, kernel, errorsLeft>>

\* QueueEntry: original_offset, the position the rest goes to, and how much of
\* the buffer is written.
NewEntry(o) == [original |-> o, offset |-> 0, skip |-> 0]
Remaining(e) == Length - e.skip

Init ==
    /\ pc = "seed"
    /\ \E order \in Bijection(1..Cardinality(Offsets), Offsets) :
          entries = [i \in DOMAIN order |-> NewEntry(order[i])]
    /\ backlog = <<>> /\ outstanding = {} /\ seen = 0
    /\ written = 0 /\ errors = {} /\ result = "none"
    /\ sq = <<>> /\ inflight = {} /\ cq = <<>> /\ overflow = <<>>
    /\ file = [o \in Offsets |-> <<>>]
    /\ againLeft = MaxAgain /\ errorsLeft = MaxErrors

-----------------------------------------------------------------------------
(* The writing thread.                                                     *)

\* is_finished does not look at the iterator.
IsFinished == backlog = <<>> /\ outstanding = {}

\* add_entry_to_backlog: what is partly written goes first.
AddEntryToBacklog(queue, e) ==
    IF e.offset = 0 THEN Append(queue, e) ELSE <<e>> \o queue

\* pop_next_entry comes before push: with n entries pushed, the one for which
\* the queue was full is taken as well.
Taken(n, full) == IF full THEN n + 1 ELSE n

\* enqueue_single_op until the queue is full or nothing is left, and the syncs
\* around it.
Fill ==
    LET all == backlog \o entries
        n == Min({Len(all), SqSize - Len(sq)})
        full == n < Len(all)
        fromBacklog == Min({Len(backlog), Taken(n, full)})
        left == SubSeq(backlog, fromBacklog + 1, Len(backlog))
    IN  /\ sq' = sq \o SubSeq(all, 1, n)
        /\ outstanding' = outstanding \cup Range(SubSeq(all, 1, n))
        /\ backlog' = IF full THEN AddEntryToBacklog(left, all[n + 1]) ELSE left
        /\ entries' = SubSeq(entries, Taken(n, full) - fromBacklog + 1, Len(entries))
        /\ seen' = Len(sq')

\* seed_submission_queue.
Seed ==
    /\ pc = "seed"
    /\ Fill
    /\ pc' = "top"
    /\ UNCHANGED <<written, errors, result, inflight, cq, overflow, file, againLeft, errorsLeft>>

\* What the kernel kept back moves into the completion queue when the thread
\* enters the kernel.
FlushOverflow ==
    LET n == Min({Len(overflow), CqSize - Len(cq)})
    IN  /\ cq' = cq \o SubSeq(overflow, 1, n)
        /\ overflow' = SubSeq(overflow, n + 1, Len(overflow))

\* sync_completion_queue: wait for a completion.  The assertion that cq.overflow()
\* is 0 cannot fail: it counts completions that were dropped, and a kernel with
\* IORING_FEAT_NODROP, which the module assumes, keeps them back.
SyncCompletionQueue ==
    /\ pc = "top" /\ ~IsFinished
    /\ cq # <<>> \/ overflow # <<>>
    /\ FlushOverflow
    /\ pc' = "drain"
    /\ UNCHANGED <<entries, backlog, outstanding, seen, written, errors, result,
                   sq, inflight, file, againLeft, errorsLeft>>

\* The wait ends with EINTR before a completion is there, or with EBUSY when
\* the completion queue must be emptied first; ignore_poll_error lets it pass.
SyncInterrupted ==
    /\ pc = "top" /\ ~IsFinished
    /\ overflow = <<>> \/ cq # <<>>
    /\ pc' = "drain"
    /\ UNCHANGED <<entries, backlog, outstanding, seen, written, errors, result,
                   kernel, errorsLeft>>

\* A result that is taken for the whole buffer.
HandleResultWhole(e, n) == [e EXCEPT !.offset = Length, !.skip = Length]

\* handle_result: the rest of the buffer, and where it goes.
HandleResult(e, n) == [e EXCEPT !.offset = @ + n, !.skip = @ + n]

\* handle_completion_event.  EAGAIN counts as 0 bytes written.
HandleCompletionEvent ==
    LET event == Head(cq)
        e == CHOOSE x \in outstanding : x.original = event.original
        rest == HandleResult(e, event.bytes)
    IN  /\ pc = "drain" /\ cq # <<>>
        /\ cq' = Tail(cq)
        /\ IF \A x \in outstanding : x.original # event.original
           THEN /\ errors' = errors \cup {event.original}
                /\ UNCHANGED <<outstanding, backlog, written>>
           ELSE /\ outstanding' = outstanding \ {e}
                /\ IF event.res = "error"
                   THEN errors' = errors \cup {e.original} /\ UNCHANGED <<backlog, written>>
                   ELSE /\ backlog' = IF Remaining(rest) = 0 THEN backlog
                                      ELSE AddEntryToBacklog(backlog, rest)
                        /\ written' = written + event.bytes
                        /\ UNCHANGED errors
        /\ UNCHANGED <<pc, entries, seen, result, sq, inflight, overflow, file,
                       againLeft, errorsLeft>>

\* flush_completion_queue has emptied the queue.
DrainDone ==
    /\ pc = "drain" /\ cq = <<>>
    /\ pc' = "flush"
    /\ UNCHANGED <<entries, backlog, outstanding, seen, written, errors, result,
                   kernel, errorsLeft>>

\* A flush that goes back to waiting as soon as the queue looks full.
FlushLeavesWhenFull ==
    /\ pc = "flush"
    /\ IF seen = SqSize THEN UNCHANGED <<sq, outstanding, backlog, entries, seen>> ELSE Fill
    /\ pc' = IF seen < SqSize /\ Len(sq') = SqSize /\ backlog' # <<>> /\ cq = <<>>
             THEN "flush" ELSE "top"
    /\ UNCHANGED <<written, errors, result, inflight, cq, overflow, file, againLeft, errorsLeft>>

\* flush_submission_queue, one round: if the queue looks full, squeue_wait
\* returns once the kernel has taken something; then fill, and go on to the
\* completions when nothing is left or some have arrived.
FlushSubmissionQueue ==
    /\ pc = "flush"
    /\ seen = SqSize => Len(sq) < SqSize
    /\ Fill
    /\ pc' = IF Len(sq') = SqSize /\ backlog' # <<>> /\ cq = <<>> THEN "flush" ELSE "top"
    /\ UNCHANGED <<written, errors, result, inflight, cq, overflow, file, againLeft, errorsLeft>>

\* submit or squeue_wait returns EBUSY or EINTR.  Of the kernel it is assumed that
\* it does so only while the queue is full.
FlushInterrupted ==
    /\ pc = "flush" /\ seen = SqSize /\ Len(sq) = SqSize
    /\ pc' = "top"
    /\ UNCHANGED <<entries, backlog, outstanding, seen, written, errors, result,
                   kernel, errorsLeft>>

\* bail!: another error of submit_and_wait, submit or squeue_wait.  The guard
\* of outstanding is dropped: its predicate is Outstanding::is_empty, and it
\* asserts that the predicate is false.
Bail ==
    /\ \/ pc = "top" /\ ~IsFinished
       \/ pc = "flush" /\ seen = SqSize
    /\ errorsLeft > 0 /\ errorsLeft' = errorsLeft - 1
    /\ pc' = "done"
    /\ result' = IF outstanding = {} THEN "panic" ELSE "incurable"
    /\ UNCHANGED <<entries, backlog, outstanding, seen, written, errors, kernel>>

\* The end of write_batch.
ReturnFromBatch ==
    /\ pc = "top" /\ IsFinished
    /\ pc' = "done"
    /\ result' = IF errors = {} THEN "Ok" ELSE "Err"
    /\ UNCHANGED <<entries, backlog, outstanding, seen, written, errors, kernel, errorsLeft>>

Proceed ==
    \/ Seed \/ SyncCompletionQueue \/ HandleCompletionEvent \/ DrainDone
    \/ FlushSubmissionQueue \/ ReturnFromBatch

-----------------------------------------------------------------------------
(* The kernel.  A write of zero bytes is an error to handle_result, like a *)
(* negative result other than EAGAIN.                                      *)

\* The polling thread takes a submission.
Consume ==
    /\ sq # <<>>
    /\ sq' = Tail(sq)
    /\ inflight' = inflight \cup {Head(sq)}
    /\ UNCHANGED <<thread, cq, overflow, file, againLeft, errorsLeft>>

Post(event) ==
    IF Len(cq) < CqSize /\ overflow = <<>>
    THEN cq' = Append(cq, event) /\ UNCHANGED overflow
    ELSE overflow' = Append(overflow, event) /\ UNCHANGED cq

\* n bytes of the rest of the buffer are written.
CompleteWrite(e, n) ==
    /\ Post([original |-> e.original, res |-> "ok", bytes |-> n])
    /\ file' = [file EXCEPT ![e.original] =
          [p \in DOMAIN @ \cup (e.offset + 1)..(e.offset + n) |->
              IF p \in (e.offset + 1)..(e.offset + n) THEN p - e.offset + e.skip ELSE @[p]]]
    /\ UNCHANGED <<againLeft, errorsLeft>>

CompleteAgain(e) ==
    /\ againLeft > 0 /\ againLeft' = againLeft - 1
    /\ Post([original |-> e.original, res |-> "again", bytes |-> 0])
    /\ UNCHANGED <<file, errorsLeft>>

CompleteError(e) ==
    /\ errorsLeft > 0 /\ errorsLeft' = errorsLeft - 1
    /\ Post([original |-> e.original, res |-> "error", bytes |-> 0])
    /\ UNCHANGED <<file, againLeft>>

Complete ==
    /\ \E e \in inflight :
          /\ inflight' = inflight \ {e}
          /\ (\E n \in 1..Remaining(e) : CompleteWrite(e, n))
             \/ CompleteAgain(e) \/ CompleteError(e)
    /\ UNCHANGED <<thread, sq>>

-----------------------------------------------------------------------------

Next ==
    \/ Proceed \/ SyncInterrupted \/ FlushInterrupted \/ Bail
    \/ Consume \/ Complete

\* The thread runs, and the kernel takes and completes what it is given; it
\* need not interrupt anything.
Spec ==
    /\ Init /\ [][Next]_vars
    /\ WF_vars(Proceed) /\ WF_vars(Consume) /\ WF_vars(Complete)

-----------------------------------------------------------------------------
(* Properties.                                                             *)

\* When the batch returns Ok every byte of every buffer is at its place, and
\* the count returned is their sum; when it returns errors, every write was
\* attempted, and the ones without an error are complete.
OutcomeTrue ==
    LET complete(o) == file[o] = [p \in 1..Length |-> p]
    IN  /\ result = "Ok" => /\ \A o \in Offsets : complete(o)
                            /\ written = Length * Cardinality(Offsets)
        /\ result = "Err" => \A o \in Offsets : complete(o) \/ o \in errors

\* Every batch returns: whatever order completions come in, however often a
\* write is cut short, and however often a wait for completions, or for room in a
\* full submission queue, is interrupted, it never waits for a completion when
\* nothing is outstanding.
BatchReturns == <>(pc = "done")
=============================================================================
