------------------------------- MODULE Replay -------------------------------
(***************************************************************************)
(* Block replay: the recorder behind the C interface (ffi/src/replay.rs)   *)
(* that logs the calls, and the engine that replays a log on another       *)
(* database (replay/src/lib.rs).                                           *)
(*                                                                         *)
(* The calls are those of the Go bindings.  Database-level calls and       *)
(* commits hold commitLock from start to end; Proposal.Propose does not,   *)
(* so it may run while a commit is between the commit proper, which frees  *)
(* the proposal's memory, and its recording.                               *)
(*                                                                         *)
(* The database is the set of keys it holds, which also stands for its     *)
(* root hash.  Proposals and committed revisions are numbered by one       *)
(* counter; parent is the number of what a proposal was made on.           *)
(***************************************************************************)
EXTENDS Naturals, Sequences, FiniteSets, SequencesExt

CONSTANTS
    ReplayKeys,         \* keys, sequences
    Addresses,          \* where the allocator may place a proposal handle
    FLUSH_THRESHOLD,    \* operations buffered before a flush
    MaxCalls            \* bound: calls in a behaviour

VARIABLES
    content,        \* the committed keys
    head,           \* the current revision
    serial,         \* the last number given out
    live,           \* proposal handles by address
    recorder,       \* Recorder: operations, next_proposal_id, proposal_ids
    file,           \* the segments of the log
    pending,        \* commits done and not yet recorded (at most one)
    history,        \* the content after each recorded commit
    exact,          \* nothing happened that the log cannot express
    calls           \* the calls so far

rvars == <<content, head, serial, live, recorder, file, pending, history, exact, calls>>

Put1(key) == [op |-> "Put", key |-> key]
Delete1(key) == [op |-> "Delete", key |-> key]
DeleteRange1(prefix) == [op |-> "DeleteRange", key |-> prefix]

\* The batches a caller may pass: one operation, or none.
Batches ==
    {<<>>} \cup {<<Put1(k)>> : k \in ReplayKeys}
           \cup {<<Delete1(k)>> : k \in ReplayKeys} \cup {<<DeleteRange1(k)>> : k \in ReplayKeys}

\* What a batch does to a set of keys.
ApplyBatch(keys, ops) ==
    FoldLeft(LAMBDA s, o : CASE o.op = "Put" -> s \cup {o.key}
                             [] o.op = "Delete" -> s \ {o.key}
                             [] o.op = "DeleteRange" -> {k \in s : ~IsPrefix(o.key, k)},
             keys, ops)

-----------------------------------------------------------------------------
(* The recorder.                                                           *)

\* Recorder::new.
Recorder_new == [operations |-> <<>>, next_proposal_id |-> 1, proposal_ids |-> <<>>]

\* convert_ops: a KeyValueOp has a key and, for a Put, a value.
convert_ops(ops) ==
    [i \in 1 .. Len(ops) |-> [key |-> ops[i].key, some |-> ops[i].op = "Put"]]

\* A segment of which only a part was written.
Torn == <<[do |-> "torn"]>>

\* A flush that leaves the operations in the buffer.
flush_keeps_buffer(rec, log) ==
    IF rec.operations = <<>> THEN {[rec |-> rec, log |-> log, lost |-> FALSE]}
    ELSE {[rec |-> rec, log |-> Append(log, rec.operations), lost |-> FALSE],
          [rec |-> rec, log |-> log, lost |-> TRUE]}

\* Recorder::flush_to_disk: the operations are taken, then written as a segment.
\* A failure loses them and may leave a part of the segment.
flush_to_disk(rec, log) ==
    LET taken == [rec EXCEPT !.operations = <<>>]
    IN  IF rec.operations = <<>> THEN {[rec |-> rec, log |-> log, lost |-> FALSE]}
        ELSE {[rec |-> taken, log |-> Append(log, rec.operations), lost |-> FALSE],
              [rec |-> taken, log |-> log, lost |-> TRUE],
              [rec |-> taken, log |-> Append(log, Torn), lost |-> TRUE]}

\* maybe_flush.
maybe_flush(rec, log) ==
    IF Len(rec.operations) >= FLUSH_THRESHOLD THEN flush_to_disk(rec, log)
    ELSE {[rec |-> rec, log |-> log, lost |-> FALSE]}

Push(rec, operation) == [rec EXCEPT !.operations = Append(@, operation)]

\* record_get_latest, record_get_from_proposal and record_batch, as the recorder
\* before maybe_flush.
record_get_latest(rec, key) == Push(rec, [do |-> "GetLatest", key |-> key])
record_get_from_proposal(rec, a, key) ==
    IF a \notin DOMAIN rec.proposal_ids THEN rec
    ELSE Push(rec, [do |-> "GetFromProposal", id |-> rec.proposal_ids[a], key |-> key])
record_batch(rec, ops) == Push(rec, [do |-> "Batch", pairs |-> convert_ops(ops)])

\* The recorder that gave the next id to the handle at address a.
WithId(rec, a) ==
    [rec EXCEPT !.next_proposal_id = @ + 1,
                !.proposal_ids = [x \in DOMAIN @ \cup {a} |->
                                    IF x = a THEN rec.next_proposal_id ELSE @[x]]]

\* record_propose_on_db and record_propose_on_proposal.
record_propose_on_db(rec, a, ops) ==
    Push(WithId(rec, a), [do |-> "ProposeOnDB", pairs |-> convert_ops(ops),
                          returned |-> rec.next_proposal_id])
record_propose_on_proposal(rec, parent, a, ops) ==
    IF parent \notin DOMAIN rec.proposal_ids THEN rec
    ELSE Push(WithId(rec, a),
              [do |-> "ProposeOnProposal", id |-> rec.proposal_ids[parent],
               pairs |-> convert_ops(ops), returned |-> rec.next_proposal_id])

\* record_commit: the id is the one the address has now.
record_commit(rec, a, hash) ==
    IF a \notin DOMAIN rec.proposal_ids THEN rec
    ELSE Push([rec EXCEPT !.proposal_ids = [x \in DOMAIN @ \ {a} |-> @[x]]],
              [do |-> "Commit", id |-> rec.proposal_ids[a], hash |-> hash])

-----------------------------------------------------------------------------
(* The replay engine.  s has the database, the proposals by id, the hash   *)
(* of the last commit ({} for none), the commits so far, and whether the   *)
(* replay failed or is done.                                               *)

\* into_batch_ops: no value is a delete by prefix.
into_batch_ops(pairs) ==
    [i \in 1 .. Len(pairs) |->
        IF pairs[i].some THEN Put1(pairs[i].key) ELSE DeleteRange1(pairs[i].key)]

\* Commit as RevisionManager does it: on the current revision only.  A commit of
\* what is already there keeps the revision, and the proposals made on the
\* committed one move to it.
MayCommit(p, current) == p.parent = current
HeadAfter(p, current, keys) == IF p.content = keys THEN current ELSE p.serial
Reparented(proposals, p, current) ==
    [x \in DOMAIN proposals |->
        IF proposals[x].parent = p.serial THEN [proposals[x] EXCEPT !.parent = current]
        ELSE proposals[x]]

Proposal(number, parent, keys) == [serial |-> number, parent |-> parent, content |-> keys]

\* The engine's state with the proposal p under the id.
WithProposal(s, id, parent, keys) ==
    [s EXCEPT !.serial = @ + 1,
              !.proposals = [x \in DOMAIN @ \cup {id} |->
                                IF x = id THEN Proposal(s.serial + 1, parent, keys) ELSE @[x]]]

\* apply_operation, and the count of commits in replay_from_reader.
apply_operation(s, o, max_commits) ==
    LET failed == [s EXCEPT !.ok = FALSE]
        p == s.proposals[o.id]
        current == HeadAfter(p, s.head, s.content)
        keys == ApplyBatch(s.content, into_batch_ops(o.pairs))
        rest == [x \in DOMAIN s.proposals \ {o.id} |-> s.proposals[x]]
    IN  CASE ~s.ok \/ s.commits >= max_commits -> s
          [] OTHER ->
            CASE o.do = "GetLatest" -> s
              [] o.do = "GetFromProposal" -> IF o.id \in DOMAIN s.proposals THEN s ELSE failed
              [] o.do = "Batch" ->
                    [s EXCEPT !.content = keys, !.serial = @ + 1,
                              !.head = IF keys = s.content THEN @ ELSE s.serial + 1]
              [] o.do = "ProposeOnDB" -> WithProposal(s, o.returned, s.head, keys)
              [] o.do = "ProposeOnProposal" ->
                    IF o.id \notin DOMAIN s.proposals THEN failed
                    ELSE WithProposal(s, o.returned, p.serial,
                                      ApplyBatch(p.content, into_batch_ops(o.pairs)))
              [] o.do = "Commit" ->
                    IF o.id \notin DOMAIN s.proposals THEN failed
                    ELSE IF ~MayCommit(p, s.head) THEN failed
                    ELSE [s EXCEPT !.content = p.content, !.head = current,
                                   !.proposals = Reparented(rest, p, current),
                                   !.last = IF o.hash = {} THEN @ ELSE o.hash,
                                   !.commits = @ + 1]
              [] o.do = "torn" -> failed

\* replay_from_reader: the segments one after the other.
replay_from_reader(segments, max_commits) ==
    FoldLeft(LAMBDA s, o : apply_operation(s, o, max_commits),
             [ok |-> TRUE, content |-> {}, head |-> 0, serial |-> 0, proposals |-> <<>>,
              last |-> {}, commits |-> 0],
             FlattenSeq(segments))

-----------------------------------------------------------------------------
(* The calls.                                                              *)

ReplayInit ==
    /\ content = {} /\ head = 0 /\ serial = 0
    /\ live = <<>>
    /\ recorder = Recorder_new
    /\ file = <<>>
    /\ pending = {}
    /\ history = <<>>
    /\ exact = TRUE
    /\ calls = 0

\* The recorder becomes rec and flushes if it is due; ok says whether the log
\* can express the call.
Recorded(rec, ok) ==
    \E f \in maybe_flush(rec, file) :
        /\ recorder' = f.rec
        /\ file' = f.log
        /\ exact' = (exact /\ ok /\ ~f.lost)

NotRecorded(ok) == exact' = (exact /\ ok) /\ UNCHANGED <<recorder, file>>

\* Whether the log's form of the batch does the same to keys.
Expressible(keys, ops) == ApplyBatch(keys, ops) = ApplyBatch(keys, into_batch_ops(convert_ops(ops)))

Free(a) == a \notin DOMAIN live
With(a, p) == [x \in DOMAIN live \cup {a} |-> IF x = a THEN p ELSE live[x]]
Without(a) == [x \in DOMAIN live \ {a} |-> live[x]]

\* commitLock is free.
CommitLockFree == pending = {}

\* fwd_batch: recorded, then executed.
Batch(ops) ==
    LET keys == ApplyBatch(content, ops)
    IN  /\ CommitLockFree
        /\ content' = keys
        /\ serial' = serial + 1
        /\ head' = IF keys = content THEN head ELSE serial + 1
        /\ Recorded(record_batch(recorder, ops), Expressible(content, ops))
        /\ UNCHANGED <<live, pending, history>>

\* fwd_batch that the database refuses, after it was recorded.
BatchFails(ops) ==
    /\ CommitLockFree
    /\ Recorded(record_batch(recorder, ops), FALSE)
    /\ UNCHANGED <<content, head, serial, live, pending, history>>

\* fwd_propose_on_db.
ProposeOnDb(a, ops) ==
    /\ CommitLockFree /\ Free(a)
    /\ live' = With(a, Proposal(serial + 1, head, ApplyBatch(content, ops)))
    /\ serial' = serial + 1
    /\ Recorded(record_propose_on_db(recorder, a, ops), Expressible(content, ops))
    /\ UNCHANGED <<content, head, pending, history>>

\* fwd_propose_on_proposal: while a commit is pending it may be given the memory
\* that the committed proposal had.
ProposeOnProposal(parent, a, ops) ==
    /\ parent \in DOMAIN live /\ Free(a)
    /\ live' = With(a, Proposal(serial + 1, live[parent].serial,
                                ApplyBatch(live[parent].content, ops)))
    /\ serial' = serial + 1
    /\ Recorded(record_propose_on_proposal(recorder, parent, a, ops),
                /\ Expressible(live[parent].content, ops)
                /\ \A c \in pending : c.addr # a)
    /\ UNCHANGED <<content, head, pending, history>>

\* fwd_commit_proposal up to its recording; the handle is gone.
Commit(a) ==
    LET p == live[a]
        current == HeadAfter(p, head, content)
    IN  /\ CommitLockFree
        /\ a \in DOMAIN live
        /\ MayCommit(p, head)
        /\ content' = p.content
        /\ head' = current
        /\ live' = Reparented(Without(a), p, current)
        /\ pending' = {[addr |-> a, hash |-> p.content]}
        /\ NotRecorded(TRUE)
        /\ UNCHANGED <<serial, history>>

\* The rest of fwd_commit_proposal.
RecordCommit(c) ==
    /\ pending' = pending \ {c}
    /\ history' = Append(history, content)
    /\ Recorded(record_commit(recorder, c.addr, c.hash), TRUE)
    /\ UNCHANGED <<content, head, serial, live>>

\* A commit that is refused consumes the handle and records nothing.
CommitRefused(a) ==
    /\ CommitLockFree
    /\ a \in DOMAIN live
    /\ ~MayCommit(live[a], head)
    /\ live' = Without(a)
    /\ NotRecorded(TRUE)
    /\ UNCHANGED <<content, head, serial, pending, history>>

\* fwd_commit_proposal_with_rebase changes the database, here in any way, and is
\* not recorded.
CommitWithRebase(a) ==
    /\ CommitLockFree
    /\ a \in DOMAIN live
    /\ content' \in SUBSET ReplayKeys
    /\ serial' = serial + 1
    /\ head' = IF content' = content THEN head ELSE serial + 1
    /\ live' = Reparented(Without(a), live[a], head')
    /\ NotRecorded(FALSE)
    /\ UNCHANGED <<pending, history>>

\* fwd_free_proposal is not recorded.
FreeProposal(a) ==
    /\ a \in DOMAIN live
    /\ live' = Without(a)
    /\ NotRecorded(TRUE)
    /\ UNCHANGED <<content, head, serial, pending, history>>

\* fwd_get_latest and fwd_get_from_proposal.
GetLatest(key) ==
    /\ CommitLockFree
    /\ Recorded(record_get_latest(recorder, key), TRUE)
    /\ UNCHANGED <<content, head, serial, live, pending, history>>

GetFromProposal(a, key) ==
    /\ a \in DOMAIN live
    /\ Recorded(record_get_from_proposal(recorder, a, key), TRUE)
    /\ UNCHANGED <<content, head, serial, live, pending, history>>

\* fwd_block_replay_flush, and the flush of fwd_close_db.
FlushReplay ==
    /\ \E f \in flush_to_disk(recorder, file) :
          /\ recorder' = f.rec
          /\ file' = f.log
          /\ exact' = (exact /\ ~f.lost)
    /\ UNCHANGED <<content, head, serial, live, pending, history>>

\* A call; the recording of a commit belongs to the call before it.
Call ==
    \/ \E ops \in Batches : Batch(ops) \/ BatchFails(ops)
    \/ \E a \in Addresses, ops \in Batches : ProposeOnDb(a, ops)
    \/ \E a, b \in Addresses, ops \in Batches : ProposeOnProposal(a, b, ops)
    \/ \E a \in Addresses :
          \/ Commit(a)
          \/ CommitRefused(a)
          \/ CommitWithRebase(a)
          \/ FreeProposal(a)
    \/ \E key \in ReplayKeys :
          \/ GetLatest(key)
          \/ \E a \in Addresses : GetFromProposal(a, key)
    \/ FlushReplay

\* Once the log cannot be exact there is nothing more to ask of it.
ReplayNext ==
    /\ exact
    /\ \/ calls < MaxCalls /\ calls' = calls + 1 /\ Call
       \/ \E c \in pending : RecordCommit(c) /\ UNCHANGED calls
=============================================================================
