------------------------------- MODULE Handles -------------------------------
(***************************************************************************)
(* The Go bindings of firewood (ffi/*.go): what goroutines may do at the   *)
(* same time with a database and with the handles taken from it, and what  *)
(* Database.Close waits for before it frees the database.                  *)
(*                                                                         *)
(* A handle is a Go object that owns a Rust object: a revision, a          *)
(* proposal, a reconstructed view, an iterator or a proof.  The Rust       *)
(* objects borrow the database, which Rust cannot see across the C         *)
(* interface; keepalive.go counts them instead.                            *)
(*                                                                         *)
(* A method of the API is the list of locks it takes and the C call it     *)
(* then makes (module FfiCalls).  A goroutine runs a stack of frames, one  *)
(* per method it is inside; a C call is in progress from the step that     *)
(* takes the last lock to the step that ends it.                           *)
(***************************************************************************)
EXTENDS FfiCalls, SequencesExt

CONSTANTS
    Routines,   \* the goroutines of the program
    Slots       \* the handles that exist at the same time

None == "none"

-----------------------------------------------------------------------------
(* The methods: the locks in the order the code takes them, then the call. *)
(*   handle    Database.handleLock, shared, and the check that the handle  *)
(*             is not nil                                                  *)
(*   commit    Database.commitLock                                         *)
(*   shared    the lease of the handle, shared, and the check that it is   *)
(*             not dropped                                                 *)
(*   request, exclusive   the lease of the handle, exclusive: the lock     *)
(*             first keeps new readers out, then waits for the others      *)

Method(locks, call) ==
    [does |-> Append(locks, "call"), call |-> call, release |-> FALSE]

Exclusive == <<"request", "exclusive">>

\* A call that returns a handle hands it to the registry (lease.attach).
Attaching(locks, call) ==
    [Method(locks, call) EXCEPT !.does = Append(@, "attach")]

\* lease.release: whatever the function does, the lease leaves the registry.
Releasing(locks, call) == [Method(locks, call) EXCEPT !.release = TRUE]

Database_Update == Method(<<"handle", "commit">>, fwd_batch)
Database_Propose == Attaching(<<"handle", "commit">>, fwd_propose_on_db)
Database_Get == Method(<<"handle", "commit">>, fwd_get_latest)
Database_Root == Method(<<"handle", "commit">>, fwd_root_hash)
Database_Revision == Attaching(<<"handle">>, fwd_get_revision)
Database_Dump == Method(<<"handle">>, fwd_db_dump)
\* LatestRevision reads the root, then calls Revision with its locks held.
Database_LatestRevision ==
    [Database_Root EXCEPT !.does = Append(@, "Revision")]

Revision_Get == Method(<<"shared">>, fwd_get_from_revision)
Revision_Iter == Attaching(<<"shared">>, fwd_iter_on_revision)
Revision_Reconstruct == Attaching(<<"shared">>, fwd_reconstruct_on_revision)
Revision_Dump == Method(<<"shared">>, fwd_revision_dump)
Revision_EthGetProof == Method(<<"shared">>, fwd_eth_get_proof)

Proposal_Get == Method(<<"shared">>, fwd_get_from_proposal)
Proposal_Iter == Attaching(<<"shared">>, fwd_iter_on_proposal)
Proposal_Propose == Attaching(<<"shared">>, fwd_propose_on_proposal)
Proposal_Commit == Releasing(Exclusive \o <<"commit">>, fwd_commit_proposal)
Proposal_CommitWithRebase ==
    Releasing(Exclusive \o <<"commit">>, fwd_commit_proposal_with_rebase)
Proposal_Dump == Method(<<"shared">>, fwd_proposal_dump)

\* Root of a reconstructed view; a root that is cached, under rootMu inside the same
\* lock, is returned without the call, which takes nothing from the handle.
Reconstructed_Root == Method(<<"shared">>, fwd_reconstructed_root_hash)
Reconstructed_Get == Method(<<"shared">>, fwd_get_from_reconstructed)
Reconstructed_Iter == Attaching(<<"shared">>, fwd_iter_on_reconstructed)
Reconstructed_Reconstruct == Method(Exclusive, fwd_reconstruct_on_reconstructed)
Reconstructed_Clone == Attaching(<<"shared">>, fwd_clone_reconstructed)
Reconstructed_Dump == Method(<<"shared">>, fwd_reconstructed_dump)
Reconstructed_EthGetProof == Method(<<"shared">>, fwd_eth_get_proof_on_reconstructed)

\* Next and NextBorrowed, with and without a batch size.
Iterator_Next == Method(<<"shared">>, fwd_iter_next)
Iterator_NextBatch == Method(<<"shared">>, fwd_iter_next_n)

\* collectCodeHashes drains the code iterator and frees it under the same lock.
collectCodeHashes(call) == [call EXCEPT !.gives = None]

Database_RangeProof == Method(<<"handle">>, fwd_db_range_proof)
Database_UnmarshalRangeProof == Method(<<"handle">>, fwd_db_range_proof_from_bytes)
RangeProof_Verify == Method(Exclusive, fwd_range_proof_verify)
\* A proof that was verified keeps a proposal: it joins the registry as well.
Database_VerifyRangeProof ==
    Attaching(<<"handle">> \o Exclusive, fwd_db_verify_range_proof)
Database_VerifyAndCommitRangeProof ==
    Attaching(<<"handle">> \o Exclusive \o <<"commit">>, fwd_db_verify_and_commit_range_proof)
RangeProof_FindNextKey == Method(Exclusive, fwd_range_proof_find_next_key)
RangeProof_CodeHashes ==
    Method(<<"shared">>, collectCodeHashes(fwd_range_proof_code_hash_iter))
RangeProof_Marshal == Method(<<"shared">>, fwd_range_proof_to_bytes)

Database_ChangeProof == Method(<<"handle">>, fwd_db_change_proof)
Database_UnmarshalChangeProof == Method(<<"handle">>, fwd_db_change_proof_from_bytes)
Database_VerifyChangeProof ==
    Attaching(<<"handle", "shared">>, fwd_db_verify_change_proof)
Database_VerifyAndCommitChangeProof ==
    Method(<<"handle", "shared", "commit">>, fwd_db_verify_and_commit_change_proof)
ChangeProof_FindNextKey == Method(<<"shared">>, fwd_change_proof_find_next_key)
ChangeProof_CodeHashes ==
    Method(<<"shared">>, collectCodeHashes(fwd_change_proof_code_hash_iter))
ChangeProof_Marshal == Method(<<"shared">>, fwd_change_proof_to_bytes)

\* A Drop that takes the lease like a reader.
DropAsReader(kind) ==
    Releasing(<<"shared">>,
        CASE kind = "revision" -> fwd_free_revision
          [] kind = "proposal" -> fwd_free_proposal
          [] kind = "reconstructed" -> fwd_free_reconstructed
          [] kind = "iterator" -> fwd_free_iterator
          [] kind = "range" -> fwd_free_range_proof
          [] kind = "change" -> fwd_free_change_proof)

\* handle.Drop and iteratorHandle.Drop, by the kind of the handle.
Drop(kind) ==
    Releasing(Exclusive,
        CASE kind = "revision" -> fwd_free_revision
          [] kind = "proposal" -> fwd_free_proposal
          [] kind = "reconstructed" -> fwd_free_reconstructed
          [] kind = "iterator" -> fwd_free_iterator
          [] kind = "range" -> fwd_free_range_proof
          [] kind = "change" -> fwd_free_change_proof)

Kinds == {"revision", "proposal", "reconstructed", "iterator", "range", "change"}

Methods ==
    { Database_Update, Database_Propose, Database_Get, Database_Root, Database_Revision,
      Database_Dump, Database_LatestRevision,
      Revision_Get, Revision_Iter, Revision_Reconstruct, Revision_Dump, Revision_EthGetProof,
      Proposal_Get, Proposal_Iter, Proposal_Propose, Proposal_Commit,
      Proposal_CommitWithRebase, Proposal_Dump,
      Reconstructed_Root, Reconstructed_Get, Reconstructed_Iter, Reconstructed_Reconstruct,
      Reconstructed_Clone, Reconstructed_Dump, Reconstructed_EthGetProof,
      Iterator_Next, Iterator_NextBatch,
      Database_RangeProof, Database_UnmarshalRangeProof, RangeProof_Verify,
      Database_VerifyRangeProof, Database_VerifyAndCommitRangeProof,
      RangeProof_FindNextKey, RangeProof_CodeHashes, RangeProof_Marshal,
      Database_ChangeProof, Database_UnmarshalChangeProof, Database_VerifyChangeProof,
      Database_VerifyAndCommitChangeProof, ChangeProof_FindNextKey,
      ChangeProof_CodeHashes, ChangeProof_Marshal }

\* What a goroutine remembers of the method it is inside: methods that take the
\* same locks and make calls of the same effect behave alike.
Signature(m) ==
    LET returned == {Decode(m.call.result, Result(m.call.result, o)) :
                        o \in m.call.ends \ {"null"}}
    IN  [does |-> m.does, release |-> m.release,
         db |-> m.call.db, on |-> m.call.on, by |-> m.call.by, latest |-> m.call.latest,
         gives |-> m.call.gives, context |-> m.call.context,
         ends |-> {[ok |-> v.err = "nil", keeps |-> v.kept \in {"pair", "batch"}] :
                      v \in returned}]
Signatures == {Signature(m) : m \in Methods}
DropSignature == [kind \in Kinds |-> Signature(Drop(kind))]
RevisionSignature == Signature(Database_Revision)
\* Database.Close: the steps closeAndForceDrop takes are those of a forced one.
CloseSignature(forced) ==
    Signature([Method(<<>>, fwd_close_db) EXCEPT
        !.does = <<"ask", "lock">> \o (IF forced THEN <<"close", "drop">> ELSE <<>>)
                   \o <<"count", "drain", "commit", "call">>])

-----------------------------------------------------------------------------
VARIABLES
    handle,      \* Database.handle: "set" or "nil"
    rustDb,      \* the DatabaseHandle behind it: "live" or "freed"
    handleLock,  \* Database.handleLock: how often each goroutine holds it shared, and
                 \* the goroutine that asked for it exclusively
    commitLock,  \* Database.commitLock: the goroutine that holds it
    slot,        \* the handles, each with its lease
    registry,    \* Database.keepAlives
    stack        \* for each goroutine the methods it is inside, innermost first

vars == <<handle, rustDb, handleLock, commitLock, slot, registry, stack>>

\* A slot without a handle, and the handle newHandle makes around a Rust object.
\*   visible   the program has the handle (its constructor returned)
\*   keeps     an iterator holds a borrowed batch (currentResource)
Unused == [kind |-> None, visible |-> FALSE, dropped |-> FALSE, attached |-> FALSE,
           rust |-> "gone", context |-> "none", keeps |-> FALSE,
           readers |-> {}, writer |-> None]
newHandle(kind) == [Unused EXCEPT !.kind = kind, !.rust = "live"]

Init ==
    /\ handle = "set"
    /\ rustDb = "live"
    /\ handleLock = [readers |-> [r \in Routines |-> 0], writer |-> None]
    /\ commitLock = None
    /\ slot = [s \in Slots |-> Unused]
    /\ registry = [count |-> 0, handles |-> {}, closed |-> FALSE, waiters |-> {}]
    /\ stack = [r \in Routines |-> <<>>]

\* A method entered on the handle s.  new is the handle it is about to return;
\* todo and ctx are the handles Close still has to drop and whether its context
\* is cancelled.
Frame(sig, s) ==
    [sig |-> sig, at |-> 1, on |-> s, new |-> None, todo |-> {}, ctx |-> FALSE]

Top(r) == stack[r][1]
Inside(r) == stack[r] # <<>>
At(r, step) == Inside(r) /\ Top(r).at <= Len(Top(r).sig.does) /\ Top(r).sig.does[Top(r).at] = step
\* The C call is running.
InCall(r) == At(r, "call")

Advance(r) == stack' = [stack EXCEPT ![r][1].at = @ + 1]
Enter(r, f) == stack' = [stack EXCEPT ![r] = <<f>> \o @]

-----------------------------------------------------------------------------
(* What a method leaves behind when it returns: its deferred unlocks, and  *)
(* for lease.release the deferred releaseLocked before them.               *)

\* The locks a frame took, by the steps it has behind it.
Took(f, step) == \E i \in 1 .. f.at - 1 : f.sig.does[i] = step

\* The lease of a handle after the method unlocked it.
Unlocked(h, r, f) ==
    [h EXCEPT !.readers = IF Took(f, "shared") THEN @ \ {r} ELSE @,
              !.writer = IF @ = r /\ Took(f, "request") THEN None ELSE @]

\* removeAndDecr: the waiters go when the count reaches zero.
removeAndDecr(reg, s) ==
    [reg EXCEPT !.handles = @ \ {s}, !.count = @ - 1,
                !.waiters = IF reg.count = 1 THEN {} ELSE @]

\* releaseLocked, once per attached lease: the registry and the handle after it.
releaseLocked(s, h) == IF h.attached THEN removeAndDecr(registry, s) ELSE registry
Released(h) == [h EXCEPT !.attached = FALSE]

\* The frames of a stack refer to a handle.
Refers(frames, s) ==
    \E f \in Range(frames) : s = f.on \/ s = f.new \/ s \in f.todo

\* r returns from its innermost method, which left the handles and the registry
\* as slots and reg.  A method called on a dropped handle fails at once: the slot
\* is free again when no method is inside the handle.
Return(r, slots, reg) ==
    LET f == Top(r)
    IN  /\ stack' = [stack EXCEPT ![r] = Tail(@)]
        /\ handleLock' = [handleLock EXCEPT
              !.readers[r] = @ - (IF Took(f, "handle") THEN 1 ELSE 0),
              !.writer = IF Took(f, "ask") THEN None ELSE @]
        /\ commitLock' = IF Took(f, "commit") THEN None ELSE commitLock
        /\ slot' = [s \in Slots |->
              IF slots[s].dropped /\ \A q \in Routines : ~Refers(stack'[q], s) THEN Unused
              ELSE IF s = f.on THEN Unlocked(slots[s], r, f)
              ELSE slots[s]]
        /\ registry' = reg

-----------------------------------------------------------------------------
(* Entering a method.                                                      *)

\* The bound on the handles of the program: a method that returns one finds a
\* slot for it.
Vacant(s) == slot[s].kind = None
Returning(sig) == sig.gives # None \/ "Revision" \in Range(sig.does)
Room(sig) ==
    Returning(sig) =>
        Cardinality({r \in Routines : \E f \in Range(stack[r]) : Returning(f.sig)})
            < Cardinality({s \in Slots : Vacant(s)})

\* The program calls a method of the database or of a handle it holds.  An
\* iterator has one reader (its documentation asks for it).
Call_(r, sig, s) ==
    /\ ~Inside(r)
    /\ IF sig.on = None THEN s = None
       ELSE /\ s # None
            /\ slot[s].visible
            /\ slot[s].kind = sig.on
            /\ sig.on = "iterator" =>
                  \A q \in Routines : \A f \in Range(stack[q]) : f.on = s => f.sig.release
    /\ Room(sig)
    /\ Enter(r, Frame(sig, s))
    /\ UNCHANGED <<handle, rustDb, handleLock, commitLock, slot, registry>>

\* Drop, from the program or from the cleanup of an unreachable handle.
CallDrop(r, s) ==
    /\ ~Inside(r)
    /\ slot[s].visible
    /\ Enter(r, Frame(DropSignature[slot[s].kind], s))
    /\ UNCHANGED <<handle, rustDb, handleLock, commitLock, slot, registry>>

-----------------------------------------------------------------------------
(* The locks.  Go's RWMutex turns new readers away while a writer waits.   *)

\* handleLock.RLock, then the nil check.
TakeHandle(r) ==
    /\ At(r, "handle")
    /\ handleLock.writer = None
    /\ IF handle = "nil" THEN Return(r, slot, registry)
       ELSE /\ handleLock' = [handleLock EXCEPT !.readers[r] = @ + 1]
            /\ Advance(r)
            /\ UNCHANGED <<commitLock, slot, registry>>
    /\ UNCHANGED <<handle, rustDb>>

\* commitLock.Lock.
TakeCommit(r) ==
    /\ At(r, "commit")
    /\ ~Took(Top(r), "ask")
    /\ commitLock = None
    /\ commitLock' = r
    /\ Advance(r)
    /\ UNCHANGED <<handle, rustDb, handleLock, slot, registry>>

\* lease.mu.RLock, then the dropped check.  nextInternal serves what is left of
\* the batch it keeps, or gives the batch back and asks for the next one.
TakeShared(r) ==
    LET s == Top(r).on
    IN  /\ At(r, "shared")
        /\ slot[s].writer = None
        /\ \/ /\ slot[s].dropped \/ slot[s].keeps
              /\ Return(r, slot, registry)
           \/ /\ ~slot[s].dropped
              /\ slot' = [slot EXCEPT ![s].readers = @ \cup {r}, ![s].keeps = FALSE]
              /\ Advance(r)
              /\ UNCHANGED <<handleLock, commitLock, registry>>
        /\ UNCHANGED <<handle, rustDb>>

\* lease.mu.Lock keeps new readers out ...
RequestExclusive(r) ==
    /\ At(r, "request")
    /\ slot[Top(r).on].writer = None
    /\ slot' = [slot EXCEPT ![Top(r).on].writer = r]
    /\ Advance(r)
    /\ UNCHANGED <<handle, rustDb, handleLock, commitLock, registry>>

\* ... and has the lock when the others are gone; then the dropped check.
\* lease.release releases the lease also when the handle was dropped before.
TakeExclusive(r) ==
    LET s == Top(r).on
    IN  /\ At(r, "exclusive")
        /\ slot[s].readers = {}
        /\ IF slot[s].dropped
           THEN IF Top(r).sig.release
                THEN Return(r, [slot EXCEPT ![s] = Released(@)], releaseLocked(s, slot[s]))
                ELSE Return(r, slot, registry)
           ELSE /\ Advance(r)
                /\ UNCHANGED <<handleLock, commitLock, slot, registry>>
        /\ UNCHANGED <<handle, rustDb>>

-----------------------------------------------------------------------------
(* The end of the C call, and what the Go method does with the result.     *)

\* A call by box takes the Rust object, and the Go handle is dropped with it;
\* Reconstructed.Reconstruct puts the object the call returned in its place.
Takes(sig, e) == sig.by = "box" /\ (sig.gives = None \/ ~e.ok)

\* The Go method marks the handle dropped: Drop, Commit, and a Reconstruct that
\* lost its view; the last releases the lease as lease.release does.
MarksDroppedUnlessReconstruct(sig, e) == sig.by = "box" /\ sig.gives = None
MarksDropped(sig, e) == sig.by = "box" /\ (sig.gives = None \/ ~e.ok)
Releases(sig, e) == sig.release \/ MarksDropped(sig, e)

\* What becomes of the proposal that a range proof keeps.
Contexts(h, sig, e) ==
    CASE sig.context = "proposes" -> verify_and_propose(h.context, e.ok)
      [] sig.context = "commits" -> verify_and_commit(h.context, e.ok)
      [] OTHER -> {h.context}

\* The handle after its call ended.
AfterCall(h, sig, e) ==
    {[h EXCEPT !.rust = IF Takes(sig, e) THEN "gone" ELSE @,
               !.dropped = @ \/ MarksDropped(sig, e),
               !.context = c,
               !.keeps = ~MarksDropped(sig, e) /\ (@ \/ e.keeps)] : c \in Contexts(h, sig, e)}

\* The call ends.  A handle it returned gets a slot; one that takes no lease
\* (a proof) is returned at once.
EndCall(r) ==
    LET f == Top(r)
        goesOn == f.at < Len(f.sig.does)
        makes == f.sig.gives # None /\ f.sig.by # "box"
    IN  /\ InCall(r)
        /\ ~Took(f, "ask")
        /\ \E e \in f.sig.ends :
           \E h \in IF f.on = None THEN {Unused} ELSE AfterCall(slot[f.on], f.sig, e) :
           \E t \in IF makes /\ e.ok THEN {s \in Slots : Vacant(s)} ELSE {None} :
              LET new == [newHandle(f.sig.gives) EXCEPT !.visible = ~goesOn]
                  left == [s \in Slots |->
                              IF s = t THEN new ELSE IF s = f.on THEN h ELSE slot[s]]
              IN  CASE e.ok /\ goesOn ->
                        /\ slot' = left
                        /\ stack' = [stack EXCEPT ![r][1] =
                                        [f EXCEPT !.at = @ + 1, !.new = t]]
                        /\ UNCHANGED <<handleLock, commitLock, registry>>
                    [] ~(e.ok /\ goesOn) /\ Releases(f.sig, e) ->
                        Return(r, [left EXCEPT ![f.on] = Released(@)],
                               releaseLocked(f.on, h))
                    [] OTHER -> Return(r, left, registry)
        /\ UNCHANGED <<handle, rustDb>>

\* An ensureAttached that counts a proof again.
AttachAgain(r) ==
    LET f == Top(r)
        t == IF f.new = None THEN f.on ELSE f.new
    IN  /\ At(r, "attach")
        /\ ~registry.closed
        /\ Return(r, [slot EXCEPT ![t].attached = TRUE, ![t].visible = TRUE],
                  [registry EXCEPT !.count = @ + 1, !.handles = @ \cup {t}])
        /\ UNCHANGED <<handle, rustDb>>

\* lease.attach for a new handle, lease.ensureAttached for a verified proof.
\* On a closed registry both call Drop on the handle, and then return.
Attach(r) ==
    LET f == Top(r)
        t == IF f.new = None THEN f.on ELSE f.new
    IN  /\ At(r, "attach")
        /\ IF slot[t].attached
           THEN Return(r, slot, registry)
           ELSE IF registry.closed
           THEN /\ stack' = [stack EXCEPT ![r] =
                       <<Frame(DropSignature[slot[t].kind], t), [f EXCEPT !.at = @ + 1]>>
                         \o Tail(@)]
                /\ UNCHANGED <<handleLock, commitLock, slot, registry>>
           ELSE Return(r, [slot EXCEPT ![t].attached = TRUE, ![t].visible = TRUE],
                       [registry EXCEPT !.count = @ + 1, !.handles = @ \cup {t}])
        /\ UNCHANGED <<handle, rustDb>>

\* LatestRevision calls Revision with the root it read (an empty trie has none).
EnterRevision(r) ==
    /\ At(r, "Revision")
    /\ \/ stack' = [stack EXCEPT ![r] =
             <<Frame(RevisionSignature, None), [Top(r) EXCEPT !.at = @ + 1]>> \o Tail(@)]
          /\ UNCHANGED <<handleLock, commitLock, slot, registry>>
       \/ Return(r, slot, registry)
    /\ UNCHANGED <<handle, rustDb>>

\* A method whose inner call returned has nothing left to do.
Finish(r) ==
    /\ Inside(r)
    /\ Top(r).at > Len(Top(r).sig.does)
    /\ Return(r, slot, registry)
    /\ UNCHANGED <<handle, rustDb>>

-----------------------------------------------------------------------------
(* Database.Close.                                                         *)

CallClose(r) ==
    /\ ~Inside(r)
    /\ \E forced \in BOOLEAN : Enter(r, Frame(CloseSignature(forced), None))
    /\ UNCHANGED <<handle, rustDb, handleLock, commitLock, slot, registry>>

\* handleLock.Lock, in two steps as for the lease.
CloseAsk(r) ==
    /\ At(r, "ask")
    /\ handleLock.writer = None
    /\ handleLock' = [handleLock EXCEPT !.writer = r]
    /\ Advance(r)
    /\ UNCHANGED <<handle, rustDb, commitLock, slot, registry>>

\* The lock is held; a database closed before leaves nothing to do.
CloseLock(r) ==
    /\ At(r, "lock")
    /\ \A q \in Routines : handleLock.readers[q] = 0
    /\ IF handle = "nil" THEN Return(r, slot, registry)
       ELSE Advance(r) /\ UNCHANGED <<handleLock, commitLock, slot, registry>>
    /\ UNCHANGED <<handle, rustDb>>

\* closeAndForceDrop: the flag and the snapshot in one critical section ...
CloseRegistry(r) ==
    /\ At(r, "close")
    /\ registry' = [registry EXCEPT !.closed = TRUE]
    /\ stack' = [stack EXCEPT ![r][1].at = @ + 1, ![r][1].todo = registry.handles]
    /\ UNCHANGED <<handle, rustDb, handleLock, commitLock, slot>>

\* ... then Drop on each handle of the snapshot, until the context is cancelled.
ForceDrop(r) ==
    LET f == Top(r)
    IN  /\ At(r, "drop")
        /\ \/ /\ f.todo = {} \/ f.ctx
              /\ stack' = [stack EXCEPT ![r][1].at = @ + 1, ![r][1].todo = {}]
           \/ /\ ~f.ctx
              /\ \E s \in f.todo :
                    stack' = [stack EXCEPT ![r] =
                        <<Frame(DropSignature[slot[s].kind], s), [f EXCEPT !.todo = @ \ {s}]>>]
        /\ UNCHANGED <<handle, rustDb, handleLock, commitLock, slot, registry>>

\* waitDrained: nothing to wait for, or a waiter that the last release removes.
CountHandles(r) ==
    /\ At(r, "count")
    /\ IF registry.count = 0
       THEN stack' = [stack EXCEPT ![r][1].at = @ + 2] /\ UNCHANGED registry
       ELSE registry' = [registry EXCEPT !.waiters = @ \cup {r}] /\ Advance(r)
    /\ UNCHANGED <<handle, rustDb, handleLock, commitLock, slot>>

\* A wait that goes on to free the database when the context is cancelled, and
\* one that does not look at the context.
WaitDrainedProceeds(r) ==
    /\ At(r, "drain")
    /\ r \notin registry.waiters \/ Top(r).ctx
    /\ Advance(r)
    /\ UNCHANGED <<handle, rustDb, handleLock, commitLock, slot, registry>>
WaitDrainedForever(r) ==
    /\ At(r, "drain")
    /\ r \notin registry.waiters
    /\ Advance(r)
    /\ UNCHANGED <<handle, rustDb, handleLock, commitLock, slot, registry>>

\* The waiter is released, or the context is cancelled: then the error
\* ErrActiveKeepAliveHandles, and the database stays open.
WaitDrained(r) ==
    /\ At(r, "drain")
    /\ \/ /\ r \notin registry.waiters
          /\ Advance(r)
          /\ UNCHANGED <<handleLock, commitLock, slot, registry>>
       \/ /\ Top(r).ctx
          /\ Return(r, slot, [registry EXCEPT !.waiters = @ \ {r}])
    /\ UNCHANGED <<handle, rustDb>>

\* The handle is cleared before fwd_close_db frees the database, whatever the
\* call returns.
CloseHandle(r) ==
    /\ At(r, "commit")
    /\ Took(Top(r), "ask")
    /\ commitLock = None
    /\ commitLock' = r
    /\ handle' = "nil"
    /\ Advance(r)
    /\ UNCHANGED <<rustDb, handleLock, slot, registry>>

CloseFree(r) ==
    /\ InCall(r)
    /\ Took(Top(r), "ask")
    /\ rustDb' = "freed"
    /\ Return(r, slot, registry)
    /\ UNCHANGED handle

\* The context given to Close is cancelled.
Cancel(r) ==
    /\ Inside(r)
    /\ LET n == Len(stack[r])
       IN  /\ stack[r][n].sig.does[1] = "ask"
           /\ ~stack[r][n].ctx
           /\ stack' = [stack EXCEPT ![r][n].ctx = TRUE]
    /\ UNCHANGED <<handle, rustDb, handleLock, commitLock, slot, registry>>

-----------------------------------------------------------------------------
\* A step of a goroutine inside a method.
Step(r) ==
    \/ TakeHandle(r) \/ TakeCommit(r) \/ TakeShared(r)
    \/ RequestExclusive(r) \/ TakeExclusive(r)
    \/ EndCall(r) \/ Attach(r) \/ EnterRevision(r) \/ Finish(r)
    \/ CloseAsk(r) \/ CloseLock(r) \/ CloseRegistry(r) \/ ForceDrop(r)
    \/ CountHandles(r) \/ WaitDrained(r) \/ CloseHandle(r) \/ CloseFree(r)

Next ==
    \E r \in Routines :
        \/ \E sig \in Signatures, s \in Slots \cup {None} : Call_(r, sig, s)
        \/ \E s \in Slots : CallDrop(r, s)
        \/ CallClose(r)
        \/ Cancel(r)
        \/ Step(r)

Spec == Init /\ [][Next]_vars

-----------------------------------------------------------------------------

\* The Rust objects that borrow the database: a range proof does while it keeps
\* a proposal.
Borrows(s) ==
    /\ slot[s].rust = "live"
    /\ \/ slot[s].kind \in {"revision", "proposal", "reconstructed", "iterator"}
       \/ slot[s].context # "none"

\* keepalive.go: Close frees the database only when no Rust object borrows it
\* and no C call that uses it is running; decrLocked's panic says what it would
\* mean otherwise ("a later Close proceed with handles alive").
NothingOutlivesDb ==
    rustDb = "freed" =>
        /\ \A s \in Slots : ~Borrows(s)
        /\ \A r \in Routines : InCall(r) => Top(r).sig.db = None

\* The pointers given to a C call stay valid until it returns: the object is not
\* freed under it, and a call that takes the object or changes it has the object
\* for itself.  This is what the lease locks are for, and what the C functions
\* ask of their callers.
CallsOwnTheirObjects ==
    \A r \in Routines :
        (InCall(r) /\ Top(r).on # None) =>
            LET s == Top(r).on
            IN  /\ slot[s].rust = "live"
                /\ \A q \in Routines \ {r} :
                      (InCall(q) /\ Top(q).on = s) => Top(q).sig.by = "ref" /\ Top(r).sig.by = "ref"

\* The number Close waits on is the number of leases that are out, and every Rust
\* object that borrows the database has one, except while its constructor is
\* still inside the method.
RegistryExact ==
    /\ registry.handles = {s \in Slots : slot[s].attached}
    /\ registry.count = Cardinality(registry.handles)
    /\ \A s \in Slots : Borrows(s) =>
          slot[s].attached \/ \E r \in Routines : Refers(stack[r], s)

\* A Go handle is dropped exactly when its Rust object is gone, so each object is
\* freed once and none is lost; a dropped iterator holds no borrowed batch, and
\* what is dropped is out of the registry once the method returned.
FreedExactlyOnce ==
    \A s \in Slots :
        slot[s].kind # None =>
            /\ slot[s].dropped <=> slot[s].rust = "gone"
            /\ slot[s].dropped => ~slot[s].keeps /\ ~slot[s].attached

\* A goroutine waits for a lock that it has itself (or that a waiting writer
\* keeps from it): LatestRevision inside Revision behind a waiting Close, and a
\* verified proof that drops itself on a closed registry.
SelfBlocked(r) ==
    \/ At(r, "handle") /\ handleLock.readers[r] > 0 /\ handleLock.writer # None
    \/ At(r, "request") /\ slot[Top(r).on].writer = r

\* The goroutines never all wait for each other: while one is inside a method, one
\* of those inside can take a step, or the context of a Close is still to be
\* cancelled.  The locks (handleLock, commitLock, the leases, the registry's
\* waiters) are taken in different orders by different methods.  A goroutine that
\* blocks itself is the one exception.
NeverStuck ==
    (\E r \in Routines : Inside(r)) =>
        \E r \in Routines : ENABLED (Step(r) \/ Cancel(r)) \/ SelfBlocked(r)
=============================================================================
