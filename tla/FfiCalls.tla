------------------------------ MODULE FfiCalls ------------------------------
(***************************************************************************)
(* The C interface of firewood (ffi/src/ in Rust) as its callers see it,   *)
(* and the Go code that decodes what it returns (ffi/ in Go).  No state:   *)
(* the module Handles runs Go methods that make these calls.               *)
(*                                                                         *)
(* A call is a record of what it does to the objects it is given:          *)
(*   db       whether it dereferences the database handle, or frees it     *)
(*   on, by   the kind of handle it is given, and whether it takes it by   *)
(*            shared reference, by exclusive reference or by value (Box)   *)
(*   latest   what it does to the latest state of the database             *)
(*   gives    the kind of handle a success moves to the caller             *)
(*   result   the type of its result                                       *)
(*   ends     how the Rust code may end: an outcome of the operators below *)
(*   context  what it does to the proposal a range proof keeps             *)
(***************************************************************************)
EXTENDS Naturals, Sequences, FiniteSets

Call(db, on, by, latest, gives, result, ends) ==
    [db |-> db, on |-> on, by |-> by, latest |-> latest, gives |-> gives,
     result |-> result, ends |-> ends, context |-> "keeps"]

-----------------------------------------------------------------------------
(* How the Rust code ends.  "some" is a value, "empty" a value of no       *)
(* bytes, "none" an absent value, "handle" a new object, "unit" nothing.   *)

\* invoke: a panic of the closure is caught and becomes an outcome.
invoke(ends) == ends \cup {"panic"}

\* invoke_with_handle: a null pointer never reaches the closure.
invoke_with_handle(ends) == invoke(ends) \cup {"null"}

\* The methods of DatabaseHandle.
get_latest == {"notFound", "none", "some", "empty", "err"}
create_batch == {"none", "some", "err"}
get_revision == {"handle", "notFound", "err"}
current_root_hash == {"none", "some"}
reconstruct_from_view == {"handle", "err"}
merge_key_value_range == {"handle", "err"}
change_proof == {"handle", "startNotFound", "endNotFound", "err"}
verify_change_proof == {"handle", "err"}
dump_to_string == {"some", "err"}
close == {"unit", "err"}
create_proposal_handle == {"handle", "err"}

\* DatabaseHandleArgs::as_rev_manager_config, the check of RevisionManager::new,
\* and DatabaseHandle::new: the arguments that may open a database.
as_rev_manager_config(args) ==
    /\ args.strategy \in 0..2
    /\ args.freelist_memory_limit_kb > 0
    /\ args.max_persistence_gap > 0
RevisionManager_new(args) == args.revisions > args.max_persistence_gap
DatabaseHandle_new(args) ==
    IF /\ args.tagUtf8 /\ as_rev_manager_config(args)
       /\ args.pathUtf8 /\ args.path # ""
       /\ RevisionManager_new(args)
    THEN {"handle", "err"} ELSE {"err"}

\* Views: a value, an iterator, and a proposal committed.
val == {"none", "some", "empty", "err"}
iter_from == {"handle"}
commit_proposal == {"none", "some", "err"}
commit_proposal_with_rebase == {"none", "some", "err"}
iter_next == {"none", "pair", "err"}
iter_next_n == {"batch", "err"}
RevisionHandle_reconstruct == reconstruct_from_view \cup {"unsupported"}
ReconstructedHandle_reconstruct == {"handle", "err"}
clone_view == {"handle"}

-----------------------------------------------------------------------------
(* The result types: the variant an outcome becomes and the memory that    *)
(* moves to the caller with it.                                            *)

Variant(tag, owns) == [tag |-> tag, owns |-> owns]

\* CResult::from_err and from_panic; NullHandleResult.
from_err == Variant("Err", "bytes")
null_handle_pointer_error == Variant("NullHandlePointer", "nothing")
NoValueOf(o) == IF o = "null" THEN null_handle_pointer_error ELSE from_err

VoidResult(o) ==
    CASE o = "unit" -> Variant("Ok", "nothing")
      [] OTHER -> NoValueOf(o)
HandleResult(o) == IF o = "handle" THEN Variant("Ok", "handle") ELSE from_err
ValueResult(o) ==
    CASE o = "none" -> Variant("None", "nothing")
      [] o = "notFound" -> Variant("RevisionNotFound", "nothing")
      [] o \in {"some", "empty"} -> Variant("Some", "bytes")
      [] OTHER -> NoValueOf(o)
HashResult(o) ==
    CASE o = "none" -> Variant("None", "nothing")
      [] o = "some" -> Variant("Some", "nothing")
      [] OTHER -> NoValueOf(o)
RangeProofResult(o) ==
    CASE o = "handle" -> Variant("Ok", "handle")
      [] o = "notFound" -> Variant("RevisionNotFound", "nothing")
      [] o = "emptyTrie" -> Variant("EmptyTrie", "nothing")
      [] OTHER -> NoValueOf(o)
ChangeProofResult(o) ==
    CASE o = "handle" -> Variant("Ok", "handle")
      [] o = "startNotFound" -> Variant("StartRevisionNotFound", "nothing")
      [] o = "endNotFound" -> Variant("EndRevisionNotFound", "nothing")
      [] OTHER -> NoValueOf(o)
EthProofResult(o) ==
    CASE o = "proof" -> Variant("Ok", "proof")
      [] o = "unsupported" -> Variant("NotSupported", "nothing")
      [] OTHER -> NoValueOf(o)
NextKeyRangeResult(o) ==
    CASE o = "none" -> Variant("None", "nothing")
      [] o = "range" -> Variant("Some", "range")
      [] o = "unverified" -> Variant("NotPrepared", "nothing")
      [] OTHER -> NoValueOf(o)
CodeIteratorResult(o) ==
    CASE o = "handle" -> Variant("Ok", "handle")
      [] OTHER -> NoValueOf(o)
ProposalResult(o) ==
    CASE o = "handle" -> Variant("Ok", "handle")
      [] OTHER -> NoValueOf(o)
IteratorResult(o) ==
    CASE o = "handle" -> Variant("Ok", "handle")
      [] OTHER -> NoValueOf(o)
KeyValueResult(o) ==
    CASE o = "none" -> Variant("None", "nothing")
      [] o = "pair" -> Variant("Some", "pair")
      [] OTHER -> NoValueOf(o)
KeyValueBatchResult(o) ==
    CASE o = "batch" -> Variant("Some", "batch")
      [] OTHER -> NoValueOf(o)
RevisionResult(o) ==
    CASE o = "handle" -> Variant("Ok", "handle")
      [] o = "notFound" -> Variant("RevisionNotFound", "nothing")
      [] OTHER -> NoValueOf(o)
ReconstructedResult(o) ==
    CASE o = "handle" -> Variant("Ok", "handle")
      [] OTHER -> NoValueOf(o)
RenderedMetricsResult(o) == IF o = "metrics" THEN Variant("Ok", "metrics") ELSE from_err

\* The variant of the type named ty that the outcome o becomes.
Result(ty, o) ==
    CASE ty = "Void" -> VoidResult(o)
      [] ty = "Handle" -> HandleResult(o)
      [] ty = "Value" -> ValueResult(o)
      [] ty = "Hash" -> HashResult(o)
      [] ty = "RangeProof" -> RangeProofResult(o)
      [] ty = "ChangeProof" -> ChangeProofResult(o)
      [] ty = "EthProof" -> EthProofResult(o)
      [] ty = "NextKeyRange" -> NextKeyRangeResult(o)
      [] ty = "CodeIterator" -> CodeIteratorResult(o)
      [] ty = "Proposal" -> ProposalResult(o)
      [] ty = "Iterator" -> IteratorResult(o)
      [] ty = "KeyValue" -> KeyValueResult(o)
      [] ty = "KeyValueBatch" -> KeyValueBatchResult(o)
      [] ty = "Revision" -> RevisionResult(o)
      [] ty = "Reconstructed" -> ReconstructedResult(o)
      [] ty = "Metrics" -> RenderedMetricsResult(o)

-----------------------------------------------------------------------------
(* The Go decoders: the value and the error a method returns, the memory   *)
(* it frees before it returns and the memory it goes on owning.            *)

Returns(value, err, freed, kept) ==
    [value |-> value, err |-> err, freed |-> freed, kept |-> kept]

\* ownedBytes.intoError: the message is copied and its memory freed.
intoError == Returns("nil", "message", "bytes", "nothing")
errDBClosed == Returns("nil", "closed", "nothing", "nothing")
NoValueIn(r) ==
    CASE r.tag = "NullHandlePointer" -> errDBClosed
      [] r.tag = "Err" -> intoError
      [] OTHER -> Returns("nil", "unknown tag", "nothing", "nothing")

getHashKeyFromHashResult(r) ==
    CASE r.tag = "None" -> Returns("empty root", "nil", "nothing", "nothing")
      [] r.tag = "Some" -> Returns("hash", "nil", "nothing", "nothing")
      [] OTHER -> NoValueIn(r)
getErrorFromVoidResult(r) ==
    CASE r.tag = "Ok" -> Returns("nothing", "nil", "nothing", "nothing")
      [] OTHER -> NoValueIn(r)
getValueFromValueResult(r) ==
    CASE r.tag = "RevisionNotFound" -> Returns("nil", "not found", "nothing", "nothing")
      [] r.tag = "None" -> Returns("absent", "nil", "nothing", "nothing")
      [] r.tag = "Some" -> Returns("bytes", "nil", "bytes", "nothing")
      [] OTHER -> NoValueIn(r)
getKeyValueFromResult(r) ==
    CASE r.tag = "None" -> Returns("absent", "nil", "nothing", "nothing")
      [] r.tag = "Some" -> Returns("pair", "nil", "nothing", "pair")
      [] OTHER -> NoValueIn(r)
getKeyValueBatchFromResult(r) ==
    CASE r.tag = "Some" -> Returns("batch", "nil", "nothing", "batch")
      [] OTHER -> NoValueIn(r)
getDatabaseFromHandleResult(r) ==
    CASE r.tag = "Ok" -> Returns("handle", "nil", "nothing", "handle")
      [] OTHER -> NoValueIn(r)
getRevisionFromResult(r) ==
    CASE r.tag = "RevisionNotFound" -> Returns("nil", "not found", "nothing", "nothing")
      [] r.tag = "Ok" -> Returns("handle", "nil", "nothing", "handle")
      [] OTHER -> NoValueIn(r)
getProposalFromProposalResult(r) ==
    CASE r.tag = "Ok" -> Returns("handle", "nil", "nothing", "handle")
      [] OTHER -> NoValueIn(r)
decodeReconstructedResult(r) ==
    CASE r.tag = "Ok" -> Returns("handle", "nil", "nothing", "handle")
      [] OTHER -> NoValueIn(r)
getIteratorFromIteratorResult(r) ==
    CASE r.tag = "Ok" -> Returns("handle", "nil", "nothing", "handle")
      [] OTHER -> NoValueIn(r)
getRangeProofFromRangeProofResult(r) ==
    CASE r.tag = "RevisionNotFound" -> Returns("nil", "not found", "nothing", "nothing")
      [] r.tag = "EmptyTrie" -> Returns("nil", "empty trie", "nothing", "nothing")
      [] r.tag = "Ok" -> Returns("handle", "nil", "nothing", "handle")
      [] OTHER -> NoValueIn(r)
getChangeProofFromChangeProofResult(r) ==
    CASE r.tag = "StartRevisionNotFound" -> Returns("nil", "start not found", "nothing", "nothing")
      [] r.tag = "EndRevisionNotFound" -> Returns("nil", "end not found", "nothing", "nothing")
      [] r.tag = "Ok" -> Returns("handle", "nil", "nothing", "handle")
      [] OTHER -> NoValueIn(r)
getNextKeyRangeFromNextKeyRangeResult(r) ==
    CASE r.tag = "NotPrepared" -> Returns("nil", "not prepared", "nothing", "nothing")
      [] r.tag = "None" -> Returns("absent", "nil", "nothing", "nothing")
      [] r.tag = "Some" -> Returns("range", "nil", "range", "nothing")
      [] OTHER -> NoValueIn(r)
newCodeIterator(r) ==
    CASE r.tag = "Ok" -> Returns("handle", "nil", "nothing", "handle")
      [] OTHER -> NoValueIn(r)
getEthProofFromResult(r) ==
    CASE r.tag = "NotSupported" -> Returns("nil", "not supported", "nothing", "nothing")
      [] r.tag = "Ok" -> Returns("proof", "nil", "proof", "nothing")
      [] OTHER -> NoValueIn(r)
gatherFromRust(r) ==
    CASE r.tag = "Ok" -> Returns("metrics", "nil", "metrics", "nothing")
      [] OTHER -> NoValueIn(r)

\* The decoder of the type named ty.
Decode(ty, r) ==
    CASE ty = "Void" -> getErrorFromVoidResult(r)
      [] ty = "Handle" -> getDatabaseFromHandleResult(r)
      [] ty = "Value" -> getValueFromValueResult(r)
      [] ty = "Hash" -> getHashKeyFromHashResult(r)
      [] ty = "RangeProof" -> getRangeProofFromRangeProofResult(r)
      [] ty = "ChangeProof" -> getChangeProofFromChangeProofResult(r)
      [] ty = "EthProof" -> getEthProofFromResult(r)
      [] ty = "NextKeyRange" -> getNextKeyRangeFromNextKeyRangeResult(r)
      [] ty = "CodeIterator" -> newCodeIterator(r)
      [] ty = "Proposal" -> getProposalFromProposalResult(r)
      [] ty = "Iterator" -> getIteratorFromIteratorResult(r)
      [] ty = "KeyValue" -> getKeyValueFromResult(r)
      [] ty = "KeyValueBatch" -> getKeyValueBatchFromResult(r)
      [] ty = "Revision" -> getRevisionFromResult(r)
      [] ty = "Reconstructed" -> decodeReconstructedResult(r)
      [] ty = "Metrics" -> gatherFromRust(r)

-----------------------------------------------------------------------------
(* The calls.  Views and proposals first.                                  *)

fwd_get_latest == Call("ref", "none", "none", "reads", "none", "Value",
                       invoke_with_handle(get_latest))
fwd_iter_on_revision == Call("none", "revision", "ref", "none", "iterator", "Iterator",
                             invoke_with_handle(iter_from))
fwd_iter_on_proposal == Call("none", "proposal", "ref", "none", "iterator", "Iterator",
                             invoke_with_handle(iter_from))
fwd_iter_on_reconstructed == Call("none", "reconstructed", "ref", "none", "iterator",
                                  "Iterator", invoke_with_handle(iter_from))
fwd_iter_next == Call("none", "iterator", "mut", "none", "none", "KeyValue",
                      invoke_with_handle(iter_next))
fwd_iter_next_n == Call("none", "iterator", "mut", "none", "none", "KeyValueBatch",
                        invoke_with_handle(iter_next_n))
fwd_free_iterator == Call("none", "iterator", "box", "none", "none", "Void",
                          invoke_with_handle({"unit"}))
fwd_get_revision == Call("ref", "none", "none", "none", "revision", "Revision",
                         invoke_with_handle(get_revision))
fwd_get_from_revision == Call("none", "revision", "ref", "none", "none", "Value",
                              invoke_with_handle(val))
fwd_free_revision == Call("none", "revision", "box", "none", "none", "Void",
                          invoke_with_handle({"unit"}))
fwd_get_from_proposal == Call("none", "proposal", "ref", "none", "none", "Value",
                              invoke_with_handle(val))
fwd_get_from_reconstructed == Call("none", "reconstructed", "ref", "none", "none", "Value",
                                   invoke_with_handle(val))
fwd_batch == Call("ref", "none", "none", "writes", "none", "Hash",
                  invoke_with_handle(create_batch))
fwd_propose_on_db == Call("ref", "none", "none", "reads", "proposal", "Proposal",
                          invoke_with_handle(create_proposal_handle))
fwd_propose_on_proposal == Call("none", "proposal", "ref", "none", "proposal", "Proposal",
                                invoke_with_handle(create_proposal_handle))
fwd_reconstruct_on_revision ==
    Call("none", "revision", "ref", "none", "reconstructed", "Reconstructed",
         invoke_with_handle(RevisionHandle_reconstruct))
fwd_reconstruct_on_reconstructed ==
    Call("none", "reconstructed", "box", "none", "reconstructed", "Reconstructed",
         invoke_with_handle(ReconstructedHandle_reconstruct))
fwd_clone_reconstructed ==
    Call("none", "reconstructed", "ref", "none", "reconstructed", "Reconstructed",
         invoke_with_handle(clone_view))
fwd_commit_proposal == Call("none", "proposal", "box", "writes", "none", "Hash",
                            invoke_with_handle(commit_proposal))
fwd_commit_proposal_with_rebase ==
    Call("none", "proposal", "box", "writes", "none", "Hash",
         invoke_with_handle(commit_proposal_with_rebase))
fwd_free_proposal == Call("none", "proposal", "box", "none", "none", "Void",
                          invoke_with_handle({"unit"}))
fwd_free_reconstructed == Call("none", "reconstructed", "box", "none", "none", "Void",
                               invoke_with_handle({"unit"}))
fwd_reconstructed_root_hash == Call("none", "reconstructed", "ref", "none", "none", "Hash",
                                    invoke_with_handle({"none", "some"}))
fwd_root_hash == Call("ref", "none", "none", "reads", "none", "Hash",
                      invoke_with_handle(current_root_hash))
fwd_db_dump == Call("ref", "none", "none", "reads", "none", "Value",
                    invoke_with_handle(dump_to_string))
fwd_revision_dump == Call("none", "revision", "ref", "none", "none", "Value",
                          invoke_with_handle(dump_to_string))
fwd_proposal_dump == Call("none", "proposal", "ref", "none", "none", "Value",
                          invoke_with_handle(dump_to_string))
fwd_reconstructed_dump == Call("none", "reconstructed", "ref", "none", "none", "Value",
                               invoke_with_handle(dump_to_string))

\* The database itself, and the process.
fwd_open_db(args) == Call("none", "none", "none", "none", "database", "Handle",
                          invoke(DatabaseHandle_new(args)))

\* The Go side of opening: defaultConfig, the options (a function from the fields
\* they set), and New, which checks the configuration before it makes the call.
\* Strings of Go are bytes and need not be UTF-8.
defaultConfig ==
    [node_cache_memory_limit |-> 128, freelist_memory_limit_kb |-> 4096, revisions |-> 100,
     strategy |-> 0, max_persistence_gap |-> 1, tagUtf8 |-> TRUE]
Option(conf, opts) == [f \in DOMAIN conf |-> IF f \in DOMAIN opts THEN opts[f] ELSE conf[f]]
invalidCacheStrategy == 3
New(path, pathUtf8, opts) ==
    LET conf == Option(defaultConfig, opts)
    IN  IF \/ conf.strategy >= invalidCacheStrategy \/ conf.revisions < 2
           \/ conf.node_cache_memory_limit < 1 \/ conf.freelist_memory_limit_kb < 1
        THEN {"refused"}
        ELSE fwd_open_db([path |-> path, pathUtf8 |-> pathUtf8, tagUtf8 |-> conf.tagUtf8,
                          strategy |-> conf.strategy, revisions |-> conf.revisions,
                          node_cache_memory_limit |-> conf.node_cache_memory_limit,
                          freelist_memory_limit_kb |-> conf.freelist_memory_limit_kb,
                          max_persistence_gap |-> conf.max_persistence_gap]).ends
fwd_close_db == Call("box", "none", "none", "writes", "none", "Void",
                     invoke_with_handle(close))
fwd_start_metrics == Call("none", "none", "none", "none", "none", "Void",
                          invoke({"unit", "err"}))
fwd_gather_rendered == Call("none", "none", "none", "none", "none", "Metrics",
                            invoke({"metrics", "err"}))
fwd_start_logs == Call("none", "none", "none", "none", "none", "Void",
                       invoke({"unit", "err"}))
fwd_block_replay_flush == Call("none", "none", "none", "none", "none", "Void",
                               invoke({"unit", "err"}))

\* The memory a result moved to the caller, given back.
Free(memory) == Call("none", memory, "box", "none", "none", "Void", invoke({"unit"}))
fwd_free_owned_bytes == Free("bytes")
fwd_free_owned_key_value_batch == Free("batch")
fwd_free_owned_kv_pair == Free("pair")
fwd_free_rendered_metrics == Free("metrics")
fwd_free_eth_proof == Call("none", "proof", "box", "none", "none", "Void",
                           invoke_with_handle({"unit"}))

-----------------------------------------------------------------------------
(* Proofs.  RangeProofContext keeps the proposal it has prepared, which    *)
(* borrows the database, or the hash it has committed.                     *)

ContextStates == {"none", "proposed", "committed"}

\* verify_and_propose and verify_and_commit: the states a success and a failure
\* may leave.  verify comes first and leaves the state alone; then the commit
\* takes the prepared proposal out, and a failure puts none back.
verify_and_propose(state, ok) ==
    IF ok /\ state = "none" THEN {"proposed"} ELSE {state}
verify_and_commit(state, ok) ==
    IF ok THEN {"committed"} ELSE IF state = "proposed" THEN {"none", state} ELSE {state}

\* RangeProofContext::find_next_key.
RangeProofContext_find_next_key(state) ==
    IF state = "none" THEN {"unverified"} ELSE {"none", "range", "err"}
ChangeProofContext_find_next_key == {"none", "range", "err"}

\* require_ethereum, CodeIteratorHandle::from_key_values and from_batch_ops.
code_hash_iter == {"handle", "err"}

fwd_db_range_proof == Call("ref", "none", "none", "none", "range", "RangeProof",
                           invoke_with_handle({"handle", "notFound", "emptyTrie", "err"}))
fwd_db_range_proof_from_bytes == Call("ref", "none", "none", "none", "range", "RangeProof",
                                      invoke_with_handle({"handle", "err"}))
fwd_range_proof_verify == Call("none", "range", "mut", "none", "none", "Void",
                               invoke_with_handle({"unit", "err"}))
fwd_db_verify_range_proof ==
    [Call("ref", "range", "mut", "reads", "none", "Void",
          invoke_with_handle({"unit", "err"})) EXCEPT !.context = "proposes"]
fwd_db_verify_and_commit_range_proof ==
    [Call("ref", "range", "mut", "writes", "none", "Hash",
          invoke_with_handle(commit_proposal)) EXCEPT !.context = "commits"]
fwd_range_proof_find_next_key ==
    Call("none", "range", "mut", "none", "none", "NextKeyRange",
         invoke_with_handle(UNION {RangeProofContext_find_next_key(s) : s \in ContextStates}))
fwd_range_proof_code_hash_iter ==
    Call("none", "range", "ref", "none", "code", "CodeIterator",
         invoke_with_handle(code_hash_iter))
fwd_range_proof_to_bytes == Call("none", "range", "ref", "none", "none", "Value",
                                 invoke_with_handle({"some", "err"}))
fwd_free_range_proof == Call("none", "range", "box", "none", "none", "Void",
                             invoke_with_handle({"unit"}))
fwd_db_change_proof == Call("ref", "none", "none", "none", "change", "ChangeProof",
                            invoke_with_handle(change_proof))
fwd_db_change_proof_from_bytes ==
    Call("ref", "none", "none", "none", "change", "ChangeProof",
         invoke_with_handle({"handle", "err"}))
fwd_db_verify_change_proof ==
    Call("ref", "change", "ref", "reads", "proposal", "Proposal",
         invoke_with_handle(verify_change_proof))
fwd_db_verify_and_commit_change_proof ==
    Call("ref", "change", "ref", "writes", "none", "Hash",
         invoke_with_handle(commit_proposal_with_rebase))
fwd_change_proof_find_next_key ==
    Call("none", "change", "ref", "none", "none", "NextKeyRange",
         invoke_with_handle(ChangeProofContext_find_next_key))
fwd_change_proof_code_hash_iter ==
    Call("none", "change", "ref", "none", "code", "CodeIterator",
         invoke_with_handle(code_hash_iter))
fwd_change_proof_to_bytes == Call("none", "change", "ref", "none", "none", "Value",
                                  invoke_with_handle({"some", "err"}))
fwd_free_change_proof == Call("none", "change", "box", "none", "none", "Void",
                              invoke_with_handle({"unit"}))
fwd_code_hash_iter_next == Call("none", "code", "mut", "none", "none", "Hash",
                                invoke_with_handle({"none", "some", "err"}))
fwd_code_hash_iter_free == Call("none", "code", "box", "none", "none", "Void",
                                invoke_with_handle({"unit"}))

\* eth_get_proof_on: a key that is not 32 bytes is refused before the proof.
eth_get_proof_on == {"proof", "unsupported", "err"}
fwd_eth_get_proof == Call("none", "revision", "ref", "none", "none", "EthProof",
                          invoke_with_handle(eth_get_proof_on))
fwd_eth_get_proof_on_reconstructed ==
    Call("none", "reconstructed", "ref", "none", "none", "EthProof",
         invoke_with_handle(eth_get_proof_on))
=============================================================================
