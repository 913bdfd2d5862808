----------------------------- MODULE StateSync -----------------------------
(***************************************************************************)
(* A client brings a range of its local trie to the state of a target      *)
(* revision of a peer, one bounded reply after another: with range proofs, *)
(* which carry the whole range, or with change proofs, which carry what    *)
(* changed since a base revision.  It composes the generators and the      *)
(* verifiers of MerkleProof with the way a reply is applied:               *)
(* Db::merge_key_value_range up to the proven right edge for a range proof,*)
(* and the proposal of Db::verify_change_proof for a change proof.  A      *)
(* verified proposal is committed before the next request.                 *)
(*                                                                         *)
(* A reply to an earlier request of the session may arrive late, in the    *)
(* place of the one that is awaited: the client checks it against the      *)
(* request it is waiting for.                                              *)
(***************************************************************************)
EXTENDS MerkleProof

CONSTANTS
    Keys,       \* the keys the tries may hold
    Values,     \* their values
    StartKeys,  \* the lower bounds a session may have (or Unbounded)
    EndKeys,    \* the upper bounds a session may have (or Unbounded)
    Limits,     \* the limits on the length of a reply
    Modes       \* which of the two kinds of proof is used

VARIABLES
    session,    \* the fixed part: mode, first, last, limit and the tries of the
                \* peer, base and target
    local,      \* the latest revision of the client
    cursor,     \* the lower bound of the request that is awaited
    earlier,    \* the lower bounds of the requests made before it
    status      \* "syncing", "done", "rejected" or "unanswered"

vars == <<session, local, cursor, earlier, status>>

\* Every trie that holds some of the keys.
Tries == {Canonical(kv) : kv \in UNION {[d -> Values] : d \in SUBSET Keys}}

\* The tries agree on the keys of a range.
Agree(a, b, start, end) ==
    \A k \in Keys : Within(k, start, end) => GetValue(a, k) = GetValue(b, k)

\* A session syncs a valid range; only change proofs have a base revision.
Sessions ==
    {s \in [mode : Modes, first : StartKeys, last : EndKeys, limit : Limits,
            base : Tries, target : Tries] :
        /\ ValidRange(s.first, s.last)
        /\ IF s.mode = "range" THEN s.base = Nil ELSE s.base # s.target}

Init ==
    /\ session \in Sessions
    /\ local \in Tries
    /\ cursor = session.first
    /\ earlier = {}
    /\ status = "syncing"

-----------------------------------------------------------------------------

\* The peer's reply to the request that starts at start.
Reply(start) ==
    IF session.mode = "range"
    THEN RangeProof(session.target, start, session.last, session.limit)
    ELSE ChangeProof(session.base, session.target, start, session.last, session.limit)

\* A verified range proof is merged up to the right edge it proves, a verified
\* change proof comes with its proposal.
Merged(proof, edge) == ApplyAll(local, MergeKeyValueRange(local, cursor, edge.val, proof.kvs))
AfterRange(proof, edge) ==
    IF edge.ok
    THEN Done([root |-> Merged(proof, edge), next |-> NextAfterRangeProof(proof, session.last)])
    ELSE Failed
AfterChange(proof, proposal) ==
    IF proposal.ok
    THEN Done([root |-> proposal.val, next |-> NextAfterChangeProof(proof, session.last)])
    ELSE Failed

\* What the client makes of a proof: its new revision, and where the next
\* request starts.
Verified(proof) ==
    IF session.mode = "range"
    THEN AfterRange(proof, VerifyRangeProof(cursor, session.last, RootHash(session.target),
                                            proof, session.limit))
    ELSE AfterChange(proof, VerifyChangeProof(local, proof, RootHash(session.target),
                                              cursor, session.last, session.limit))

\* The client applies what it verified and asks for the rest, if any.
Accept(v) ==
    /\ local' = v.root
    /\ IF v.next = Unbounded
       THEN status' = "done" /\ UNCHANGED <<cursor, earlier>>
       ELSE /\ cursor' = v.next
            /\ earlier' = earlier \cup {cursor}
            /\ UNCHANGED status

\* It applies a proof that verifies; otherwise its status becomes failed.
Conclude(v, failed) ==
    IF v.ok THEN Accept(v.val)
    ELSE status' = failed /\ UNCHANGED <<local, cursor, earlier>>

\* The awaited reply arrives.
Answer(reply) ==
    IF reply.ok THEN Conclude(Verified(reply.val), "rejected")
    ELSE status' = "unanswered" /\ UNCHANGED <<local, cursor, earlier>>
Receive ==
    /\ status = "syncing"
    /\ Answer(Reply(cursor))
    /\ UNCHANGED session

LateAnswer(reply) == reply.ok /\ Conclude(Verified(reply.val), status)

\* The reply to an earlier request arrives in its place; the client drops it
\* unless it verifies for the request it is waiting for.
ReceiveLate ==
    /\ status = "syncing"
    /\ \E start \in earlier : LateAnswer(Reply(start))
    /\ UNCHANGED session

Next == Receive \/ ReceiveLate

Spec == Init /\ [][Next]_vars

-----------------------------------------------------------------------------
(* Properties.                                                             *)

\* What the session has covered equals the target, at every moment: all keys
\* below the request that is awaited, and the whole range once it is done.
\* In particular a change proof applied to a client that was not at the base
\* revision is either rejected or right.
CoveredAgrees ==
    \A k \in Keys :
        (/\ Within(k, session.first, session.last)
         /\ status = "done" \/ (cursor # session.first /\ Less(k, cursor)))
        => GetValue(local, k) = GetValue(session.target, k)

\* The reply of a correct peer is never rejected: a range proof verifies
\* whatever the client holds, a change proof verifies whenever the client
\* agrees with the base revision on the range that is still to be synced,
\* whatever it holds elsewhere.
HonestAccepted ==
    [][status' = "rejected" =>
          /\ session.mode = "change"
          /\ ~Agree(local, session.base, cursor, session.last)]_vars

\* A reply moves the client toward the target and nowhere else: every key it
\* changes lies in the range of the request and takes the target's value.  A
\* truncated reply deletes nothing in the part of the range it does not prove.
OnlyTowardTarget ==
    [][\A k \in Keys : GetValue(local', k) # GetValue(local, k) =>
          /\ Within(k, cursor, session.last)
          /\ GetValue(local', k) = GetValue(session.target, k)]_vars

\* The requests of a session run out: every reply that does not end the
\* session moves the lower bound of the next request strictly up.
RequestsAdvance ==
    [][status' = "syncing" => cursor # cursor' /\ (cursor = Unbounded \/ Less(cursor, cursor'))]_vars
=============================================================================
