----------------------------- MODULE SizedProof -----------------------------
(***************************************************************************)
(* Proofs sized to a budget of wire bytes (firewood/src/merkle/sized.rs):  *)
(* how many items of the stream go into one chunk, when the length of a    *)
(* chunk is known only once it is built and compressed.                    *)
(*                                                                         *)
(* The request s has the stream of items, the start proof, the budget, and *)
(* the locals of build_sized_chunk: kept is the number of items taken from *)
(* the stream, count those of the last candidate, fit the largest          *)
(* candidate within the budget.  Each pass of the loop is one step.  What  *)
(* proving a key gives (the end proof) and what zstd makes of a body are   *)
(* inputs of the step.  fits is a history: the counts that ever fit.       *)
(***************************************************************************)
EXTENDS ProofCodec

CONSTANTS
    MAX_CORRECTION_PASSES,  \* probes after the first
    DEFAULT_EDGE_BYTES,     \* assumed for the edge proofs before a probe
    BODY_LIMIT_MARGIN,      \* cut beyond the excess of a body that is too long
    PROOF_HEADER_SIZE       \* size_of::<Header>()

TARGET_FILL_PERCENT == 99
SUFFICIENT_FILL_PERCENT == 97
percent_of(bytes, percent) == (bytes * percent) \div 100
saturating_sub(a, b) == IF a > b THEN a - b ELSE 0

-----------------------------------------------------------------------------
(* CompressionRatio: compressed over uncompressed, in fixed point.         *)

SCALE == 65536
INITIAL_ESTIMATE == (SCALE * 52) \div 100
from_lengths(compressed, uncompressed) ==
    Max({1, (compressed * SCALE) \div Max({1, uncompressed})})
measured(compressed, uncompressed) ==
    Min({Max({from_lengths(compressed, uncompressed), SCALE \div 64}), 2 * SCALE})
uncompressed_for(ratio, compressed) == (compressed * SCALE) \div ratio

-----------------------------------------------------------------------------
(* What items cost, and how a chunk is built.  An item "Err" is an error   *)
(* of the stream.                                                          *)

required_space(n) == Len(encode_var(n))
encoded_sequence_len(bytes) == required_space(Len(bytes)) + Len(bytes)

\* ChunkBuilder::item_cost: key and value; an operation has a tag as well.
item_cost(item) ==
    encoded_sequence_len(item.key)
      + (IF item.op = "Pair" THEN 0 ELSE 1)
      + (IF item.op \in {"Pair", "Put"} THEN encoded_sequence_len(item.value) ELSE 0)

\* costs[n]: of the first n items.
costs(items, n) == FoldLeft(LAMBDA c, item : c + item_cost(item), 0, SubSeq(items, 1, n))

\* ChunkBuilder::build: a range proof leaves its right edge open at the end of
\* the stream, a change proof proves the key of its last operation.
build(s, count, natural_end, end) ==
    [kind |-> s.kind, mode |-> s.mode, start |-> s.start,
     end |-> IF count = 0 \/ (s.kind = "Range" /\ natural_end) THEN <<>> ELSE end,
     items |-> SubSeq(s.items, 1, count)]

\* edge_bytes: what is neither an item nor their number.
edge_bytes(body_len, items, count) ==
    saturating_sub(body_len, costs(items, count) + required_space(count))

\* grow_prefix: items while they stay within the allowance, at least one; the
\* number kept, or the error of the stream.
grow_prefix(items, kept, allowance) ==
    LET admits(n) ==
            LET payload_len == costs(items, n + 1) + required_space(n + 1)
            IN  n = 0 \/ (payload_len <= MAX_DECOMPRESSED_LEN /\ payload_len <= allowance)
        stops == {n \in kept .. Len(items) :
                    n = Len(items) \/ items[n + 1].op = "Err" \/ ~admits(n)}
        n == Min(stops)
    IN  IF n < Len(items) /\ items[n + 1].op = "Err" THEN Fail ELSE Got(n, 0)

\* shrunk_count: from the tail, until what is dropped covers the excess.
shrunk_count(items, count, excess) ==
    LET covers(n) == costs(items, count) - costs(items, n) >= excess
    IN  Max({1} \cup {n \in 1 .. count - 1 : covers(n)})

-----------------------------------------------------------------------------
(* build_sized_chunk.                                                      *)

NoExcess == -1
NoFit == [count |-> -1]

\* The locals at the start; the hint is that of the chunk before, or NoHint.
NoHint == [ratio |-> INITIAL_ESTIMATE, edges |-> DEFAULT_EDGE_BYTES]
Request(kind, mode, empty, start, items, budget, hint, state) ==
    [kind |-> kind, mode |-> mode, empty |-> empty, start |-> start, items |-> items,
     budget |-> budget, kept |-> 0, count |-> 0, ratio |-> hint.ratio, edges |-> hint.edges,
     fit |-> NoFit, natural_end |-> FALSE, excess |-> NoExcess, pass |-> 0, probes |-> 0,
     fits |-> {}, state |-> state]

\* range_proof_sized and change_proof_sized: start_key says whether a start key is
\* given, start is its proof; empty is a trie in which no key can be proved.
range_proof_sized(mode, empty, start_key, start, items, budget, hint) ==
    Request("Range", mode, empty, start, items, budget, hint,
            CASE empty /\ ~start_key -> "RangeProofOnEmptyTrie"
              [] empty /\ start_key -> "Empty"
              [] OTHER -> "loop")
change_proof_sized(mode, empty, start_key, start, items, budget, hint) ==
    Request("Change", mode, empty, start, items, budget, hint,
            IF empty /\ start_key THEN "Empty" ELSE "loop")

Ended(s, how) == [s EXCEPT !.state = how]

\* Fit: a candidate within the budget.
Fit(s, count, message, wire_len, body_len, terminal) ==
    [count |-> count, message |-> message, wire_len |-> wire_len, body_len |-> body_len,
     edges |-> edge_bytes(body_len, s.items, count), terminal |-> terminal]
WithFit(s, fit) == [s EXCEPT !.fit = fit, !.fits = @ \cup {fit.count}]

wire_length(message) == PROOF_HEADER_SIZE + message.frame.len

\* A candidate within the budget: enough, or grown in the next pass.
accept(s, fit, shrinking) ==
    IF shrinking \/ fit.terminal \/ fit.wire_len >= percent_of(s.budget, SUFFICIENT_FILL_PERCENT)
    THEN Ended(WithFit(s, fit), "after")
    ELSE WithFit(s, fit)

\* The rest of a pass, from the message that serialize gave.
settle(s, sent, body_len, shrinking, terminal) ==
    LET wire_len == wire_length(sent.v)
        ratio == from_lengths(saturating_sub(wire_len, PROOF_HEADER_SIZE), body_len)
        known == [s EXCEPT !.ratio = ratio, !.edges = edge_bytes(body_len, s.items, s.count)]
    IN  CASE ~sent.ok /\ s.count > 1 ->
                [s EXCEPT !.excess = (body_len - MAX_DECOMPRESSED_LEN) + BODY_LIMIT_MARGIN]
          [] ~sent.ok /\ s.count <= 1 -> Ended(s, "BodyTooLarge")
          [] sent.ok /\ wire_len > s.budget ->
                IF s.count <= 1 THEN Ended(known, "ProofOverBudget")
                ELSE [known EXCEPT !.excess = uncompressed_for(ratio,
                        saturating_sub(wire_len, percent_of(s.budget, TARGET_FILL_PERCENT)))]
          [] OTHER -> accept(known, Fit(s, s.count, sent.v, wire_len, body_len, terminal),
                             shrinking)

\* A candidate of count items built and serialized.
probe(s, count, shrinking, end, compressed) ==
    LET terminal == s.natural_end /\ count = s.kept
        candidate == build(s, count, terminal, end)
    IN  IF s.empty /\ count > 0 THEN Ended(s, "Empty")
        ELSE settle([s EXCEPT !.count = count, !.excess = NoExcess, !.probes = @ + 1,
                              !.pass = @ + 1],
                    write_to_vec(candidate, compressed), Len(write_body_to_vec(candidate)),
                    shrinking, terminal)

\* The estimate of the body bytes that may be items.
allowance(s) ==
    saturating_sub(Min({uncompressed_for(s.ratio,
                            saturating_sub(percent_of(s.budget, TARGET_FILL_PERCENT),
                                           PROOF_HEADER_SIZE)),
                        MAX_DECOMPRESSED_LEN}),
                   s.edges)

\* A pass that shrinks without regard to a candidate that fit already.
shrink_always(s, shrunk, end, compressed) == probe(s, shrunk, TRUE, end, compressed)

\* A pass that shrinks, and one that grows.
shrink(s, shrunk, end, compressed) ==
    IF s.fit # NoFit /\ shrunk <= s.fit.count THEN Ended(s, "after")
    ELSE probe(s, shrunk, TRUE, end, compressed)
grow(s, grown, end, compressed) ==
    CASE ~grown.ok -> Ended(s, "StreamError")
      [] grown.ok /\ grown.v = s.count /\ s.pass > 0 -> Ended([s EXCEPT !.kept = grown.v], "after")
      [] OTHER -> probe([s EXCEPT !.kept = grown.v, !.natural_end = grown.v = Len(s.items)],
                        grown.v, FALSE, end, compressed)

\* single_item_fit: the smallest chunk, when no pass came within the budget.
single_item_fit(s, end, compressed) ==
    LET count == Min({s.kept, 1})
        terminal == s.natural_end /\ count = s.kept
        candidate == build(s, count, terminal, end)
        sent == write_to_vec(candidate, compressed)
        tried == [s EXCEPT !.probes = @ + 1, !.count = count]
    IN  CASE ~sent.ok -> Ended(tried, "BodyTooLarge")
          [] sent.ok /\ wire_length(sent.v) > s.budget -> Ended(tried, "ProofOverBudget")
          [] OTHER -> Ended(WithFit(tried, Fit(s, count, sent.v, wire_length(sent.v),
                                               Len(write_body_to_vec(candidate)), terminal)),
                            "Ok")

\* One pass of the loop, or what comes after it.
build_sized_chunk(s, end, compressed) ==
    IF s.state = "loop" /\ s.pass <= MAX_CORRECTION_PASSES
    THEN IF s.excess # NoExcess
         THEN shrink(s, shrunk_count(s.items, s.count, s.excess), end, compressed)
         ELSE grow(s, grow_prefix(s.items, s.kept, allowance(s)), end, compressed)
    ELSE IF s.fit # NoFit THEN Ended(s, "Ok") ELSE single_item_fit(s, end, compressed)

\* The hint for the next chunk: SizedProof::hint.
SizingHint(fit) ==
    [ratio |-> measured(saturating_sub(fit.wire_len, PROOF_HEADER_SIZE), fit.body_len),
     edges |-> fit.edges]
=============================================================================
