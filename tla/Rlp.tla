-------------------------------- MODULE Rlp ---------------------------------
(***************************************************************************)
(* The RLP codec of storage/src/rlp.rs, byte by byte, and what is read     *)
(* from an account value with it.  A byte string is a sequence of 0..255;  *)
(* a result is a record ok, v, and which RlpError it is makes no           *)
(* difference to any caller.                                               *)
(***************************************************************************)
EXTENDS Naturals, Sequences, SequencesExt

RlpOk(v) == [ok |-> TRUE, v |-> v]
RlpError == [ok |-> FALSE, v |-> <<>>]
\* The ? operator: go on with the value, or return the error.
Then(r, Next(_)) == IF r.ok THEN Next(r.v) ELSE RlpError
Check(condition, r) == IF condition THEN r ELSE RlpError

\* The suffix of b after its first n bytes, and its bytes m + 1 to n.
After(b, n) == SubSeq(b, n + 1, Len(b))
Slice(b, m, n) == SubSeq(b, m + 1, n)

-----------------------------------------------------------------------------
(* Writing.                                                                *)

\* minimal_be_len and the bytes themselves, for lengths below 2^24.
BigEndian(n) ==
    IF n = 0 THEN <<>>
    ELSE IF n < 256 THEN <<n>>
    ELSE IF n < 65536 THEN <<n \div 256, n % 256>>
    ELSE <<n \div 65536, (n \div 256) % 256, n % 256>>

\* write_header; header_len is its length.
WriteHeader(len, short_base) ==
    IF len < 56 THEN <<short_base + len>>
    ELSE <<short_base + 55 + Len(BigEndian(len))>> \o BigEndian(len)

\* write_bytes; bytes_encoded_len is its length.
WriteBytes(b) ==
    IF Len(b) = 1 /\ b[1] < 128 THEN b ELSE WriteHeader(Len(b), 128) \o b

\* RlpItem; Empty is the empty byte string.
BytesItem(b) == [kind |-> "Bytes", b |-> b]
RawItem(b) == [kind |-> "Raw", b |-> b]
WriteItem(item) == IF item.kind = "Raw" THEN item.b ELSE WriteBytes(item.b)

\* encode_list.
EncodeList(items) ==
    LET payload == FlattenSeq([i \in DOMAIN items |-> WriteItem(items[i])])
    IN  WriteHeader(Len(payload), 192) \o payload

-----------------------------------------------------------------------------
(* Reading.                                                                *)

ItemHeader(kind, header_len, payload_len) ==
    RlpOk([kind |-> kind, header_len |-> header_len, total |-> header_len + payload_len])

\* read_be_usize.
ReadBe(bytes) ==
    LET value[n \in 0 .. Len(bytes)] == IF n = 0 THEN 0 ELSE 256 * value[n - 1] + bytes[n]
    IN  value[Len(bytes)]

\* parse_long_header, on its length bytes.
LongHeader(kind, bytes, len) ==
    Check(bytes[1] # 0 /\ len >= 56, ItemHeader(kind, 1 + Len(bytes), len))

\* A minimal length of more than three bytes is longer than every input here:
\* such an item is refused as truncated or as an overflow.
ParseLongHeader(kind, input, len_of_len) ==
    IF len_of_len > 3 \/ Len(input) < 1 + len_of_len THEN RlpError
    ELSE LongHeader(kind, Slice(input, 1, 1 + len_of_len),
                    ReadBe(Slice(input, 1, 1 + len_of_len)))

\* parse_header.
ParseHeader(input) ==
    CASE input = <<>> -> RlpError
      [] input # <<>> /\ input[1] < 128 -> ItemHeader("Bytes", 0, 1)
      [] input # <<>> /\ input[1] \in 128..183 ->
            Check(~(input[1] = 129 /\ Len(input) > 1 /\ input[2] < 128),
                  ItemHeader("Bytes", 1, input[1] - 128))
      [] input # <<>> /\ input[1] \in 192..247 -> ItemHeader("List", 1, input[1] - 192)
      [] OTHER -> ParseLongHeader(IF input[1] < 192 THEN "Bytes" ELSE "List", input,
                                  input[1] - (IF input[1] < 192 THEN 183 ELSE 247))

\* RlpList::parse: the payload of a list that is the whole input.
ParseList(bytes) ==
    Then(ParseHeader(bytes),
         LAMBDA h : Check(h.kind = "List" /\ h.total = Len(bytes),
                          RlpOk(After(bytes, h.header_len))))

\* next_field: the first byte string and what follows it.
NextField(payload) ==
    Then(ParseHeader(payload),
         LAMBDA h : Check(h.total <= Len(payload) /\ h.kind = "Bytes",
                          RlpOk([field |-> Slice(payload, h.header_len, h.total),
                                 after |-> After(payload, h.total)])))

\* RlpList::fields.
RECURSIVE Fields(_)
Fields(payload) ==
    IF payload = <<>> THEN RlpOk(<<>>)
    ELSE Then(NextField(payload),
              LAMBDA n : Then(Fields(n.after), LAMBDA rest : RlpOk(<<n.field>> \o rest)))

\* RlpList::nth_bytes: later fields are not looked at.
RECURSIVE NthBytes(_, _)
NthBytes(payload, i) ==
    Then(NextField(payload),
         LAMBDA n : IF i = 0 THEN RlpOk(n.field) ELSE NthBytes(n.after, i - 1))

\* replace_list_field, the loop: where the encoding of field i starts and ends,
\* offset bytes having been passed.  Fields before it may be lists.
RECURSIVE FieldSpan(_, _, _)
FieldSpan(rest, offset, i) ==
    Then(ParseHeader(rest),
         LAMBDA h :
            IF h.total > Len(rest) THEN RlpError
            ELSE IF i > 0 THEN FieldSpan(After(rest, h.total), offset + h.total, i - 1)
            ELSE Check(h.kind = "Bytes", RlpOk([start |-> offset, end |-> offset + h.total])))

\* replace_list_field: the list with its new payload.
Replaced(payload, replaced) == WriteHeader(Len(replaced), 192) \o replaced
ReplaceListField(input, i, replacement) ==
    Then(ParseList(input),
         LAMBDA payload :
            Then(FieldSpan(payload, 0, i),
                 LAMBDA span : RlpOk(Replaced(payload,
                                       Slice(payload, 0, span.start) \o WriteBytes(replacement)
                                         \o After(payload, span.end)))))

-----------------------------------------------------------------------------
(* Account values.                                                         *)

\* parse_be_uint and parse_fixed.
ParseBeUint(bytes, n) ==
    IF Len(bytes) > n THEN RlpError ELSE RlpOk([i \in 1 .. n - Len(bytes) |-> 0] \o bytes)
ParseFixed(bytes, n) == IF Len(bytes) = n THEN RlpOk(bytes) ELSE RlpError

\* AccountFields::from_rlp_inner: four fields, and any that follow.
AccountOf(f) ==
    Then(ParseBeUint(f[1], 8), LAMBDA nonce :
    Then(ParseBeUint(f[2], 32), LAMBDA balance :
    Then(ParseFixed(f[3], 32), LAMBDA storage_root :
    Then(ParseFixed(f[4], 32), LAMBDA code_hash :
        RlpOk([nonce |-> nonce, balance |-> balance,
               storage_root |-> storage_root, code_hash |-> code_hash])))))
AccountFieldsFromRlp(bytes) ==
    Then(ParseList(bytes), LAMBDA payload :
    Then(Fields(payload), LAMBDA f : IF Len(f) < 4 THEN RlpError ELSE AccountOf(f)))

\* account_code_hash; <<>> when the account has no code.  KECCAK_EMPTY is some
\* string of 32 bytes.
KECCAK_EMPTY == [i \in 1 .. 32 |-> 197]
AccountCodeHash(bytes) ==
    Then(ParseList(bytes), LAMBDA payload :
    Then(NthBytes(payload, 3), LAMBDA code :
        Check(Len(code) = 32, RlpOk(IF code = KECCAK_EMPTY THEN <<>> ELSE code))))
=============================================================================
