----------------------------- MODULE ProofCodec -----------------------------
(***************************************************************************)
(* How a range proof or a change proof travels: the canonical body         *)
(* (firewood/src/proofs/ser.rs and de.rs), the header (header.rs) and the  *)
(* zstd frame around the body (frame.rs).                                  *)
(*                                                                         *)
(* A proof has its kind, its hash mode, the nodes of its start and end     *)
(* proofs and its items: key-value pairs of a range proof, batch           *)
(* operations of a change proof.  A message is the header as a record, and *)
(* the frame: zstd is modelled by what the code asks of it, the length of  *)
(* a frame, the content size it declares and the bytes it holds.           *)
(***************************************************************************)
EXTENDS DiskFormat

CONSTANTS
    MAX_DECOMPRESSED_LEN,   \* the longest body
    MAX_COMPRESSION_RATIO,  \* the most a frame may expand
    MAX_KEY_BYTES           \* the longest key

MAX_KEY_NIBBLES == 2 * MAX_KEY_BYTES

-----------------------------------------------------------------------------
(* What a proof holds.                                                     *)

\* ValueDigest, and the absent one.
NoDigest == [is |-> "none"]
ValueOf(bytes) == [is |-> "value", v |-> bytes]
HashOf(h) == [is |-> "hash", v |-> h]

\* SHA-256, by a stand-in that separates the values of the instances.
Sha256(bytes) == [i \in 1 .. 32 |-> (Len(bytes) + bytes[1]) % 256]

\* ValueDigest::make_hash: long values are hashed under MerkleDB.
make_hash(mode, digest) ==
    IF digest.is = "value" /\ Len(digest.v) >= 32 /\ mode # "Ethereum"
    THEN HashOf(Hash(Sha256(digest.v)))
    ELSE digest

\* ProofNode; children are hashes by child index.
ProofNode(key, partial_len, digest, children) ==
    [key |-> key, partial_len |-> partial_len, digest |-> digest, children |-> children]

\* The items: a pair of a range proof, an operation of a change proof.
Pair(key, value) == [op |-> "Pair", key |-> key, value |-> value]
Put(key, value) == [op |-> "Put", key |-> key, value |-> value]
Delete(key) == [op |-> "Delete", key |-> key]
DeleteRange(prefix) == [op |-> "DeleteRange", key |-> prefix]

\* check_batch_op: what no proposal may apply.
check_batch_op(mode, op) ==
    /\ Len(op.key) <= MAX_KEY_BYTES
    /\ ~(mode = "Ethereum" /\ op.op = "Put" /\ op.value = <<>>)

-----------------------------------------------------------------------------
(* ser.rs: the canonical body.                                             *)

\* [u8] and PathBuf: the length, then the bytes (or one byte per nibble).
write_slice(bytes) == encode_var(Len(bytes)) \o bytes

\* [T]: the number of items, then the items, given by their bytes.
write_items(items) == encode_var(Len(items)) \o FlattenSeq(items)

\* HashType.
write_hash_type(mode, h) ==
    CASE mode = "Ethereum" /\ h.rlp -> <<1>> \o write_slice(h.bytes)
      [] mode = "Ethereum" /\ ~h.rlp -> <<0>> \o h.bytes
      [] OTHER -> h.bytes

\* Option<ValueDigest>.
write_value_digest(mode, digest) ==
    LET hashed == make_hash(mode, digest)
    IN  CASE hashed.is = "none" -> <<0>>
          [] hashed.is = "value" -> <<1, 0>> \o write_slice(hashed.v)
          [] hashed.is = "hash" -> <<1, 1>> \o write_hash_type(mode, hashed.v)

\* ChildMask::to_le_bytes and iter_indices.
to_le_bytes(mask) ==
    LET byte(low) == FoldSet(LAMBDA i, n : n + 2 ^ (i - low), 0,
                             {i \in mask : low <= i /\ i < low + 8})
    IN  <<byte(0), byte(8)>>
iter_indices(bytes) ==
    {i \in 0 .. 15 : (bytes[1 + (i \div 8)] \div 2 ^ (i % 8)) % 2 = 1}

\* ProofNode.
write_proof_node(mode, node) ==
    LET present == Ascending(DOMAIN node.children)
    IN  write_slice(node.key) \o encode_var(node.partial_len)
          \o write_value_digest(mode, node.digest) \o to_le_bytes(DOMAIN node.children)
          \o FlattenSeq([k \in 1 .. Len(present) |->
                            write_hash_type(mode, node.children[present[k]])])

\* BatchOp, and the pairs (K, V).
BatchOps == <<"Put", "Delete", "DeleteRange">>
write_batch_op(item) ==
    LET discriminant == CHOOSE d \in 0 .. 2 : BatchOps[d + 1] = item.op
    IN  <<discriminant>> \o write_slice(item.key)
          \o (IF item.op = "Put" THEN write_slice(item.value) ELSE <<>>)
write_pair(item) == write_slice(item.key) \o write_slice(item.value)

\* write_body_to_vec.
write_body_to_vec(proof) ==
    LET nodes(s) == write_items([k \in 1 .. Len(s) |-> write_proof_node(proof.mode, s[k])])
    IN  nodes(proof.start) \o nodes(proof.end)
          \o write_items([k \in 1 .. Len(proof.items) |->
                IF proof.kind = "Range" THEN write_pair(proof.items[k])
                ELSE write_batch_op(proof.items[k])])

-----------------------------------------------------------------------------
(* de.rs: reading it back.                                                 *)

\* &[u8] and Box<[u8]>: a length, then read_slice.
read_slice(b, p) == Then(read_varint(b, p), LAMBDA len, at : read_fixed_len(b, at, len))

\* HashType.
read_hash_type(mode, b, p) ==
    LET bare(at) == Then(read_fixed_len(b, at, 32), LAMBDA bytes, end : Got(Hash(bytes), end))
    IN  IF mode # "Ethereum" THEN bare(p)
        ELSE Then(read_byte(b, p), LAMBDA is, at :
                CASE is = 0 -> bare(at)
                  [] is = 1 -> Then(read_slice(b, at), LAMBDA bytes, end : Got(Rlp(bytes), end))
                  [] OTHER -> Fail)

\* Option<ValueDigest>.
read_value_digest(mode, b, p) ==
    LET some(at) ==
            Then(read_byte(b, at), LAMBDA is, after :
                CASE is = 0 ->
                        Then(read_slice(b, after), LAMBDA value, end : Got(ValueOf(value), end))
                  [] is = 1 ->
                        Then(read_hash_type(mode, b, after), LAMBDA hash, end :
                            Got(HashOf(hash), end))
                  [] OTHER -> Fail)
    IN  Then(read_byte(b, p), LAMBDA is, at :
            CASE is = 0 -> Got(NoDigest, at)
              [] is = 1 -> some(at)
              [] OTHER -> Fail)

\* PathBuf: at most MAX_KEY_NIBBLES, and nibbles only.
read_path(b, p) ==
    Then(read_slice(b, p), LAMBDA path, at :
        IF Len(path) <= MAX_KEY_NIBBLES /\ \A i \in DOMAIN path : path[i] < 16
        THEN Got(path, at) ELSE Fail)

\* The hashes of the children in mask, in index order.
read_child_hashes(mode, b, p, mask) ==
    LET step(r, i) ==
            Then(r, LAMBDA hashes, at :
                Then(read_hash_type(mode, b, at), LAMBDA hash, end :
                    Got([j \in DOMAIN hashes \cup {i} |-> IF j = i THEN hash ELSE hashes[j]],
                        end)))
    IN  FoldLeft(step, Got(<<>>, p), Ascending(mask))

\* ProofNode, its parts read one after the other.
read_proof_node(mode, b, p) ==
    Then(read_path(b, p), LAMBDA key, p1 :
    Then(read_varint(b, p1), LAMBDA partial_len, p2 :
    IF partial_len > Len(key) THEN Fail ELSE
    Then(read_value_digest(mode, b, p2), LAMBDA digest, p3 :
    Then(read_fixed_len(b, p3, 2), LAMBDA mask, p4 :
    Then(read_child_hashes(mode, b, p4, iter_indices(mask)), LAMBDA children, end :
        Got(ProofNode(key, partial_len, digest, children), end))))))

\* check_key_bytes on a slice just read.
read_key(b, p) ==
    Then(read_slice(b, p), LAMBDA key, at :
        IF Len(key) <= MAX_KEY_BYTES THEN Got(key, at) ELSE Fail)

\* BatchOp.
read_batch_op(b, p) ==
    Then(read_byte(b, p), LAMBDA is, p1 :
        IF is > 2 THEN Fail
        ELSE Then(read_key(b, p1), LAMBDA key, p2 :
                CASE is = 0 ->
                        Then(read_slice(b, p2), LAMBDA value, end : Got(Put(key, value), end))
                  [] is = 1 -> Got(Delete(key), p2)
                  [] is = 2 -> Got(DeleteRange(key), p2)))

\* The pair of a key and a value.
read_pair(b, p) ==
    Then(read_key(b, p), LAMBDA key, at :
        Then(read_slice(b, at), LAMBDA value, end : Got(Pair(key, value), end)))

\* Box<[T]>: the length is held against the bytes that are left, an item of
\* each type having its MIN_BYTES_PER_ITEM.
MIN_BYTES_PER_ITEM(item) == IF item = "node" THEN 5 ELSE 2
read_items(item, mode, b, p) ==
    LET next(at) == CASE item = "node" -> read_proof_node(mode, b, at)
                      [] item = "Range" -> read_pair(b, at)
                      [] item = "Change" -> read_batch_op(b, at)
        step(r, k) ==
            Then(r, LAMBDA items, at :
                Then(next(at), LAMBDA x, end : Got(Append(items, x), end)))
    IN  Then(read_varint(b, p), LAMBDA num_items, at :
            IF num_items > (Len(b) - at + 1) \div MIN_BYTES_PER_ITEM(item) THEN Fail
            ELSE FoldLeft(step, Got(<<>>, at), [k \in 1 .. num_items |-> k]))

\* The body without the check that nothing follows the proof.
read_body_open(kind, mode, b) ==
    Then(read_items("node", mode, b, 1), LAMBDA start, p1 :
    Then(read_items("node", mode, b, p1), LAMBDA end, p2 :
    Then(read_items(kind, mode, b, p2), LAMBDA items, at :
        Got([kind |-> kind, mode |-> mode, start |-> start, end |-> end, items |-> items],
            at))))

\* FrozenRangeProof and FrozenChangeProof: the three arrays and no trailing bytes.
read_body(kind, mode, b) ==
    Then(read_items("node", mode, b, 1), LAMBDA start, p1 :
    Then(read_items("node", mode, b, p1), LAMBDA end, p2 :
    Then(read_items(kind, mode, b, p2), LAMBDA items, at :
        IF at <= Len(b) THEN Fail ELSE
        Got([kind |-> kind, mode |-> mode, start |-> start, end |-> end, items |-> items],
            at))))

-----------------------------------------------------------------------------
(* header.rs.                                                              *)

\* ProofType by discriminant, counting from 0.
ProofTypes == <<"Single", "Range", "Change">>

\* Header::from.
Header(kind, mode) ==
    [magic |-> "fwdproof", version |-> 0,
     hash_mode |-> IF mode = "MerkleDB" THEN 0 ELSE 1, branch_factor |-> 16,
     proof_type |-> CHOOSE d \in 0 .. 2 : ProofTypes[d + 1] = kind]

\* Header::validate: the hash mode, if all else is as expected.
Header_validate(header, kind) ==
    IF /\ header.magic = "fwdproof"
       /\ header.version = 0
       /\ header.hash_mode \in {0, 1}
       /\ header.branch_factor = 16
       /\ header.proof_type \in 0 .. 2
    THEN IF ProofTypes[header.proof_type + 1] = kind
         THEN Got(NodeHashAlgorithms[header.hash_mode + 1], 0) ELSE Fail
    ELSE Fail

-----------------------------------------------------------------------------
(* frame.rs.                                                               *)

\* A zstd frame of len bytes; frame_size is where its first frame ends.
Frame(len, body) ==
    [len |-> len, frame_size |-> len, content_size |-> Len(body), body |-> body]

\* validate_frame: one frame, its content size declared and in bounds.
validate_frame(frame) ==
    /\ frame.frame_size = frame.len
    /\ frame.content_size \in 1 .. MAX_DECOMPRESSED_LEN
    /\ frame.content_size <= frame.len * MAX_COMPRESSION_RATIO

\* decompress_body: zstd refuses a content other than declared.
decompress_body(frame) ==
    IF validate_frame(frame) /\ Len(frame.body) = frame.content_size
    THEN Got(frame.body, 0) ELSE Fail

\* write_compressed_body: compressed is the length zstd's bulk compression comes
\* to.  When that is below the ratio the frame is made of flushed blocks, each
\* with a header of three bytes.
write_compressed_body(body, compressed) ==
    IF Len(body) <= compressed * MAX_COMPRESSION_RATIO THEN Frame(compressed, body)
    ELSE Frame(3 * ((Len(body) + MAX_COMPRESSION_RATIO - 1) \div MAX_COMPRESSION_RATIO), body)

\* write_to_vec with write_framed_body and check_body_len.
write_to_vec(proof, compressed) ==
    LET body == write_body_to_vec(proof)
    IN  IF Len(body) > MAX_DECOMPRESSED_LEN THEN Fail
        ELSE Got([header |-> Header(proof.kind, proof.mode),
                  frame |-> write_compressed_body(body, compressed)], 0)

\* from_slice of either kind.
from_slice(message, kind) ==
    Then(Header_validate(message.header, kind), LAMBDA mode, none :
        Then(decompress_body(message.frame), LAMBDA body, end : read_body(kind, mode, body)))

\* from_slice_in_mode with check_header_hash_mode.
from_slice_in_mode(message, kind, expected) ==
    IF Header_validate(message.header, kind) = Got(expected, 0)
    THEN from_slice(message, kind) ELSE Fail
=============================================================================
