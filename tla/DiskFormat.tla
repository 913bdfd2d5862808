----------------------------- MODULE DiskFormat -----------------------------
(***************************************************************************)
(* The bytes firewood-storage keeps on disk: size classes and addresses    *)
(* (nodestore/primitives.rs), nodes (node/mod.rs), free areas              *)
(* (nodestore/alloc.rs) and the header (nodestore/header.rs).              *)
(*                                                                         *)
(* A byte is a number below 256 and an image a sequence of bytes.  A       *)
(* reader is the image and the position of its next byte, so a read is an  *)
(* operator of both that gives Fail, or the value and the position after   *)
(* it.  A node is a record of its kind, its partial path, its value (a     *)
(* sequence of bytes, or NoBytes) and its children, a function from child  *)
(* index to address and hash.                                              *)
(***************************************************************************)
EXTENDS Integers, Sequences, FiniteSets, SequencesExt

CONSTANTS
    AREA_SIZES,     \* the size classes, ascending
    HEADER_SIZE,    \* NodeStoreHeader::SIZE
    U64_MAX         \* the largest address

ASSUME DiskFormatAssumption ==
    /\ AREA_SIZES \in Seq(Nat) /\ AREA_SIZES # <<>>
    /\ \A i \in 1 .. Len(AREA_SIZES) - 1 : AREA_SIZES[i] < AREA_SIZES[i + 1]
    /\ \A i \in 1 .. Len(AREA_SIZES) : AREA_SIZES[i] % AREA_SIZES[1] = 0
    /\ HEADER_SIZE > 0 /\ HEADER_SIZE % AREA_SIZES[1] = 0

\* The outcome of a read: an error, or the value v and the next position.
Fail == [ok |-> FALSE]
Got(v, at) == [ok |-> TRUE, v |-> v, at |-> at]

\* A read, and if it succeeds what follows, given its value and position (the
\* operator ? of the source).
Then(read, follow(_, _)) == IF read.ok THEN follow(read.v, read.at) ELSE Fail

-----------------------------------------------------------------------------
(* nodestore/primitives.rs.  An area index counts from 0.                  *)

NUM_AREA_SIZES == Len(AREA_SIZES)
MIN_AREA_SIZE == AREA_SIZES[1]
MAX_AREA_SIZE == AREA_SIZES[NUM_AREA_SIZES]

\* AreaIndex, and AreaIndex::new: whether a stored byte is an index.
AreaIndex == 0 .. NUM_AREA_SIZES - 1
IsAreaIndex(byte) == byte < NUM_AREA_SIZES

\* A from_size that skips the classes up to and including n.
AreaIndexFromSizeStrict(n) ==
    IF n > MAX_AREA_SIZE THEN Fail
    ELSE Got(Cardinality({i \in 1 .. NUM_AREA_SIZES : AREA_SIZES[i] <= n}), 0)

\* AreaIndex::from_size: the partition point of the sizes below n.
AreaIndexFromSize(n) ==
    IF n > MAX_AREA_SIZE THEN Fail
    ELSE Got(Cardinality({i \in 1 .. NUM_AREA_SIZES : AREA_SIZES[i] < n}), 0)

\* AreaIndex::size.
AreaSize(index) == AREA_SIZES[index + 1]

\* LinearAddress: 0 is None.  advance gives None when the sum overflows.
NoAddr == 0
is_aligned(addr) == addr % MIN_AREA_SIZE = 0
advance(addr, n) == IF addr + n > U64_MAX THEN NoAddr ELSE addr + n
distance_from(addr, other) == IF addr < other THEN Fail ELSE Got(addr - other, 0)

-----------------------------------------------------------------------------
(* Readers and writers (ExtendableBytes, ReadSerializable).                *)

\* VarInt::encode_var of the integer_encoding crate: groups of seven bits,
\* the lowest first, the high bit on all but the last.
encode_var(n) ==
    LET groups == 1 + Cardinality({k \in 1 .. 3 : n >= 128 ^ k})
    IN  [i \in 1 .. groups |->
            ((n \div 128 ^ (i - 1)) % 128) + (IF i < groups THEN 128 ELSE 0)]

\* VarIntReader::read_varint: bytes up to the first without the high bit.
read_varint(b, p) ==
    LET last == {k \in 0 .. 3 : p + k <= Len(b) /\ b[p + k] < 128}
        n == CHOOSE k \in last : \A j \in last : k <= j
        value[k \in 0 .. n] ==
            (b[p + k] % 128) * 128 ^ k + (IF k = n THEN 0 ELSE value[k + 1])
    IN  IF last = {} THEN Fail ELSE Got(value[0], p + n + 1)

\* u64::to_ne_bytes on a little-endian machine and its inverse, for the numbers
\* below 2^24 the instances use.
u64_bytes(n) ==
    [i \in 1 .. 8 |-> IF i <= 3 THEN (n \div 256 ^ (i - 1)) % 256 ELSE 0]
u64_of(s) == s[1] + 256 * (s[2] + 256 * (s[3] + 256 * s[4]))

\* ReadSerializable::read_byte and read_fixed_len (and Read::read_exact).
read_byte(b, p) == IF p > Len(b) THEN Fail ELSE Got(b[p], p + 1)
read_fixed_len(b, p, len) ==
    IF p + len - 1 > Len(b) THEN Fail ELSE Got(SubSeq(b, p, p + len - 1), p + len)

-----------------------------------------------------------------------------
(* Child hashes (hashtype.rs, trie_hash.rs and the two hash modes).        *)

\* HashType: a hash of 32 bytes, or the bytes of an inline RLP node.
Hash(bytes) == [rlp |-> FALSE, bytes |-> bytes]
Rlp(bytes) == [rlp |-> TRUE, bytes |-> bytes]

\* H::write_child_hash, as [ok, v].
write_child_hash(mode, h) ==
    CASE mode = "MerkleDB" -> IF h.rlp THEN Fail ELSE Got(h.bytes, 0)
      [] mode = "Ethereum" ->
            Got((IF h.rlp THEN <<Len(h.bytes)>> ELSE <<0>>) \o h.bytes, 0)

\* HashType::from_reader.
HashType_from_reader(b, p) ==
    Then(read_byte(b, p), LAMBDA len, at :
        IF len > 32 THEN Fail
        ELSE Then(read_fixed_len(b, at, IF len = 0 THEN 32 ELSE len), LAMBDA bytes, end :
                 Got(IF len = 0 THEN Hash(bytes) ELSE Rlp(bytes), end)))

\* H::read_child_hash.
read_child_hash(mode, b, p) ==
    IF mode = "Ethereum" THEN HashType_from_reader(b, p)
    ELSE Then(read_fixed_len(b, p, 32), LAMBDA bytes, end : Got(Hash(bytes), end))

-----------------------------------------------------------------------------
(* Nodes (node/mod.rs).                                                    *)

NoBytes == <<-1>>
MAX_CHILDREN == 16
BRANCH_PARTIAL_PATH_LEN_OVERFLOW == 3
LEAF_PARTIAL_PATH_LEN_OVERFLOW == 126

LeafNode(path, value) ==
    [kind |-> "leaf", path |-> path, value |-> value, children |-> <<>>]
BranchNode(path, value, children) ==
    [kind |-> "branch", path |-> path, value |-> value, children |-> children]

\* BranchFirstByte and LeafFirstByte.
BranchFirstByte(has_value, number_children, pp_len) ==
    2 * has_value + 4 * number_children + 64 * pp_len
LeafFirstByte(pp_len) == 1 + 2 * pp_len

\* The first byte's path length, and the path as it follows the first byte.
PathLenField(path, overflow) == IF Len(path) < overflow THEN Len(path) ELSE overflow
PathBytes(path, overflow) ==
    (IF Len(path) < overflow THEN <<>> ELSE encode_var(Len(path))) \o path

\* A value preceded by its length.
ValueBytes(value) == encode_var(Len(value)) \o value

\* The child indices of a set in ascending order.
Ascending(indices) == SelectSeq([i \in 1 .. MAX_CHILDREN |-> i - 1], LAMBDA i : i \in indices)

\* The children in index order, with their index unless all are present.
ChildBytes(mode, children) ==
    LET present == Ascending(DOMAIN children)
        position(i) == IF Len(present) = MAX_CHILDREN THEN <<>> ELSE <<i>>
    IN  FoldLeft(LAMBDA s, i : s \o position(i) \o u64_bytes(children[i].addr)
                                 \o write_child_hash(mode, children[i].hash).v,
                 <<>>, present)

\* The bytes of a node without the area index that precedes them.
NodeBytes(mode, node) ==
    IF node.kind = "branch"
    THEN <<BranchFirstByte(IF node.value = NoBytes THEN 0 ELSE 1,
                           Cardinality(DOMAIN node.children) % MAX_CHILDREN,
                           PathLenField(node.path, BRANCH_PARTIAL_PATH_LEN_OVERFLOW))>>
           \o PathBytes(node.path, BRANCH_PARTIAL_PATH_LEN_OVERFLOW)
           \o (IF node.value = NoBytes THEN <<>> ELSE ValueBytes(node.value))
           \o ChildBytes(mode, node.children)
    ELSE <<LeafFirstByte(PathLenField(node.path, LEAF_PARTIAL_PATH_LEN_OVERFLOW))>>
           \o PathBytes(node.path, LEAF_PARTIAL_PATH_LEN_OVERFLOW)
           \o ValueBytes(node.value)

\* Node::as_bytes: the area index for the node and its index byte, then the node.
Node_as_bytes(mode, node) ==
    LET body == NodeBytes(mode, node)
        index == AreaIndexFromSize(1 + Len(body))
    IN  CASE \E i \in DOMAIN node.children :
                ~write_child_hash(mode, node.children[i].hash).ok -> Fail
          [] OTHER -> IF index.ok THEN Got(<<index.v>> \o body, 0) ELSE Fail

\* read_path_with_overflow_length (and with_prefix_length, with_provided_length).
read_path_with_overflow_length(b, p, value, overflow) ==
    IF value < overflow THEN read_fixed_len(b, p, value)
    ELSE Then(read_varint(b, p), LAMBDA len, at : read_fixed_len(b, at, len))

\* A length and as many bytes.
read_value(b, p) == Then(read_varint(b, p), LAMBDA len, at : read_fixed_len(b, at, len))

\* One child at index i: its address and hash.
read_child(mode, b, p, i, sofar) ==
    Then(read_fixed_len(b, p, 8), LAMBDA addr, at :
        IF u64_of(addr) = 0 THEN Fail
        ELSE Then(read_child_hash(mode, b, at), LAMBDA hash, end :
                 Got([j \in DOMAIN sofar \cup {i} |->
                        IF j = i THEN [addr |-> u64_of(addr), hash |-> hash] ELSE sofar[j]],
                     end)))

\* The children of a branch: count of them with an index, or all sixteen.
read_children(mode, b, p, count) ==
    LET indexed(children, at) ==
            Then(read_byte(b, at), LAMBDA i, after :
                IF i >= MAX_CHILDREN THEN Fail ELSE read_child(mode, b, after, i, children))
        step(r, k) ==
            Then(r, LAMBDA children, at :
                IF count = 0 THEN read_child(mode, b, at, k - 1, children)
                ELSE indexed(children, at))
    IN  FoldLeft(step, Got(<<>>, p),
                 [k \in 1 .. IF count = 0 THEN MAX_CHILDREN ELSE count |-> k])

\* Node::from_reader.
Node_from_reader(mode, b, p) ==
    LET leaf(first, p1) ==
            Then(read_path_with_overflow_length(b, p1, first \div 2,
                                                LEAF_PARTIAL_PATH_LEN_OVERFLOW),
                 LAMBDA path, p2 : Then(read_value(b, p2), LAMBDA value, end :
                     Got(LeafNode(path, value), end)))
        branch(first, p1) ==
            Then(read_path_with_overflow_length(b, p1, first \div 64,
                                                BRANCH_PARTIAL_PATH_LEN_OVERFLOW),
                 LAMBDA path, p2 :
                     Then(IF (first \div 2) % 2 = 1 THEN read_value(b, p2) ELSE Got(NoBytes, p2),
                          LAMBDA value, p3 :
                              Then(read_children(mode, b, p3, (first \div 4) % 16),
                                   LAMBDA children, end :
                                       Got(BranchNode(path, value, children), end))))
    IN  Then(read_byte(b, p), LAMBDA first, p1 :
            IF first = 255 THEN Fail
            ELSE IF first % 2 = 1 THEN leaf(first, p1) ELSE branch(first, p1))

-----------------------------------------------------------------------------
(* Free areas (nodestore/alloc.rs).                                        *)

\* FreeArea::as_bytes, and the form written by the releases that used serde.
FreeArea_as_bytes(next, index) == <<index, 255>> \o encode_var(next)
LegacyFreeAreaBytes(next, index) ==
    <<index, 1>> \o
    CASE next = NoAddr -> <<0>>
      [] next # NoAddr /\ next <= 250 -> <<1, next>>
      [] next > 250 /\ next < 65536 -> <<1, 251>> \o SubSeq(u64_bytes(next), 1, 2)
      [] OTHER -> <<1, 252>> \o SubSeq(u64_bytes(next), 1, 4)

\* read_bincode_varint_u64_le.
read_bincode_varint_u64_le(b, p) ==
    Then(read_byte(b, p), LAMBDA first, at :
        CASE first <= 250 -> Got(first, at)
          [] first \in 251 .. 253 ->
                Then(read_fixed_len(b, at, 2 ^ (first - 250)), LAMBDA le, end :
                    Got(u64_of(le \o <<0, 0, 0, 0>>), end))
          [] OTHER -> Fail)

\* FreeArea::from_reader: the next free block.
FreeArea_from_reader(b, p) ==
    LET old(at) ==
            Then(read_byte(b, at), LAMBDA option, after :
                CASE option = 0 -> Got(NoAddr, after)
                  [] option = 1 ->
                        Then(read_bincode_varint_u64_le(b, after), LAMBDA next, end :
                            IF next = 0 THEN Fail ELSE Got(next, end))
                  [] OTHER -> Fail)
    IN  Then(read_byte(b, p), LAMBDA marker, at :
            CASE marker = 255 -> read_varint(b, at)
              [] marker = 1 -> old(at)
              [] OTHER -> Fail)

\* FreeArea::from_storage_reader: the area index, then the free area.
FreeArea_from_storage(b) ==
    Then(read_byte(b, 1), LAMBDA index, at :
        IF ~IsAreaIndex(index) THEN Fail
        ELSE Then(FreeArea_from_reader(b, at), LAMBDA next, end :
                 Got([next |-> next, index |-> index], end)))

\* read_stored_area_info_from_reader.
read_stored_area_info(b) ==
    LET info(kind, index) == Got([kind |-> kind, index |-> index, size |-> AreaSize(index)], 0)
    IN  Then(read_byte(b, 1), LAMBDA index, at :
            IF ~IsAreaIndex(index) THEN Fail
            ELSE Then(read_byte(b, at), LAMBDA marker, after :
                     IF marker # 255 THEN info("Node", index)
                     ELSE Then(read_varint(b, after), LAMBDA next, end : info("Free", index))))

-----------------------------------------------------------------------------
(* The header (nodestore/header.rs).                                       *)

\* VALID_V1_VERSIONS by position: 0 is firewood-v1-hfix, 1 is firewood-v1, the
\* rest are the releases 0.0.18 down to 0.0.4.
VALID_V1_VERSIONS == 0 .. 16
has_extended_header_fields(version) == version \in {0, 1}

NodeHashAlgorithms == <<"MerkleDB", "Ethereum">>
EmptyHash == "empty"
NoHash == "none"
ThisBuild == "this build"

\* NodeStoreHeader::new.
NodeStoreHeader_new(algorithm) ==
    [version |-> 0, endian_test |-> 1, size |-> HEADER_SIZE,
     free_lists |-> [i \in AreaIndex |-> NoAddr], root_address |-> NoAddr,
     area_size_hash |-> ThisBuild,
     node_hash_algorithm |-> IF algorithm = "MerkleDB" THEN 0 ELSE 1,
     root_hash |-> EmptyHash]

\* validate_size: saturating_sub, so a negative difference is zero.
validate_size(size, storage_size) ==
    /\ size % MIN_AREA_SIZE = 0
    /\ size >= HEADER_SIZE
    /\ size - storage_size < MAX_AREA_SIZE

\* node_hash_algorithm: the scheme of a stored discriminant.
node_hash_algorithm(header) ==
    IF header.node_hash_algorithm \in {0, 1}
    THEN Got(NodeHashAlgorithms[header.node_hash_algorithm + 1], 0)
    ELSE Fail

\* NodeStoreHeader::validate.
validate(header, algorithm, storage_size) ==
    /\ header.version \in VALID_V1_VERSIONS
    /\ header.endian_test = 1
    /\ header.area_size_hash = ThisBuild
    /\ node_hash_algorithm(header) = Got(algorithm, 0)
    /\ validate_size(header.size, storage_size)

\* set_root_location and root_hash.
set_root_location(header, addr, hash) ==
    [header EXCEPT !.root_address = addr,
                   !.root_hash = IF addr = NoAddr THEN EmptyHash ELSE hash]
root_hash(header) ==
    IF has_extended_header_fields(header.version) /\ header.root_address # NoAddr
    THEN header.root_hash ELSE NoHash
=============================================================================
