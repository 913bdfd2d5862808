------------------------------ MODULE EthTrie -------------------------------
(***************************************************************************)
(* Ethereum hash mode: how a batch is hashed on top of a revision whose    *)
(* hashes are kept (storage/src/nodestore/hash.rs and                      *)
(* storage/src/hashers/ethhash.rs).  The proofs are in EthProof.           *)
(*                                                                         *)
(* An account is a key of ACCOUNT_DEPTH nibbles, a storage slot one of     *)
(* twice as many below it: the account node is the root of its storage     *)
(* trie.  ACCOUNT_DEPTH is 64 in the code.                                 *)
(*                                                                         *)
(* An RLP encoding is the term it encodes with its length (module Rlp has  *)
(* the bytes): a string of len bytes, or a list of len bytes, its header   *)
(* included.  Keccak-256 is an injective constructor of 32-byte strings.   *)
(***************************************************************************)
EXTENDS MerkleIter

CONSTANTS
    ACCOUNT_DEPTH,  \* nibbles of an account key
    AccountValues,  \* values that are account RLP
    Trailing,       \* account values with a fifth field, as Coreth writes them
    ValueLen        \* bytes of every other value

-----------------------------------------------------------------------------
(* RLP terms.                                                              *)

Str(of, len) == [kind |-> "str", of |-> of, len |-> len]
Empty == Str(<<"empty">>, 0)

\* list_header_len and bytes_encoded_len; the one-byte strings used here are
\* below 0x80 and are their own encoding.
HeaderLen(n) == IF n <= 55 THEN 1 ELSE IF n <= 255 THEN 2 ELSE 3
ItemLen(t) ==
    IF t.kind = "list" THEN t.len
    ELSE IF t.len = 1 THEN 1 ELSE HeaderLen(t.len) + t.len

\* encode_list; an item that is a list is RlpItem::Raw.
EncodeList(items) ==
    LET payload[n \in 0..Len(items)] == IF n = 0 THEN 0 ELSE payload[n - 1] + ItemLen(items[n])
        len == payload[Len(items)]
    IN  [kind |-> "list", items |-> items, len |-> HeaderLen(len) + len]

\* The bytes of an encoding as a string (RlpItem::Bytes).
AsBytes(t) == IF t.kind = "str" THEN t ELSE Str(<<"rlp", t>>, t.len)
Keccak(t) == Str(<<"keccak", t>>, 32)
EMPTY_TRIE_ROOT == Keccak(Empty)
KECCAK_EMPTY == Str(<<"no code">>, 32)

\* HashType::Hash when the encoding has 32 bytes or more, HashType::Rlp, the
\* encoding itself, when it is shorter; and its conversion to a TrieHash.
HashType(t) == IF t.len >= 32 THEN Keccak(t) ELSE t
ToTrieHash(h) == IF h.kind = "str" THEN h ELSE Keccak(h)

\* nibbles_to_eth_compact: the flags, with an odd first nibble, and a byte for
\* every two nibbles.
Compact(nibbles, leaf) ==
    LET odd == Len(nibbles) % 2
        first == (IF leaf THEN 32 ELSE 0) + (IF odd = 1 THEN 16 + nibbles[1] ELSE 0)
        bytes == <<first>> \o [i \in 1..Len(nibbles) \div 2 |->
                     16 * nibbles[odd + 2 * i - 1] + nibbles[odd + 2 * i]]
    IN  Str(<<"bytes", bytes>>, Len(bytes))

\* The 17 items of a branch.
BranchItems(ch, value) ==
    [i \in 1..17 |-> IF i = 17 THEN value
                     ELSE IF i - 1 \in DOMAIN ch THEN ch[i - 1] ELSE Empty]

-----------------------------------------------------------------------------
(* Values.  A stored value is an identifier and, for account RLP, the      *)
(* storageRoot field stored with it; callers supply StaleRoot.             *)

StaleRoot == Str(<<"stale">>, 32)
AccountRlp(v, root) ==
    EncodeList(<<Str(<<"nonce", v>>, 1), Str(<<"balance", v>>, 1), root,
                 Str(<<"code", v>>, 32)>>
               \o IF v \in Trailing THEN <<Empty>> ELSE <<>>)
ValueBytes(v, root) ==
    IF v \in AccountValues THEN AccountRlp(v, root)
    ELSE Str(<<"value", v>>, ValueLen[v])
StoredRoot(node) == IF "root" \in DOMAIN node THEN node.root ELSE StaleRoot

\* replace_list_field(value, 2, root), which leaves the other fields; a value
\* that is not account RLP stays as it is (every caller's fallback).
ReplaceRoot(v, old, root) == ValueBytes(v, IF v \in AccountValues THEN root ELSE old)

\* compute_storage_trie_root.
StorageTrieRoot(ch) ==
    LET kids == DOMAIN ch
    IN  IF kids = {} THEN EMPTY_TRIE_ROOT
        ELSE IF Cardinality(kids) = 1 THEN ToTrieHash(ch[CHOOSE i \in kids : TRUE])
        ELSE Keccak(EncodeList(BranchItems(ch, Empty)))

\* The root field after fix_account_storage_root_value.
FixedRoot(v, old, ch) == IF v \in AccountValues THEN StorageTrieRoot(ch) ELSE old

-----------------------------------------------------------------------------
(* EthHash: the encoding of a node, and its hash.                          *)

\* What Hashable shows of a node: the length of its full path, its partial
\* path, its value and the hashes of its children.
Hashable(depth, partial, value, root, ch) ==
    [depth |-> depth, partial |-> partial, value |-> value, root |-> root, ch |-> ch]

\* What stands for the branch of an account node: the account RLP with the root
\* of the storage trie.
AccountBytes(h, branch) ==
    ReplaceRoot(h.value, h.root,
                IF Cardinality(DOMAIN h.ch) = 1
                THEN ToTrieHash(h.ch[CHOOSE i \in DOMAIN h.ch : TRUE])
                ELSE Keccak(branch))

\* write_preimage, without and with children.
LeafPreimage(h) ==
    EncodeList(<<Compact(h.partial, TRUE),
                 IF h.value = NoValue THEN Empty
                 ELSE AsBytes(ReplaceRoot(h.value, h.root,
                                          IF h.depth = ACCOUNT_DEPTH THEN EMPTY_TRIE_ROOT
                                          ELSE h.root))>>)
BranchOf(ch, value) == EncodeList(BranchItems(ch, value))
ExtensionOver(partial, account, inner) ==
    IF partial = <<>> THEN inner
    ELSE EncodeList(<<Compact(partial, account),
                      IF inner.len > 31 /\ ~account THEN Keccak(inner) ELSE AsBytes(inner)>>)
WritePreimage(h) ==
    IF DOMAIN h.ch = {} THEN LeafPreimage(h)
    ELSE ExtensionOver(h.partial, h.depth = ACCOUNT_DEPTH,
                       IF h.value = NoValue THEN BranchOf(h.ch, Empty)
                       ELSE IF h.depth = ACCOUNT_DEPTH
                       THEN AccountBytes(h, BranchOf(h.ch, Empty))
                       ELSE BranchOf(h.ch, AsBytes(ValueBytes(h.value, h.root))))

\* to_hash.
ToHash(h) == HashType(WritePreimage(h))

-----------------------------------------------------------------------------
(* Hashing a proposal.  A hashed node carries its hash, which is the one   *)
(* its parent holds, and the storageRoot stored in its value.              *)

Unhashed(node) ==
    IF node.kind = "leaf" THEN Leaf(node.path, node.value)
    ELSE Branch(node.path, node.value, node.ch)
Hashed(node, root, hash) ==
    [kind |-> node.kind, path |-> node.path, value |-> node.value, ch |-> node.ch,
     root |-> root, hash |-> hash]
IsHashed(node) == "hash" \in DOMAIN node
ChildHashes(node) == [i \in DOMAIN node.ch |-> node.ch[i].hash]

\* hash_node, at a prefix of at nibbles, and the storage-trie-root fold of
\* hash_node_as_storage_trie_root_parts, where the prefix is the account's and
\* the nibble of the child goes in front of its partial path.
NodeHash(node, at, path) ==
    ToHash(Hashable(at + Len(path), path, node.value, StoredRoot(node), ChildHashes(node)))
HashNode(node, at) == NodeHash(node, at, node.path)
HashNodeAsStorageTrieRoot(node, at, nibble) == NodeHash(node, at, <<nibble>> \o node.path)

\* Hashing that leaves the hash of a lone child alone.
RehashNothing(node, here, hashed) == node

\* hash_helper_inner, an account branch: a child that is the only hashed one
\* is hashed again, since its siblings may have come or gone.
RehashOnlyHashed(node, here, hashed) ==
    IF here # ACCOUNT_DEPTH \/ Cardinality(hashed) # 1 THEN node
    ELSE [node EXCEPT !.ch =
            [i \in DOMAIN node.ch |->
                IF i \notin hashed THEN node.ch[i]
                ELSE Hashed(node.ch[i], StoredRoot(node.ch[i]),
                            NodeHash(node.ch[i],
                                     here + (IF hashed = DOMAIN node.ch THEN 0 ELSE 1),
                                     (IF hashed = DOMAIN node.ch THEN <<i>> ELSE <<>>)
                                        \o node.ch[i].path))]]

\* make_fake_root: the lone unhashed child of an account branch is hashed as the
\* root of the storage trie.
MakeFakeRoot(node, here, hashed) ==
    IF here = ACCOUNT_DEPTH /\ hashed = {} /\ Cardinality(DOMAIN node.ch) = 1
    THEN CHOOSE i \in DOMAIN node.ch : TRUE
    ELSE NoNibble

\* update_account_storage_root: the storageRoot to store with a node.
UpdatedRoot(node, here) ==
    IF here = ACCOUNT_DEPTH /\ node.value # NoValue
    THEN FixedRoot(node.value, StoredRoot(node), ChildHashes(node))
    ELSE StoredRoot(node)

\* hash_helper_inner, once the children are hashed.
HashWithChildren(node, at, fakeNibble) ==
    LET stored == Hashed(node, UpdatedRoot(node, at + Len(node.path)), Empty)
        path == IF fakeNibble = NoNibble THEN node.path ELSE <<fakeNibble>> \o node.path
    IN  [stored EXCEPT !.hash = NodeHash(stored, at, path)]

\* hash_helper_inner.
RECURSIVE HashHelper(_, _, _)
HashHelper(node, at, fakeNibble) ==
    LET here == at + Len(node.path)
        hashed == {i \in DOMAIN node.ch : IsHashed(node.ch[i])}
        fake == MakeFakeRoot(node, here, hashed)
        kids(b) == [i \in DOMAIN b.ch |->
                      IF i \in hashed THEN b.ch[i]
                      ELSE HashHelper(b.ch[i], IF fake = NoNibble THEN here + 1 ELSE here, fake)]
        full(b) == IF b.kind = "leaf" THEN b ELSE [b EXCEPT !.ch = kids(b)]
    IN  HashWithChildren(full(RehashOnlyHashed(node, here, hashed)), at, fakeNibble)
HashRoot(root) == IF root = Nil THEN Nil ELSE HashHelper(root, 0, NoNibble)

\* root_hash, with default_root_hash.
EthRootHash(root) == IF root = Nil THEN EMPTY_TRIE_ROOT ELSE ToTrieHash(root.hash)

\* The nodes that an operation on key reads for update are in memory, without
\* a hash: the ones on its path, the one where the path ends included.
RECURSIVE UnhashPath(_, _)
UnhashPath(node, key) ==
    LET o == PrefixOverlap(key, node.path)
        n == Unhashed(node)
    IN  IF o.b = <<>> /\ o.a # <<>> /\ o.a[1] \in DOMAIN node.ch
        THEN [n EXCEPT !.ch[o.a[1]] = UnhashPath(@, Tail(o.a))]
        ELSE n
UnhashKey(root, key) == IF root = Nil THEN Nil ELSE UnhashPath(root, key)
EthApply(root, op) == UnhashKey(Apply(UnhashKey(root, op.key), op), op.key)

\* A batch applied to a revision, and the result hashed.
EthCommit(root, ops) == HashRoot(FoldLeft(EthApply, root, ops))

\* A revision of a release before firewood-v1-hfix: hashed alike, but with the
\* storageRoot fields as the caller supplied them.
RECURSIVE Legacy(_)
Legacy(node) ==
    IF node.kind = "nil" THEN node
    ELSE Hashed(IF node.kind = "leaf" THEN node
                ELSE [node EXCEPT !.ch = [i \in DOMAIN node.ch |-> Legacy(node.ch[i])]],
                StaleRoot, node.hash)

\* compute_node_ethhash: the hash the checker expects at a node.
ComputeNodeEthHash(node, prefix, havePeers) ==
    IF Len(prefix) = ACCOUNT_DEPTH + 1 /\ ~havePeers
    THEN HashNodeAsStorageTrieRoot(node, ACCOUNT_DEPTH, Last(prefix))
    ELSE HashNode(node, Len(prefix))
=============================================================================
