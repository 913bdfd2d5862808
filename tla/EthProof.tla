------------------------------ MODULE EthProof ------------------------------
(***************************************************************************)
(* The proofs of Ethereum mode over the tries of EthTrie: eth_get_proof,   *)
(* Firewood's own verifier, and two references: the trie root that         *)
(* triehash computes from the pairs, and a verifier of Merkle-Patricia     *)
(* proofs that knows nothing of Firewood's nodes.                          *)
(***************************************************************************)
EXTENDS EthTrie

-----------------------------------------------------------------------------
(* Proof nodes.                                                            *)

\* ProofNode::from_path_item, with fix_account_storage_root on a database that
\* must recompute it.
EthProofNode(item, recompute) ==
    LET node == item.node
        ch == ChildHashes(node)
    IN  [key |-> item.key, partialLen |-> Len(item.key) - Len(node.path),
         value |-> node.value,
         root |-> IF recompute /\ Len(item.key) = ACCOUNT_DEPTH /\ node.value # NoValue
                  THEN FixedRoot(node.value, StoredRoot(node), ch) ELSE StoredRoot(node),
         ch |-> ch]

\* single_key_proof; <<>> stands for ProofError::Empty.
SingleKeyProof(root, key, recompute) ==
    LET path == PathIter(root, key)
    IN  [n \in DOMAIN path |-> EthProofNode(path[n], recompute)]

\* The hash of a proof node, on its own or as the root of a storage trie.
ProofNodeHash(n, asStorageRoot) ==
    LET from == n.partialLen - (IF asStorageRoot THEN 1 ELSE 0)
    IN  ToHash(Hashable(Len(n.key), From(n.key, from), n.value, n.root, n.ch))

\* hash_as_storage_root: the lone child of an account node.
HashAsStorageRoot(proof, i) ==
    /\ i > 1
    /\ Len(proof[i - 1].key) = ACCOUNT_DEPTH
    /\ Cardinality(DOMAIN proof[i - 1].ch) = 1

\* PartialEq of HashType: an inline encoding equals its own hash.
SameHash(a, b) == ToTrieHash(a) = ToTrieHash(b)

\* next_nibble.
NextNibbleOf(b, c) == IF IsStrictPrefix(b, c) THEN c[Len(b) + 1] ELSE NoNibble

\* value_digest_in_mode: whether the proof is valid for the key, and the value
\* it then shows.  toKey is the nibble at which the node above goes on.
ExpectedAt(proof, i, rootHash, toKey) ==
    IF i = 1 THEN rootHash
    ELSE IF toKey \in DOMAIN proof[i - 1].ch THEN proof[i - 1].ch[toKey] ELSE Empty
NodeAccepted(proof, i, rootHash, toKey) ==
    /\ i > 1 => toKey # NoNibble /\ NextNibbleOf(proof[i - 1].key, proof[i].key) = toKey
    /\ SameHash(ProofNodeHash(proof[i], HashAsStorageRoot(proof, i)),
                ExpectedAt(proof, i, rootHash, toKey))
    /\ Len(proof[i].key) % 2 = 1 => proof[i].value = NoValue
ProofAccepted(proof, key, rootHash) ==
    /\ proof # <<>>
    /\ \A i \in DOMAIN proof :
          NodeAccepted(proof, i, rootHash,
                       IF i = 1 THEN NoNibble ELSE NextNibbleOf(proof[i - 1].key, key))
    /\ NextNibbleOf(Last(proof).key, key) \notin DOMAIN Last(proof).ch
ProofShows(proof, key) ==
    IF Last(proof).key = key THEN ValueBytes(Last(proof).value, Last(proof).root) ELSE Empty

-----------------------------------------------------------------------------
(* eth_get_proof.                                                          *)

\* proof_node_to_mpt_rlp: one buffer, or an extension and its branch.
MptLeaf(partial, value) == <<EncodeList(<<Compact(partial, TRUE), value>>)>>
MptBranch(partial, account, inner) ==
    IF partial = <<>> THEN <<inner>>
    ELSE IF inner.len > 31 /\ ~account
    THEN <<EncodeList(<<Compact(partial, FALSE), Keccak(inner)>>), inner>>
    ELSE <<EncodeList(<<Compact(partial, account), AsBytes(inner)>>)>>
FixedValue(n) ==
    ValueBytes(n.value, IF Len(n.key) = ACCOUNT_DEPTH THEN FixedRoot(n.value, n.root, n.ch)
                        ELSE n.root)
ToMptRlp(n, partialLen) ==
    IF DOMAIN n.ch = {}
    THEN MptLeaf(From(n.key, partialLen),
                 IF n.value = NoValue THEN Empty ELSE AsBytes(FixedValue(n)))
    ELSE MptBranch(From(n.key, partialLen), Len(n.key) = ACCOUNT_DEPTH,
                   IF n.value = NoValue THEN BranchOf(n.ch, Empty)
                   ELSE IF Len(n.key) = ACCOUNT_DEPTH THEN FixedValue(n)
                   ELSE BranchOf(n.ch, AsBytes(FixedValue(n))))
MptRlpOf(nodes) ==
    FlattenSeq([i \in DOMAIN nodes |-> ToMptRlp(nodes[i], nodes[i].partialLen)])

\* account_storage_root_rlp, for two storage children or more.
AccountStorageRootRlp(account) ==
    IF Cardinality(DOMAIN account.ch) < 2 THEN <<>>
    ELSE <<BranchOf(account.ch, Empty)>>

\* Option: the first element, as a sequence of at most one.
FirstOf(s) == SubSeq(s, 1, Min({1, Len(s)}))
BelowAccount(n) == Len(n.key) > ACCOUNT_DEPTH

\* fetch_only_storage_child: the node on the way to the only child of the
\* account node, as a sequence.
FetchOnlyStorageChild(root, account, accountNode, recompute) ==
    LET nibble == CHOOSE i \in DOMAIN accountNode.ch : TRUE
        descent == account \o [i \in 1..ACCOUNT_DEPTH |-> IF i = 1 THEN nibble ELSE 0]
        below == SelectSeq(SingleKeyProof(root, descent, recompute), BelowAccount)
    IN  FirstOf(below)

\* construct_root_proof: the lone storage child is the root of the storage trie
\* and gets the nibble of its slot back.
RootProof(accountNode, first, storageNodes) ==
    IF Cardinality(DOMAIN accountNode.ch) = 1
    THEN (IF first = <<>> THEN <<>> ELSE ToMptRlp(first[1], first[1].partialLen - 1))
           \o MptRlpOf(From(storageNodes, Min({1, Len(storageNodes)})))
    ELSE AccountStorageRootRlp(accountNode) \o MptRlpOf(storageNodes)
ConstructRootProof(root, account, accountNode, storageNodes, recompute) ==
    RootProof(accountNode,
              IF storageNodes = <<>> /\ Cardinality(DOMAIN accountNode.ch) = 1
              THEN FetchOnlyStorageChild(root, account, accountNode, recompute)
              ELSE FirstOf(storageNodes),
              storageNodes)

NoStorageProof(slot) == [key |-> slot, value |-> NoValue, proof |-> <<>>]

\* build_storage_proof.
StorageProofOf(root, account, slot, accountNode, nodes, recompute) ==
    [key |-> slot,
     value |-> IF nodes # <<>> /\ Last(nodes).key = account \o slot
               THEN Last(nodes).value ELSE NoValue,
     proof |-> ConstructRootProof(root, account, accountNode, nodes, recompute)]
BuildStorageProof(root, account, slot, accountNode, recompute) ==
    IF DOMAIN accountNode.ch = {} THEN NoStorageProof(slot)
    ELSE StorageProofOf(root, account, slot, accountNode,
                        SelectSeq(SingleKeyProof(root, account \o slot, recompute), BelowAccount),
                        recompute)

\* AccountFields::from_rlp of an account value, and the fields of
\* EthProof::default.
AccountFields(v, root) ==
    [nonce |-> Str(<<"nonce", v>>, 1), balance |-> Str(<<"balance", v>>, 1),
     storageHash |-> root, codeHash |-> Str(<<"code", v>>, 32)]
ZeroFields ==
    [nonce |-> Empty, balance |-> Empty, storageHash |-> EMPTY_TRIE_ROOT,
     codeHash |-> KECCAK_EMPTY]

\* account_terminal: the last node of the account proof, when it is at account
\* depth and has a value.
AccountTerminal(nodes) ==
    SelectSeq(IF nodes = <<>> THEN <<>> ELSE <<Last(nodes)>>,
              LAMBDA n : Len(n.key) = ACCOUNT_DEPTH /\ n.value # NoValue)

\* eth_get_proof; it fails on a value that is not account RLP.
EthAnswer(root, account, slots, recompute, nodes, terminal) ==
    [ok |-> terminal # <<>> => terminal[1].value \in AccountValues,
     fields |-> IF terminal # <<>> THEN AccountFields(terminal[1].value, terminal[1].root)
                ELSE ZeroFields,
     accountProof |-> MptRlpOf(nodes),
     storageProofs |->
        [s \in slots |->
            IF terminal # <<>> THEN BuildStorageProof(root, account, s, terminal[1], recompute)
            ELSE NoStorageProof(s)]]
EthAnswerFrom(root, account, slots, recompute, nodes) ==
    EthAnswer(root, account, slots, recompute, nodes, AccountTerminal(nodes))
EthGetProof(root, account, slots, recompute) ==
    EthAnswerFrom(root, account, slots, recompute, SingleKeyProof(root, account, recompute))

-----------------------------------------------------------------------------
(* triehash: the root from the pairs, a function from keys to items.       *)

\* hex_prefix_encode: the oddness in bit 4 and the terminator in bit 5.
HexPrefixEncode(nibbles, leaf) ==
    LET odd == Len(nibbles) % 2
        rest == From(nibbles, odd)
        first == (odd + 2 * (IF leaf THEN 1 ELSE 0)) * 16 + (IF odd = 1 THEN nibbles[1] ELSE 0)
        bytes == <<first>> \o [i \in 1..Len(rest) \div 2 |-> 16 * rest[2 * i - 1] + rest[2 * i]]
    IN  Str(<<"bytes", bytes>>, Len(bytes))

\* hash256rlp and hash256aux, on keys whose first preLen nibbles have been
\* dealt with: one key, keys that share more, or a branch.
FirstKey(keys) == CHOOSE k \in keys : \A l \in keys : LessEq(k, l)
SharedPrefix(keys) ==
    Min({Len(PrefixOverlap(FirstKey(keys), l).shared) : l \in keys})
At(keys, preLen, i) == {k \in keys : Len(k) > preLen /\ k[preLen + 1] = i}

RECURSIVE Hash256Rlp(_, _, _)
Hash256Rlp(kv, keys, preLen) ==
    LET key == FirstKey(keys)
        shared == SharedPrefix(keys)
        aux(sub, n) == HashType(Hash256Rlp(kv, sub, n))
    IN  IF keys = {} THEN Empty
        ELSE IF Cardinality(keys) = 1
        THEN EncodeList(<<HexPrefixEncode(From(key, preLen), TRUE), kv[key]>>)
        ELSE IF shared > preLen
        THEN EncodeList(<<HexPrefixEncode(SubSeq(key, preLen + 1, shared), FALSE),
                          aux(keys, shared)>>)
        ELSE EncodeList([i \in 1..17 |->
                 IF i = 17 THEN IF preLen = Len(key) THEN kv[key] ELSE Empty
                 ELSE IF At(keys, preLen, i - 1) = {} THEN Empty
                 ELSE aux(At(keys, preLen, i - 1), preLen + 1)])

\* trie_root.
TrieRoot(kv) == Keccak(Hash256Rlp(kv, DOMAIN kv, 0))

-----------------------------------------------------------------------------
(* What the pairs kv of a revision stand for in Ethereum.                  *)

AccountKeys(kv) == {k \in DOMAIN kv : Len(k) = ACCOUNT_DEPTH}
StorageOf(kv, account) ==
    LET slots == {s \in DOMAIN kv : IsStrictPrefix(account, s)}
    IN  [s \in {From(k, ACCOUNT_DEPTH) : k \in slots} |->
            ValueBytes(kv[account \o s], StaleRoot)]
StorageRoot(kv, account) == TrieRoot(StorageOf(kv, account))
AccountItem(kv, account) == AsBytes(ValueBytes(kv[account], StorageRoot(kv, account)))
StateRoot(kv) == TrieRoot([a \in AccountKeys(kv) |-> AccountItem(kv, a)])

\* A verifier of Merkle-Patricia proofs (mpt_proof_value of the tests, made to
\* follow inline nodes and to refuse a proof that stops early): the value at
\* the nibbles below the node that ref refers to, Empty when there is none.
Read(value) == [ok |-> TRUE, value |-> value]
Refuted == [ok |-> FALSE, value |-> Empty]

\* How many of the nibbles a compact path stands for: {} if it leads elsewhere.
Matched(compact, leaf, nibbles) ==
    {n \in 0..Len(nibbles) : compact = Compact(SubSeq(nibbles, 1, n), leaf)}

RECURSIVE MptProofValue(_, _, _)
MptNodeValue(proof, items, nibbles) ==
    CASE Len(items) = 17 /\ nibbles = <<>> -> Read(items[17])
      [] Len(items) = 17 /\ nibbles # <<>> ->
            IF items[nibbles[1] + 1] = Empty THEN Read(Empty)
            ELSE MptProofValue(proof, items[nibbles[1] + 1], Tail(nibbles))
      [] Len(items) # 17 /\ Matched(items[1], FALSE, nibbles) # {} ->
            MptProofValue(proof, items[2], From(nibbles, Max(Matched(items[1], FALSE, nibbles))))
      [] OTHER -> Read(IF items[1] = Compact(nibbles, TRUE) THEN items[2] ELSE Empty)
MptProofValue(proof, ref, nibbles) ==
    IF ref = EMPTY_TRIE_ROOT THEN [ok |-> proof = <<>>, value |-> Empty]
    ELSE IF ref.kind = "list" THEN MptNodeValue(proof, ref.items, nibbles)
    ELSE IF proof = <<>> THEN Refuted
    ELSE IF Keccak(proof[1]) # ref \/ proof[1].kind # "list" THEN Refuted
    ELSE MptNodeValue(Tail(proof), proof[1].items, nibbles)
=============================================================================
