------------------------------- MODULE Formats ------------------------------
(***************************************************************************)
(* What leaves the process or crosses a language boundary, and comes back: *)
(* disk images and the checker that reads them, proofs on the wire,        *)
(* results and arguments of the C interface, the replay log, and the       *)
(* roots and proofs of Ethereum mode.                                      *)
(*                                                                         *)
(* A behaviour picks one input.  A disk image may then be damaged, one     *)
(* field at a time; the replay log grows call by call; an Ethereum trie    *)
(* is changed batch by batch; the other inputs are left as they are.       *)
(***************************************************************************)
EXTENDS Checker, SizedProof, Replay

Ffi == INSTANCE FfiCalls
RlpCodec == INSTANCE Rlp

CONSTANTS
    ACCOUNT_DEPTH, AccountValues, Trailing, ValueLen    \* of EthTrie
Eth == INSTANCE EthProof

CONSTANTS
    Nodes,          \* [mode, node] to store
    Images,         \* disk images without damage
    MaxDamage,      \* bound: fields of an image that are damaged
    Proofs,         \* proofs to send
    FrameLengths,   \* what zstd may compress a body to
    Requests,       \* requests for proofs of a given size
    EndProofs,      \* what proving the last key of a chunk may give
    Options,        \* [path, pathUtf8, opts] to open a database with
    Lists,          \* lists of byte strings to encode as RLP
    Strings,        \* byte strings to replace a field of a list by
    EthContents,    \* contents a database of an earlier release may have
    EthBatches,     \* batches of operations on an Ethereum trie
    EthAccounts, EthSlots   \* what proofs are asked for

ASSUME FormatsAssumption ==
    /\ MaxDamage \in Nat
    /\ FrameLengths \subseteq Nat \ {0}

VARIABLE input

vars == <<input, rvars>>

-----------------------------------------------------------------------------
(* Disk images and their damage.                                           *)

\* Where a damaged pointer may lead: nowhere, to any area, off alignment, past
\* the end, or so far that adding a size overflows.
Targets(image) == DOMAIN image.disk \cup {NoAddr, HEADER_SIZE + 8, image.size, U64_MAX - 15}

\* The images one damaged field away.
DamagedArea(image, a) ==
    LET area == image.disk[a]
        put(x) == [image EXCEPT !.disk[a] = x]
    IN  {put([area EXCEPT !.index = i]) : i \in AreaIndex}
        \cup {put([area EXCEPT !.kind = k, !.children = <<>>]) : k \in {"junk", "free"}}
        \cup {put([area EXCEPT !.kind = "leaf", !.children = <<>>, !.value = TRUE, !.bytes = 5])}
        \cup {put([area EXCEPT !.bytes = n]) : n \in {AreaSize(area.index) + 1}}
        \cup {put([area EXCEPT !.key = FALSE]), put([area EXCEPT !.hash = @ + 1])}
        \cup (IF area.kind = "free"
              THEN {put([area EXCEPT !.next = t]) : t \in Targets(image)} ELSE {})
        \cup UNION {{put([area EXCEPT !.children[i].addr = t]) : t \in Targets(image) \ {NoAddr}}
                        : i \in DOMAIN area.children}

DamagedHeader(image) ==
    {[image EXCEPT !.root = t] : t \in Targets(image)}
    \cup {[image EXCEPT !.free_lists[i] = t] : i \in {0, 1}, t \in Targets(image)}
    \cup {[image EXCEPT !.size = n] : n \in {image.size - 16, image.size + 16, HEADER_SIZE - 16}}

Damage ==
    /\ input.kind = "image"
    /\ input.damage < MaxDamage
    /\ \E image \in DamagedHeader(input.image)
                      \cup UNION {DamagedArea(input.image, a) : a \in DOMAIN input.image.disk} :
          /\ image # input.image
          /\ input' = [input EXCEPT !.image = image, !.damage = @ + 1]
    /\ UNCHANGED rvars

-----------------------------------------------------------------------------
(* Proofs of a given size, one after the other.                            *)

\* A pass of build_sized_chunk.
SizeChunk ==
    /\ input.kind = "sized"
    /\ input.request.state \in {"loop", "after"}
    /\ \E end \in EndProofs, compressed \in FrameLengths :
          input' = [input EXCEPT !.request = build_sized_chunk(@, end, compressed)]
    /\ UNCHANGED rvars

\* The caller asks for the chunk that follows, with the hint of this one.
NextChunk ==
    /\ input.kind = "sized"
    /\ input.request.state = "Ok"
    /\ ~input.request.fit.terminal
    /\ LET s == input.request
           rest == SubSeq(s.items, s.fit.count + 1, Len(s.items))
           hint == SizingHint(s.fit)
       IN  \E start \in EndProofs :
              input' = [input EXCEPT !.request =
                  IF s.kind = "Range"
                  THEN range_proof_sized(s.mode, FALSE, TRUE, start, rest, s.budget, hint)
                  ELSE change_proof_sized(s.mode, FALSE, TRUE, start, rest, s.budget, hint)]
    /\ UNCHANGED rvars

-----------------------------------------------------------------------------
(* The C calls, each with the outcomes it may have.                        *)

Calls ==
    <<Ffi!fwd_get_latest, Ffi!fwd_iter_on_revision, Ffi!fwd_iter_on_proposal,
      Ffi!fwd_iter_on_reconstructed, Ffi!fwd_iter_next, Ffi!fwd_iter_next_n,
      Ffi!fwd_free_iterator, Ffi!fwd_get_revision, Ffi!fwd_get_from_revision,
      Ffi!fwd_free_revision, Ffi!fwd_get_from_proposal, Ffi!fwd_get_from_reconstructed,
      Ffi!fwd_batch, Ffi!fwd_propose_on_db, Ffi!fwd_propose_on_proposal,
      Ffi!fwd_reconstruct_on_revision, Ffi!fwd_reconstruct_on_reconstructed,
      Ffi!fwd_clone_reconstructed, Ffi!fwd_commit_proposal,
      Ffi!fwd_commit_proposal_with_rebase, Ffi!fwd_free_proposal,
      Ffi!fwd_free_reconstructed, Ffi!fwd_reconstructed_root_hash, Ffi!fwd_root_hash,
      Ffi!fwd_db_dump, Ffi!fwd_revision_dump, Ffi!fwd_proposal_dump,
      Ffi!fwd_reconstructed_dump, Ffi!fwd_close_db, Ffi!fwd_start_metrics,
      Ffi!fwd_gather_rendered, Ffi!fwd_start_logs, Ffi!fwd_block_replay_flush,
      Ffi!fwd_free_owned_bytes, Ffi!fwd_free_owned_key_value_batch,
      Ffi!fwd_free_owned_kv_pair, Ffi!fwd_free_rendered_metrics, Ffi!fwd_free_eth_proof,
      Ffi!fwd_db_range_proof, Ffi!fwd_db_range_proof_from_bytes, Ffi!fwd_range_proof_verify,
      Ffi!fwd_db_verify_range_proof, Ffi!fwd_db_verify_and_commit_range_proof,
      Ffi!fwd_range_proof_find_next_key, Ffi!fwd_range_proof_code_hash_iter,
      Ffi!fwd_range_proof_to_bytes, Ffi!fwd_free_range_proof, Ffi!fwd_db_change_proof,
      Ffi!fwd_db_change_proof_from_bytes, Ffi!fwd_db_verify_change_proof,
      Ffi!fwd_db_verify_and_commit_change_proof, Ffi!fwd_change_proof_find_next_key,
      Ffi!fwd_change_proof_code_hash_iter, Ffi!fwd_change_proof_to_bytes,
      Ffi!fwd_free_change_proof, Ffi!fwd_code_hash_iter_next, Ffi!fwd_code_hash_iter_free,
      Ffi!fwd_eth_get_proof, Ffi!fwd_eth_get_proof_on_reconstructed>>

-----------------------------------------------------------------------------
(* Ethereum tries.                                                         *)

\* The pairs after an operation.
EthPairs(kv, op) ==
    CASE op.op = "put" -> [k \in DOMAIN kv \cup {op.key} |->
                              IF k = op.key THEN op.value ELSE kv[k]]
      [] op.op = "delete" -> [k \in DOMAIN kv \ {op.key} |-> kv[k]]
      [] op.op = "delete_range" ->
            [k \in {l \in DOMAIN kv : ~IsPrefix(op.key, l)} |-> kv[k]]

\* An account is created before its storage and deleted with it, as the state
\* database above Firewood does.
AccountsFirst(kv) ==
    \A k \in DOMAIN kv :
        Len(k) > ACCOUNT_DEPTH => SubSeq(k, 1, ACCOUNT_DEPTH) \in DOMAIN kv

EthCommit ==
    /\ input.kind = "eth"
    /\ \E ops \in EthBatches :
          LET kv == FoldLeft(EthPairs, input.kv, ops)
          IN  /\ AccountsFirst(kv)
              /\ input' = [input EXCEPT !.kv = kv, !.root = Eth!EthCommit(@, ops)]
    /\ UNCHANGED rvars

-----------------------------------------------------------------------------
(* The behaviours.                                                         *)

CallInput(c) ==
    \E o \in c.ends : input = [kind |-> "call", call |-> c, outcome |-> o]

Input ==
    \/ \E n \in Nodes : input = [kind |-> "node", mode |-> n.mode, node |-> n.node]
    \/ \E next \in {NoAddr, 1, 127, 128, 250, 251, 65535, 65536}, index \in AreaIndex :
          input = [kind |-> "free", next |-> next, index |-> index]
    \/ \E version \in VALID_V1_VERSIONS, last \in AreaIndex, before \in AreaIndex,
          addr \in {NoAddr, HEADER_SIZE}, mode \in ToSet(NodeHashAlgorithms) :
          input = [kind |-> "header", version |-> version, before |-> before, last |-> last,
                   addr |-> addr, mode |-> mode]
    \/ \E image \in Images : input = [kind |-> "image", image |-> image, damage |-> 0]
    \/ \E proof \in Proofs, c \in FrameLengths :
          input = [kind |-> "proof", proof |-> proof, compressed |-> c]
    \/ \E request \in Requests : input = [kind |-> "sized", request |-> request]
    \/ \E i \in 1 .. Len(Calls) : CallInput(Calls[i])
    \/ \E o \in Options : input = [kind |-> "open", args |-> o]
    \/ input = [kind |-> "replay"]
    \/ \E list \in Lists : input = [kind |-> "rlp", list |-> list]
    \/ input = [kind |-> "eth", kv |-> <<>>, root |-> Eth!Nil, recompute |-> FALSE]
    \/ \E kv \in EthContents :
          input = [kind |-> "eth", kv |-> kv, recompute |-> TRUE,
                   root |-> Eth!Legacy(Eth!HashRoot(Eth!Canonical(kv)))]

Init == ReplayInit /\ Input

Next ==
    \/ Damage
    \/ SizeChunk
    \/ NextChunk
    \/ EthCommit
    \/ input.kind = "replay" /\ ReplayNext /\ UNCHANGED input

Spec == Init /\ [][Next]_vars

-----------------------------------------------------------------------------
(* The C interface.                                                        *)

\* The error a Go method is to return for an outcome, "nil" for none.
ErrorFor(ty, o) ==
    CASE o = "null" -> "closed"
      [] o \in {"err", "panic"} -> "message"
      [] o = "notFound" -> "not found"
      [] o = "startNotFound" -> "start not found"
      [] o = "endNotFound" -> "end not found"
      [] o = "emptyTrie" -> "empty trie"
      [] o = "unverified" -> "not prepared"
      [] o = "unsupported" -> IF ty = "EthProof" THEN "not supported" ELSE "message"
      [] OTHER -> "nil"

\* What the documentation of the options asks of a configuration.
Documented(conf) ==
    /\ conf.revisions >= 2 /\ conf.revisions > conf.max_persistence_gap
    /\ conf.max_persistence_gap > 0
    /\ conf.strategy \in 0..2
    /\ conf.node_cache_memory_limit > 0 /\ conf.freelist_memory_limit_kb > 0


-----------------------------------------------------------------------------
(* RLP and Ethereum mode.                                                  *)

RlpBytes(list) ==
    RlpCodec!EncodeList([i \in DOMAIN list |-> RlpCodec!BytesItem(list[i])])

\* The encodings one changed byte away, in the first bytes of e.
AlmostRlp(e) ==
    {[e EXCEPT ![p] = b] : p \in 1 .. Min({6, Len(e)}),
        b \in {0, 1, 127, 128, 129, 130, 183, 184, 185, 191, 192, 194, 247, 248, 249, 255}}

\* All fields, one field, e and b in a list, and bytes that are the encoding of
\* what was read from them.
RlpFields(bytes) == RlpCodec!Then(RlpCodec!ParseList(bytes), RlpCodec!Fields)
NthField(bytes, i) == RlpCodec!Then(RlpCodec!ParseList(bytes),
                                    LAMBDA payload : RlpCodec!NthBytes(payload, i))
Behind(e, b) == RlpCodec!EncodeList(<<RlpCodec!RawItem(e), RlpCodec!BytesItem(b)>>)
OneEncoding(bytes, fields) == fields.ok => RlpBytes(fields.v) = bytes

\* The RLP codec (rlp.rs) is exact around every length at which a header changes
\* its form.  A list decodes to its fields, one by one and all at once, and not
\* when it is cut or extended; replacing a field is encoding the list with that
\* field replaced, also next to a nested list; and bytes that decode at all are
\* the one encoding of what they decode to.
RlpExactOn(list, e) ==
    /\ RlpFields(e) = RlpCodec!RlpOk(list)
    /\ \A i \in 0 .. Len(list) :
          NthField(e, i) = RlpCodec!Check(i < Len(list), RlpCodec!RlpOk(list[i + 1]))
    /\ \A b \in {SubSeq(e, 1, n) : n \in {0, 1, 2, 3, Len(e) - 1} \cap 0 .. Len(e) - 1}
               \cup {Append(e, 0)} : ~RlpCodec!ParseList(b).ok
    /\ \A i \in 0 .. Len(list), s \in Strings :
          RlpCodec!ReplaceListField(e, i, s)
            = RlpCodec!Check(i < Len(list), RlpCodec!RlpOk(RlpBytes([list EXCEPT ![i + 1] = s])))
    /\ \A s \in Strings :
          /\ ~RlpCodec!ReplaceListField(Behind(e, <<5>>), 0, s).ok
          /\ RlpCodec!ReplaceListField(Behind(e, <<5>>), 1, s) = RlpCodec!RlpOk(Behind(e, s))
    /\ Len(e) <= 60 => \A b \in AlmostRlp(e) : OneEncoding(b, RlpFields(b))

\* The fields of an account value, and its code hash, are read from any list
\* that starts with four fields of the right lengths.
AccountRead(list, account, code) ==
    /\ account.ok <=> /\ Len(list) >= 4
                      /\ Len(list[1]) <= 8 /\ Len(list[2]) <= 32
                      /\ Len(list[3]) = 32 /\ Len(list[4]) = 32
    /\ account.ok =>
          /\ Len(account.v.nonce) = 8 /\ IsSuffix(list[1], account.v.nonce)
          /\ account.v.storage_root = list[3] /\ account.v.code_hash = list[4]
    /\ code.ok <=> Len(list) >= 4 /\ Len(list[4]) = 32
    /\ code.ok => code.v = IF list[4] = RlpCodec!KECCAK_EMPTY THEN <<>> ELSE list[4]

RlpExact(list, e) ==
    /\ RlpExactOn(list, e)
    /\ AccountRead(list, RlpCodec!AccountFieldsFromRlp(e), RlpCodec!AccountCodeHash(e))

\* Every hash in the trie is the one the checker computes for its node.
RECURSIVE HashesRecompute(_, _, _)
HashesRecompute(node, prefix, peers) ==
    /\ node.hash = Eth!ComputeNodeEthHash(node, prefix, peers)
    /\ \A i \in DOMAIN node.ch :
          HashesRecompute(node.ch[i], prefix \o node.path \o <<i>>,
                          Cardinality(DOMAIN node.ch) > 1)

\* What an Ethereum client is to read at a key.
EthItem(kv, k) ==
    IF k \notin DOMAIN kv THEN Eth!Empty
    ELSE IF k \in EthAccounts THEN Eth!AccountItem(kv, k)
    ELSE Eth!AsBytes(Eth!ValueBytes(kv[k], Eth!StaleRoot))

\* A proof of Firewood's own is accepted and shows the item at its key.
OwnProofRight(root, kv, k, recompute) ==
    LET proof == Eth!SingleKeyProof(root, k, recompute)
    IN  /\ Eth!ProofAccepted(proof, k, Eth!EthRootHash(root))
        /\ Eth!AsBytes(Eth!ProofShows(proof, k)) = EthItem(kv, k)

\* The accounts that share most with a, among those that have a value or storage.
Nearest(kv, a) ==
    LET accounts == {SubSeq(k, 1, ACCOUNT_DEPTH) : k \in DOMAIN kv}
        common(b) == Len(Eth!PrefixOverlap(a, b).shared)
    IN  {b \in accounts : \A c \in accounts : common(c) <= common(b)}

\* An answer to eth_getProof is right for a verifier that knows only Ethereum's
\* tries.  Of an absent account the proof is; the rest of the answer is that of no
\* account at all, unless the proof ends at the leaf of the one account next to it
\* (AbsentAccountZero).
EthProofRight(root, kv, a, answer) ==
    LET read == Eth!MptProofValue(answer.accountProof, Eth!EthRootHash(root), a)
        slot(s) == Eth!MptProofValue(answer.storageProofs[s].proof, answer.fields.storageHash, s)
        value(s) == IF a \o s \in DOMAIN kv THEN kv[a \o s] ELSE Eth!NoValue
    IN  /\ read.ok /\ read.value = EthItem(kv, a)
        /\ a \in DOMAIN kv => (answer.ok <=> kv[a] \in AccountValues)
        /\ a \in DOMAIN kv /\ answer.ok =>
              /\ answer.fields = Eth!AccountFields(kv[a], Eth!StorageRoot(kv, a))
              /\ \A s \in EthSlots : /\ slot(s).ok
                                     /\ slot(s).value = EthItem(kv, a \o s)
                                     /\ answer.storageProofs[s].value = value(s)
        /\ a \notin DOMAIN kv /\ ~(\E b \in DOMAIN kv : Nearest(kv, a) = {b}) =>
              /\ answer.ok /\ answer.fields = Eth!ZeroFields
              /\ \A s \in EthSlots : answer.storageProofs[s] = Eth!NoStorageProof(s)

\* In Ethereum mode (hash.rs, ethhash.rs, eth_proof.rs) the root hash, kept up to
\* date batch by batch with the hashes of what a batch did not touch, is at all
\* times the state root that triehash computes from the pairs alone, and every
\* hash kept in a node is the one the checker computes.  Proofs of any account
\* and slot, present or not, are accepted by Firewood's verifier and by an
\* Ethereum one and show what the database holds, and the storage proofs start
\* at the storage root that the account proof shows; so also on a database of a
\* release that left stale storage roots in the account values.
EthExact ==
    input.kind = "eth" =>
        LET root == input.root
            kv == input.kv
        IN  /\ Eth!EthRootHash(root) = Eth!StateRoot(kv)
            /\ root # Eth!Nil => HashesRecompute(root, <<>>, FALSE)
            /\ root # Eth!Nil =>
                  \A k \in EthAccounts \cup {a \o s : a \in EthAccounts, s \in EthSlots} :
                      OwnProofRight(root, kv, k, input.recompute)
            /\ \A a \in EthAccounts :
                  EthProofRight(root, kv, a, Eth!EthGetProof(root, a, EthSlots, input.recompute))

-----------------------------------------------------------------------------
(* Bytes on disk.                                                          *)

\* What the store writes it reads back (Node::as_bytes and from_reader, FreeArea
\* in its two forms, the header).  A node is stored in the smallest area that
\* holds it, decodes to itself and ends where its bytes end, a part of it never
\* decodes, and it is not taken for a free area; only an inline hash under
\* MerkleDB is refused.  The two forms of a free area mean the same, and the new
\* one is never a node.  The header of a file whose last area is written in part
\* is accepted for its own hash scheme alone, and its root hash is used unless
\* it is of a release that did not store one.  The codec of the values of
\* Ethereum accounts is exact.
DiskRoundTrip ==
    /\ input.kind = "rlp" => RlpExact(input.list, RlpBytes(input.list))
    /\ input.kind = "node" =>
          LET e == Node_as_bytes(input.mode, input.node)
              b == e.v
              inline == \E i \in DOMAIN input.node.children : input.node.children[i].hash.rlp
          IN  /\ e.ok <=> ~(inline /\ input.mode = "MerkleDB")
              /\ e.ok =>
                    /\ Len(b) <= AreaSize(b[1])
                    /\ b[1] > 0 => Len(b) > AreaSize(b[1] - 1)
                    /\ Node_from_reader(input.mode, b, 2) = Got(input.node, Len(b) + 1)
                    /\ read_stored_area_info(b).v.kind = "Node"
                    /\ b[2] # 1 => ~FreeArea_from_storage(b).ok
                    /\ \A n \in 1 .. Len(b) - 1 :
                          ~Node_from_reader(input.mode, SubSeq(b, 1, n), 2).ok
    /\ input.kind = "free" =>
          LET new == FreeArea_as_bytes(input.next, input.index)
              old == LegacyFreeAreaBytes(input.next, input.index)
              same == [next |-> input.next, index |-> input.index]
          IN  /\ FreeArea_from_storage(new) = Got(same, Len(new) + 1)
              /\ FreeArea_from_storage(old) = Got(same, Len(old) + 1)
              /\ read_stored_area_info(new).v.kind = "Free"
              /\ \A mode \in ToSet(NodeHashAlgorithms) : ~Node_from_reader(mode, new, 2).ok
              /\ \A n \in 0 .. Len(new) - 1 : ~FreeArea_from_storage(SubSeq(new, 1, n)).ok
    /\ input.kind = "header" =>
          LET start == HEADER_SIZE + AreaSize(input.before)
              header == set_root_location(
                          [NodeStoreHeader_new(input.mode) EXCEPT
                              !.version = input.version, !.size = start + AreaSize(input.last)],
                          input.addr, "hash")
          IN  /\ \A n \in {1, AreaSize(input.last)}, mode \in ToSet(NodeHashAlgorithms) :
                    validate(header, mode, start + n) <=> mode = input.mode
              /\ AreaSize(input.last) = MAX_AREA_SIZE => ~validate(header, input.mode, start)
              /\ LinearAddressRangeSet_new(header.size).ok
              /\ root_hash(header) =
                    IF input.addr # NoAddr /\ input.version \in {0, 1} THEN "hash" ELSE NoHash

-----------------------------------------------------------------------------
(* The checker.  A reference for what it is to find: pointers and areas.   *)

Pointer(from, slot, to, hash) == [from |-> from, slot |-> slot, to |-> to, hash |-> hash]

\* The areas reached from a set of addresses by following readable areas.
Reached(disk, roots, kind, next(_)) ==
    LET step[n \in 0 .. Cardinality(DOMAIN disk)] ==
            IF n = 0 THEN roots
            ELSE step[n - 1] \cup UNION {next(a) : a \in
                    {x \in step[n - 1] : x \in DOMAIN disk /\ disk[x].kind = kind}}
    IN  step[Cardinality(DOMAIN disk)]

TriePointers(image) ==
    LET disk == image.disk
        below(a) == {Pointer(a, i, disk[a].children[i].addr, disk[a].children[i].hash) :
                        i \in DOMAIN disk[a].children}
        reached == Reached(disk, {image.root}, "branch", LAMBDA a : {p.to : p \in below(a)})
    IN  IF image.root = NoAddr THEN {}
        ELSE {Pointer(NoAddr, 0, image.root, image.rootHash)}
               \cup UNION {below(a) : a \in
                              {x \in reached : x \in DOMAIN disk /\ disk[x].kind = "branch"}}

ListPointers(image, i) ==
    LET disk == image.disk
        reached == Reached(disk, {image.free_lists[i]}, "free", LAMBDA a : {disk[a].next})
    IN  {p \in {Pointer(NoAddr, i, image.free_lists[i], 0)}
                 \cup {Pointer(a, i, disk[a].next, 0) : a \in
                          {x \in reached : x \in DOMAIN disk /\ disk[x].kind = "free"}} :
            p.to # NoAddr}

Space(disk, a) == a .. a + AreaSize(disk[a].index) - 1

FreePointers(image) == UNION {ListPointers(image, i) : i \in AreaIndex}
Used(image) == {p.to : p \in TriePointers(image) \cup FreePointers(image)}

\* Every pointer leads to an area fit for it, no area is led to twice, and the
\* areas fill the file behind the header without overlap.
FitForTrie(disk, p, hash_check) ==
    /\ p.to % MIN_AREA_SIZE = 0
    /\ p.to \in DOMAIN disk
    /\ disk[p.to].kind \in {"leaf", "branch"}
    /\ disk[p.to].bytes <= AreaSize(disk[p.to].index)
    /\ disk[p.to].value => disk[p.to].key
    /\ hash_check => disk[p.to].hash = p.hash
FitForList(disk, p) ==
    /\ p.to % MIN_AREA_SIZE = 0
    /\ p.to \in DOMAIN disk
    /\ disk[p.to].kind = "free" /\ disk[p.to].index = p.slot
Fills(disk, used, size) ==
    /\ \A a, b \in used : a < b => a + AreaSize(disk[a].index) <= b
    /\ UNION {Space(disk, a) : a \in used} = HEADER_SIZE .. size - 1
Sound(image, hash_check) ==
    /\ image.size >= HEADER_SIZE
    /\ \A p \in TriePointers(image) : FitForTrie(image.disk, p, hash_check)
    /\ \A p \in FreePointers(image) : FitForList(image.disk, p)
    /\ Cardinality(Used(image))
         = Cardinality(TriePointers(image)) + Cardinality(FreePointers(image))
    /\ Fills(image.disk, Used(image), image.size)

Bytes(ranges) == FoldSet(LAMBDA x, n : n + (x.end - x.start), 0, ranges)
AreaBytes(r) ==
    calculate_area_totals(r.trie_stats.branch_area_counts).bytes
      + calculate_area_totals(r.trie_stats.leaf_area_counts).bytes
      + calculate_area_totals(r.free_list_stats.area_counts).bytes

\* What the report r on the image is to say; used are the areas pointers lead to.
ExactReport(image, r, sound, used) ==
    /\ r.errors = <<>> <=> sound
    /\ image.size >= HEADER_SIZE =>
          /\ AreaBytes(r) + r.leaked_bytes = image.size - HEADER_SIZE
          /\ Bytes(r.leaked) = r.leaked_bytes
          /\ \A x \in r.leaked :
                HEADER_SIZE <= x.start /\ x.start < x.end /\ x.end <= image.size
    /\ r.errors = <<CheckerError("AreaLeaks", NoAddr, NoParent)>> =>
          UNION {x.start .. x.end - 1 : x \in r.leaked}
            = (HEADER_SIZE .. image.size - 1) \ UNION {Space(image.disk, a) : a \in used}

\* The checker (NodeStore::check) reports no error for an image exactly when the
\* image is sound, with and without hash checks, whatever fields are damaged.
\* Whatever it finds, the areas it counted and the bytes it calls leaked make up
\* the file behind the header, the leaked ranges have as many bytes as it says,
\* and when nothing else is wrong they are exactly the space no pointer leads to.
CheckerExact ==
    input.kind = "image" =>
        \A hash_check \in BOOLEAN :
            ExactReport(input.image, check(input.image, hash_check),
                        Sound(input.image, hash_check), Used(input.image))

OnFreeList(error) == parent_of(error).of \in {"FreeListHead", "PrevFreeArea"}

\* The areas that a leaked range is split into cover it without overlap.
Tiled(x, areas) ==
    LET space(a) == a.addr .. a.addr + AreaSize(a.index) - 1
    IN  /\ UNION {space(a) : a \in areas} = x.start .. x.end - 1
        /\ \A a, b \in areas : a.addr < b.addr => a.addr + AreaSize(a.index) <= b.addr

\* The report again, on the image that was repaired after the report r.
Repaired(image, r, repair, again) ==
    /\ \A i \in DOMAIN repair.unfixable :
          OnFreeList(repair.unfixable[i].error) => repair.unfixable[i].io
    /\ again.errors = [i \in DOMAIN repair.unfixable |-> repair.unfixable[i].error]
    /\ again.free_list_stats = r.free_list_stats
    /\ again.trie_stats = r.trie_stats
    /\ again.leaked = r.leaked
    /\ \A x \in r.leaked : Tiled(x, split_all_leaked_ranges(image.disk, {x}))

CheckedAgain(image, r, repair) == Repaired(image, r, repair, check(repair.image, TRUE))

\* The areas whose links a repair after the report r writes.
Rewritten(r) ==
    {parent_of(r.errors[i]).addr :
        i \in {j \in DOMAIN r.errors : parent_of(r.errors[j]).of = "PrevFreeArea"}}

RepairedOnce(image, r) ==
    \A bad \in SUBSET Rewritten(r) : CheckedAgain(image, r, fix(image, r, bad))

\* One call of fix (NodeStore::fix) is enough, whichever of its writes fail:
\* checked again, the image has the errors that fix gave back as unfixable and no
\* others, and an error on a free list is among them only if its write failed.
\* Every free area that was counted before is still counted, and the statistics
\* and the leaked ranges are what they were.  The areas a leaked range is split
\* into cover it from its start to its end without overlap.
FixConverges ==
    input.kind = "image" /\ input.image.size >= HEADER_SIZE =>
        RepairedOnce(input.image, check(input.image, TRUE))

-----------------------------------------------------------------------------
(* Proofs.                                                                 *)

\* The proof a receiver is to see: long values are replaced by their hashes.
Hashed(proof) ==
    LET node(n) == [n EXCEPT !.digest = make_hash(proof.mode, @)]
        nodes(s) == [k \in 1 .. Len(s) |-> node(s[k])]
    IN  [proof EXCEPT !.start = nodes(@), !.end = nodes(@)]

\* A database may hold what the proof is about.
Storable(proof) ==
    /\ \A i \in DOMAIN proof.items :
          LET item == proof.items[i]
          IN  check_batch_op(proof.mode,
                             IF item.op = "Pair" THEN Put(item.key, item.value) ELSE item)
    /\ \A s \in {proof.start, proof.end} : \A i \in DOMAIN s : Len(s[i].key) <= MAX_KEY_NIBBLES

\* A proof about anything a database may hold reaches the other side (write_to_vec
\* and from_slice of range and change proofs): unless its body is too long to be
\* written at all, the receiver accepts the message however well it compresses,
\* and gets the proof with its long values hashed, which it would write as the
\* same body.  It refuses the message as a proof of the other kind, under the
\* other hash mode, with any field of the header changed, with the frame cut,
\* extended or declaring another size, and with the body cut or extended.
ProofsTravel ==
    input.kind = "proof" =>
        LET proof == input.proof
            body == write_body_to_vec(proof)
            sent == write_to_vec(proof, input.compressed)
            m == sent.v
            other(set, x) == CHOOSE y \in set : y # x
            kind == other({"Range", "Change"}, proof.kind)
            mode == other({"MerkleDB", "Ethereum"}, proof.mode)
            got == from_slice_in_mode(m, proof.kind, proof.mode)
        IN  /\ sent.ok <=> Len(body) <= MAX_DECOMPRESSED_LEN
            /\ sent.ok /\ Storable(proof) =>
                  /\ got.ok
                  /\ got.v = Hashed(proof)
                  /\ write_body_to_vec(got.v) = body
            /\ sent.ok =>
                  /\ ~from_slice_in_mode(m, proof.kind, mode).ok
                  /\ \A field \in DOMAIN m.header \ {"magic"} : \A n \in {0, 1, 2, 17} :
                        m.header[field] # n =>
                            ~from_slice_in_mode([m EXCEPT !.header[field] = n],
                                                proof.kind, proof.mode).ok
                  /\ ~from_slice([m EXCEPT !.header.magic = "other"], proof.kind).ok
                  /\ ~from_slice(m, kind).ok
                  /\ \A d \in {-1, 1} :
                        /\ ~from_slice([m EXCEPT !.frame.len = @ + d], proof.kind).ok
                        /\ ~from_slice([m EXCEPT !.frame.content_size = @ + d], proof.kind).ok
            /\ Len(body) <= 60 =>
                  /\ ~read_body(proof.kind, proof.mode, Append(body, 0)).ok
                  /\ \A n \in 0 .. Len(body) - 1 :
                        ~read_body(proof.kind, proof.mode, SubSeq(body, 1, n)).ok

\* The bytes of the nodes of an edge proof and their number.
EdgeLen(mode, s) ==
    Len(write_items([k \in 1 .. Len(s) |-> write_proof_node(mode, s[k])]))

\* The chunk that a request ends with.
ChunkOf(s, got) ==
    /\ s.fit.wire_len <= s.budget
    /\ s.items # <<>> => s.fit.count > 0
    /\ s.fit.terminal <=> s.fit.count = Len(s.items)
    /\ s.fit.count = Max(s.fits)
    /\ got.ok
    /\ got.v.items = SubSeq(s.items, 1, s.fit.count)
    /\ s.fit.edges = EdgeLen(s.mode, got.v.start) + EdgeLen(s.mode, got.v.end)

\* A request for a proof of a given size (build_sized_chunk of sized.rs), however
\* the bodies compress and whatever the hint said, comes to an end after at most
\* MAX_CORRECTION_PASSES + 2 candidates.  Its message is within the budget and one
\* that the receiver accepts; it holds the first items of the stream, at least one
\* if there is any, so that asking on ends; it claims the natural end exactly when
\* nothing is left; it is the largest candidate that ever fit; and what it hands
\* on as the size of the edges is what they took.  No request fails for its size
\* when some candidate fit: it failed with at most one item.
ChunksFit ==
    input.kind = "sized" =>
        LET s == input.request
        IN  /\ s.probes <= MAX_CORRECTION_PASSES + 2
            /\ s.state \in {"ProofOverBudget", "BodyTooLarge"} => s.fits = {} /\ s.count <= 1
            /\ s.state = "Ok" =>
                  ChunkOf(s, from_slice_in_mode(s.fit.message, s.kind, s.mode))

-----------------------------------------------------------------------------
(* The replay log.                                                         *)

\* As long as every call was one the log can express and no flush failed, what
\* the recorder has written and buffered (ffi/src/replay.rs) replays without an
\* error (replay_from_reader) to the contents of the database; stopped after any
\* number of commits it has the contents the database had after that commit, and
\* names the last of their hashes that is not that of the empty trie.
ReplayFaithful ==
    exact /\ pending = {} =>
        LET segments == Append(file, recorder.operations)
            upto(n) == replay_from_reader(segments, n)
            all == upto(Len(history) + 1)
        IN  /\ all.ok /\ all.content = content
            /\ \A n \in 1 .. Len(history) :
                  /\ upto(n).ok
                  /\ upto(n).content = history[n]
                  /\ upto(n).last =
                        LET full == {i \in 1 .. n : history[i] # {}}
                        IN  IF full = {} THEN {} ELSE history[Max(full)]

-----------------------------------------------------------------------------
(* Statements of the documentation that the code does not keep.            *)

\* "Absent accounts return zero account fields plus the exclusion proof bytes"
\* (eth_proof.rs).
AbsentAccountZero ==
    input.kind = "eth" =>
        \A a \in EthAccounts \ DOMAIN input.kv :
            Eth!EthGetProof(input.root, a, EthSlots, input.recompute).fields = Eth!ZeroFields
=============================================================================
