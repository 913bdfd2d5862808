------------------------------ MODULE MCFormats -----------------------------
(***************************************************************************)
(* The inputs of Formats for TLC: around the lengths at which an encoding  *)
(* changes its form, and every field of a small disk image.                *)
(***************************************************************************)
EXTENDS Formats

MCAreaSizes == <<16, 32, 64, 1024>>

Repeat(byte, n) == [i \in 1 .. n |-> byte]
Hash32(byte) == Hash(Repeat(byte, 32))

-----------------------------------------------------------------------------
(* Nodes: paths and values around the overflow lengths, children with      *)
(* hashes and inline nodes, up to all sixteen.                             *)

Children(set, h) == [i \in set |-> [addr |-> 256 * (i + 1), hash |-> h]]

NodeSet ==
    {LeafNode(Repeat(5, n), Repeat(9, v)) : n \in {0, 1, 125, 126, 127, 128}, v \in {0, 1, 127, 128}}
    \cup {BranchNode(Repeat(15, n), v, Children(set, h)) :
            n \in {0, 2, 3, 4}, v \in {NoBytes, <<>>, <<255, 255>>},
            set \in {{0}, {3, 15}}, h \in {Hash32(7), Rlp(<<200>>), Rlp(Repeat(1, 31))}}
    \cup {BranchNode(<<>>, <<1>>, Children(0 .. 15, h)) : h \in {Hash32(7), Rlp(<<200>>)}}

MCNodes ==
    [mode : {"MerkleDB", "Ethereum"}, node : NodeSet]

-----------------------------------------------------------------------------
(* Images: a trie of two branches and two leaves with two free lists, an   *)
(* empty trie, and a file that is all header.                              *)

NodeArea(kind, index, bytes, value, h, children) ==
    [kind |-> kind, index |-> index, next |-> NoAddr, bytes |-> bytes, value |-> value,
     key |-> TRUE, hash |-> h, children |-> children]
To(addr, h) == [addr |-> addr, hash |-> h]

TrieImage ==
    [size |-> 192, root |-> 32, rootHash |-> 1,
     free_lists |-> [i \in AreaIndex |-> CASE i = 0 -> 128 [] i = 1 -> 160 [] OTHER -> NoAddr],
     disk |->
        [a \in {32, 64, 96, 112, 128, 144, 160} |->
            CASE a = 32 -> NodeArea("branch", 1, 30, FALSE, 1,
                                    [i \in {0, 5} |-> IF i = 0 THEN To(64, 2) ELSE To(96, 4)])
              [] a = 64 -> NodeArea("branch", 1, 12, TRUE, 2, [i \in {1} |-> To(112, 6)])
              [] a = 96 -> NodeArea("leaf", 0, 16, TRUE, 4, <<>>)
              [] a = 112 -> NodeArea("leaf", 0, 10, TRUE, 6, <<>>)
              [] a = 128 -> FreeArea(0, 144)
              [] a = 144 -> FreeArea(0, NoAddr)
              [] a = 160 -> FreeArea(1, NoAddr)]]
EmptyTrieImage ==
    [TrieImage EXCEPT !.size = 96, !.root = NoAddr,
                      !.free_lists = [i \in AreaIndex |->
                                        CASE i = 0 -> 32 [] i = 1 -> 64 [] OTHER -> NoAddr],
                      !.disk = [a \in {32, 48, 64} |->
                                  CASE a = 32 -> FreeArea(0, 48)
                                    [] a = 48 -> FreeArea(0, NoAddr)
                                    [] a = 64 -> FreeArea(1, NoAddr)]]
MCImages == {TrieImage, EmptyTrieImage}

-----------------------------------------------------------------------------
(* Proofs.                                                                 *)

ProofNodes(mode) ==
    <<ProofNode(<<>>, 0, NoDigest, [i \in {0, 15} |-> Hash32(3)]),
      ProofNode(<<1, 2>>, 2, ValueOf(<<>>), <<>>),
      ProofNode(<<1, 2, 3, 4>>, 1, ValueOf(Repeat(8, 32)), <<>>),
      ProofNode(<<1, 2, 3, 4, 5>>, 1, NoDigest, <<>>),
      ProofNode(<<1>>, 0, HashOf(Hash32(4)),
                IF mode = "Ethereum" THEN [i \in {7, 8} |-> Rlp(<<192, 1>>)] ELSE <<>>),
      ProofNode(<<1>>, 0, ValueOf(Repeat(2, 200)), [i \in {1, 2} |-> Hash32(5)])>>

Items(kind) ==
    IF kind = "Range"
    THEN <<<<>>, <<Pair(<<18>>, <<>>)>>, <<Pair(<<18, 52>>, <<7>>), Pair(<<19>>, Repeat(6, 40))>>,
           <<Pair(<<1, 2, 3>>, <<7>>)>>>>
    ELSE <<<<>>, <<Put(<<18>>, <<>>)>>, <<Delete(<<18, 52>>), DeleteRange(<<>>)>>,
           <<Put(<<18>>, Repeat(6, 40)), Delete(<<18>>)>>, <<Delete(<<1, 2, 3>>)>>>>

\* No node, or one of the nodes chosen.
Ends(mode, chosen) == {IF k = 0 THEN <<>> ELSE <<ProofNodes(mode)[k]>> : k \in chosen}

\* Every start node (or none), some end nodes and every list of items.
MCProofs ==
    UNION {{[kind |-> kind, mode |-> mode, start |-> start, end |-> end, items |-> items] :
                start \in Ends(mode, 0 .. 6), end \in Ends(mode, {0, 3}),
                items \in ToSet(Items(kind))} :
           kind \in {"Range", "Change"}, mode \in {"MerkleDB", "Ethereum"}}

\* Streams of items of one and two hundred bytes and of a few, an error in one of
\* them, and an item that no body has room for.
Stream(kind, sizes) ==
    [k \in 1 .. Len(sizes) |->
        CASE sizes[k] = 999 -> [op |-> "Err"]
          [] sizes[k] # 999 /\ kind = "Range" -> Pair(<<k>>, Repeat(k, sizes[k]))
          [] sizes[k] = 0 /\ kind = "Change" -> Delete(<<k>>)
          [] OTHER -> Put(<<k>>, Repeat(k, sizes[k]))]
Streams ==
    {<<>>, <<2>>, <<300>>, <<30, 0, 30, 0, 30>>, <<100, 100, 100, 100>>,
     <<5, 300, 5>>, <<5, 5, 999>>, [k \in 1 .. 12 |-> 20]}

MCEndProofs == {<<>>, <<ProofNodes("MerkleDB")[1]>>}
Hints == {NoHint, [ratio |-> 2 * SCALE, edges |-> 0],
          [ratio |-> SCALE \div 64, edges |-> 0], [ratio |-> SCALE \div 64, edges |-> 90]}

MCRequests ==
    {range_proof_sized("MerkleDB", FALSE, FALSE, <<>>, Stream("Range", sizes), budget, hint) :
        sizes \in Streams, budget \in {41, 70, 100}, hint \in Hints}
    \cup {change_proof_sized("MerkleDB", FALSE, FALSE, <<>>, Stream("Change", sizes), budget, hint) :
        sizes \in Streams, budget \in {41, 70, 100}, hint \in Hints}
    \cup {range_proof_sized("MerkleDB", TRUE, start_key, <<>>, <<>>, 70, NoHint) :
        start_key \in BOOLEAN}
    \cup {change_proof_sized("MerkleDB", TRUE, start_key, <<>>, Stream("Change", sizes), 70, NoHint) :
        start_key \in BOOLEAN, sizes \in {<<>>, <<0, 0>>}}

-----------------------------------------------------------------------------
(* Configurations.                                                         *)

MCOptions ==
    [path : {"", "dir"}, pathUtf8 : BOOLEAN,
     opts : [strategy : {0, 2, 3}, revisions : {0, 1, 2, 3}, max_persistence_gap : 0 .. 3,
             node_cache_memory_limit : {0, 1}, freelist_memory_limit_kb : {0, 1},
             tagUtf8 : BOOLEAN]]
    \cup [path : {"dir"}, pathUtf8 : {TRUE}, opts : [max_persistence_gap : {99, 100}]]
    \cup [path : {"dir"}, pathUtf8 : {TRUE}, opts : [revisions : {1, 2}]]

-----------------------------------------------------------------------------
(* RLP: one to three fields around the lengths 0, 1, 55 and 255, and       *)
(* account values.                                                         *)

MCStrings == {<<>>, <<0>>, <<127>>, <<128>>, Repeat(6, 2), Repeat(200, 32), Repeat(200, 55),
              Repeat(200, 56), Repeat(200, 255), Repeat(200, 256)}
MCLists ==
    {<<s>> : s \in MCStrings \cup {Repeat(200, 53), Repeat(200, 54), Repeat(200, 253), Repeat(200, 254)}}
    \cup {<<s, <<5>>, t>> : s, t \in {<<>>, <<128>>, Repeat(200, 26), Repeat(200, 200)}}
    \cup {<<n, b, r, c>> : n \in {Repeat(6, 8), Repeat(6, 9)},
                           b \in {Repeat(200, 32), Repeat(200, 33)},
                           r \in {Repeat(200, 31), Repeat(200, 32)},
                           c \in {Repeat(200, 32), Repeat(200, 33), RlpCodec!KECCAK_EMPTY}}
    \cup {<<<<5>>, <<>>, Repeat(200, 32), Repeat(200, 32), <<>>>>}

-----------------------------------------------------------------------------
(* Ethereum tries: accounts that share a first nibble or none, with slots  *)
(* that share two nibbles or none.  A leaf of a short value is inline.  No *)
(* two keys share all but a few nibbles: they are hashes.                  *)

A1 == <<0, 0, 0, 1>>
A2 == <<0, 1, 0, 0>>
A3 == <<1, 0, 0, 0>>
MCEthAccounts == {A1, A2, A3, <<0, 1, 1, 0>>, <<2, 0, 0, 0>>}
MCEthSlots == {<<0, 0, 0, 1>>, <<0, 0, 1, 1>>, <<1, 0, 0, 1>>}
S1 == <<0, 0, 0, 1>>

MCValueLen == [v \in {"short", "long", "junk"} |->
                  CASE v = "short" -> 6 [] v = "long" -> 40 [] v = "junk" -> 33]

MCEthBatches ==
    {<<Eth!Put(A1 \o s, v)>> : s \in MCEthSlots, v \in {"short", "long"}}
    \cup {<<Eth!Delete(A1 \o s)>> : s \in MCEthSlots}
    \cup {<<Eth!Put(A1, "a"), Eth!Put(A1 \o S1, "short")>>, <<Eth!Put(A1, "b")>>,
          <<Eth!Put(A2, "a")>>, <<Eth!Put(A2 \o S1, "long")>>, <<Eth!Put(A3, "junk")>>,
          <<Eth!DeleteRange(A1)>>, <<Eth!DeleteRange(A2)>>}

MCEthContents ==
    {[k \in {A1, A1 \o S1, A2, A2 \o S1, A3} |->
        IF Len(k) > ACCOUNT_DEPTH THEN "long" ELSE "a"]}
NoContents == {}

MCReplayKeys == {<<1>>, <<1, 2>>}
=============================================================================
