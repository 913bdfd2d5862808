---------------------------- MODULE MerkleProof ----------------------------
(***************************************************************************)
(* Range proofs and change proofs: how a peer generates them from a        *)
(* revision (merkle/mod.rs) and how a client verifies them against the     *)
(* root hash it trusts (merkle/mod.rs, merkle/collapse.rs,                 *)
(* merkle/reconcile.rs, proofs/change.rs, proofs/range.rs,                 *)
(* proofs/types.rs).                                                       *)
(*                                                                         *)
(* A proof node carries the path, the value and the child hashes of a      *)
(* node, which is exactly what the node's hash covers, so a proof node and *)
(* its hash are the same term.  The many error codes of a verifier are one *)
(* outcome, failure.  Only the MerkleDB hash mode is modelled: in the      *)
(* Ethereum mode the account level hashes differently.                     *)
(***************************************************************************)
EXTENDS MerkleIter

CONSTANT Nibbles \* the branch factor: the nibbles a path is made of

\* The results of an operation that may fail.
Failed == [ok |-> FALSE]
Done(x) == [ok |-> TRUE, val |-> x]

-----------------------------------------------------------------------------
(* Single-key proofs.                                                      *)

\* ProofNode::from_path_item.
ProofNode(item) ==
    HashOf(SubSeq(item.key, 1, Len(item.key) - Len(item.node.path)), item.node)

\* prove: the nodes on the path to the key.
Prove(root, key) ==
    LET path == PathIter(root, key) IN [i \in DOMAIN path |-> ProofNode(path[i])]

\* next_nibble: the nibble of c after its strict prefix b.
NextNibble(b, c) == IF IsStrictPrefix(b, c) THEN c[Len(b) + 1] ELSE NoNibble

\* A verifier that does not ask for the child at the end of an exclusion proof.
ProofValidNoExclusion(proof, key, rootHash) ==
    /\ proof # <<>>
    /\ proof[1] = rootHash
    /\ \A i \in 2..Len(proof) :
          LET n == NextNibble(proof[i - 1].key, key)
          IN  n \in DOMAIN proof[i - 1].ch /\ proof[i] = proof[i - 1].ch[n]

\* value_digest: the proof is a path of trusted hashes toward key, and when it
\* ends at an ancestor of key, that ancestor has no child toward key.
ProofValid(proof, key, rootHash) ==
    /\ proof # <<>>
    /\ proof[1] = rootHash
    /\ \A i \in DOMAIN proof : proof[i].value # NoValue => Len(proof[i].key) % 2 = 0
    /\ \A i \in 2..Len(proof) :
          LET n == NextNibble(proof[i - 1].key, key)
          IN  /\ n # NoNibble
              /\ NextNibble(proof[i - 1].key, proof[i].key) = n
              /\ n \in DOMAIN proof[i - 1].ch
              /\ proof[i] = proof[i - 1].ch[n]
    /\ NextNibble(Last(proof).key, key) \notin DOMAIN Last(proof).ch

\* The value a valid proof shows at key.
ProofValue(proof, key) == IF Last(proof).key = key THEN Last(proof).value ELSE NoValue

\* Proof::verify.
Verify(proof, key, expected, rootHash) ==
    ProofValid(proof, key, rootHash) /\ ProofValue(proof, key) = expected

\* lex_successor: a zero byte appended.
LexSuccessor(key) == key \o <<0, 0>>

\* start > end is an invalid range.
ValidRange(start, end) == start = Unbounded \/ end = Unbounded \/ LessEq(start, end)

\* A key within optional bounds.
Within(key, start, end) ==
    /\ start = Unbounded \/ LessEq(start, key)
    /\ end = Unbounded \/ LessEq(key, end)

KeyOr(bound, default) == IF bound = Unbounded THEN default ELSE bound
LastKey(items) == IF items = <<>> THEN Unbounded ELSE Last(items).key
Limited(items, limit) == SubSeq(items, 1, Min({limit, Len(items)}))

\* The proofs of the two bounds, when there are any; prove fails on an empty
\* trie.
ProveBound(root, key) == IF key = Unbounded THEN <<>> ELSE Prove(root, key)
ProvableBounds(root, start, end) == root = Nil => start = Unbounded /\ end = Unbounded

-----------------------------------------------------------------------------
(* Generating range proofs.                                                *)

\* The key the end proof is for: the last item of a truncated reply.
EndKey(all, limit, otherwise) ==
    IF limit < Len(all) THEN LastKey(Limited(all, limit)) ELSE otherwise

\* The proof of the pairs all, cut off at the limit.
RangeProofOf(root, all, start, end, limit) ==
    IF \/ ~ValidRange(start, end)
       \/ all = <<>> /\ start = Unbounded /\ end = Unbounded
       \/ ~ProvableBounds(root, start, EndKey(all, limit, end))
    THEN Failed
    ELSE Done([start |-> ProveBound(root, start),
               end |-> ProveBound(root, EndKey(all, limit, end)),
               kvs |-> Limited(all, limit)])

\* Merkle::range_proof.
RangeProof(root, start, end, limit) ==
    RangeProofOf(root, StopAfterKey(KeyValuesFrom(root, KeyOr(start, <<>>)), end),
                 start, end, limit)

-----------------------------------------------------------------------------
(* The edges of the proven range.                                          *)

\* verify_edge.  The pair of the edge is the record kv, or Nil.
VerifyEdge(bound, kv, proof, rootHash, left) ==
    \/ proof = <<>>
    \/ /\ bound = Unbounded \/ kv = Nil
             \/ (IF left THEN LessEq(bound, kv.key) ELSE LessEq(kv.key, bound))
       /\ IF bound # Unbounded
          THEN Verify(proof, bound,
                      IF kv # Nil /\ kv.key = bound THEN kv.value ELSE NoValue, rootHash)
          ELSE kv # Nil => Verify(proof, kv.key, kv.value, rootHash)

\* right_edge: where the end proof really ends.  inRange says whether that key
\* itself is part of the proven range.
RightEdge(endProof, lastKv, fallback) ==
    LET terminal == Last(endProof)
        anchored == endProof # <<>> /\ lastKv # Unbounded /\ terminal.value # NoValue
    IN  IF anchored /\ Less(lastKv, terminal.key)
        THEN [inRange |-> FALSE, key |-> terminal.key]
        ELSE IF anchored /\ terminal.key = lastKv
        THEN [inRange |-> TRUE, key |-> lastKv]
        ELSE [inRange |-> TRUE, key |-> fallback]

\* A right edge that reports the requested bound as proven.
RequestedRightEdge(boundary, lastKv, requestedEnd) == requestedEnd

\* proven_right_edge: the inclusive upper bound the proof establishes.
ProvenRightEdge(boundary, lastKv, requestedEnd) ==
    IF boundary.inRange THEN boundary.key
    ELSE IF requestedEnd # Unbounded /\ Less(requestedEnd, boundary.key) THEN requestedEnd
    ELSE lastKv

\* set_below and set_above of a child mask.
FarSide(left, n) == {i \in Nibbles : IF left THEN i < n ELSE i > n}

\* classify_terminal: the children of the last proof node that are outside the
\* range, and the child toward the boundary when that is below the node.
ClassifyTerminal(proof, left, bound) ==
    LET o == PrefixOverlap(Last(proof).key, bound)
        class(outside, on) == [outside |-> outside, on |-> on]
    IN  IF proof = <<>> \/ bound = Unbounded THEN class({}, NoNibble)
        ELSE CASE o.a # <<>> /\ o.b # <<>> ->
                    class(IF (o.b[1] > o.a[1]) = left THEN Nibbles ELSE {}, NoNibble)
               [] o.a = <<>> /\ o.b # <<>> -> class(FarSide(left, o.b[1]), o.b[1])
               [] OTHER -> class(IF left THEN {} ELSE Nibbles, NoNibble)

\* compute_outside_children: for every proof node, the children that lie
\* outside the range and whose hashes the proof supplies.
OutsideChildren(proof, left, bound) ==
    LET onPath(i) == proof[i + 1].key[Len(proof[i].key) + 1]
        mask(i) == IF i < Len(proof) THEN FarSide(left, onPath(i))
                   ELSE ClassifyTerminal(proof, left, bound).outside
    IN  [k \in {proof[i].key : i \in DOMAIN proof} |->
            UNION {mask(i) : i \in {j \in DOMAIN proof : proof[j].key = k}}]

\* The union of two masks.
JoinMasks(a, b) ==
    [k \in DOMAIN a \cup DOMAIN b |->
        (IF k \in DOMAIN a THEN a[k] ELSE {}) \cup (IF k \in DOMAIN b THEN b[k] ELSE {})]

\* The map of proof nodes by path; it fails on two different nodes for a path.
NodeMap(nodes) ==
    IF \E i, j \in DOMAIN nodes : nodes[i].key = nodes[j].key /\ nodes[i] # nodes[j]
    THEN Failed
    ELSE Done([k \in {nodes[i].key : i \in DOMAIN nodes} |->
                  nodes[CHOOSE i \in DOMAIN nodes : nodes[i].key = k]])

\* compute_root_hash_with_proofs (build_branch_parts): the hash of the proving
\* trie, with the proof's hashes for the children outside the range.
RECURSIVE HashWithProofs(_, _, _, _)
HashWithProofs(prefix, node, map, outside) ==
    LET key == prefix \o node.path
        proven == key \in DOMAIN map
        out == IF key \in DOMAIN outside THEN outside[key] ELSE {}
        mine == DOMAIN node.ch \ out
        given == IF proven THEN DOMAIN map[key].ch \cap out ELSE {}
    IN  [key |-> key,
         value |-> IF node.kind = "branch" /\ node.value = NoValue /\ proven
                   THEN map[key].value ELSE node.value,
         ch |-> [i \in mine \cup given |->
                    IF i \in given THEN map[key].ch[i]
                    ELSE HashWithProofs(Append(key, i), node.ch[i], map, outside)]]

\* reconcile_branch_proof_node: a branch at the proof node's path, with the
\* proof node's value.  A conflict at one of the strict nodes is an error.
ReconcileValue(root, node, strict) ==
    IF GetNode(root, node.key).value = node.value THEN Done(root)
    ELSE IF node \in strict THEN Failed
    ELSE Done(Insert(root, node.key, node.value))
Reconcile(res, node, strict) ==
    IF ~res.ok \/ (Len(node.key) % 2 = 1 /\ node.value # NoValue) THEN Failed
    ELSE ReconcileValue(InsertBranch(res.val, node.key), node, strict)

-----------------------------------------------------------------------------
(* Verifying range proofs.                                                 *)

\* verify_proof_node_values: the values on the two paths that are in range are
\* among the pairs.
ProofNodeValues(nodes, first, boundary, kvs) ==
    \A i \in DOMAIN nodes :
        LET n == nodes[i]
            inside == /\ Within(n.key, first, boundary.key)
                      /\ boundary.inRange \/ n.key # boundary.key
        IN  Len(n.key) % 2 = 0 /\ n.value # NoValue /\ inside =>
                \E j \in DOMAIN kvs : kvs[j] = [key |-> n.key, value |-> n.value]

\* verify_range_proof_root_hash.
RangeRootHashMatches(nodes, proof, first, boundary, rootHash) ==
    LET pairs == FoldLeft(LAMBDA t, kv : Insert(t, kv.key, kv.value), Nil, proof.kvs)
        strict == {nodes[i] : i \in {j \in DOMAIN nodes : nodes[j].value = NoValue}}
        trie == FoldLeft(LAMBDA r, n : Reconcile(r, n, strict), Done(pairs), nodes)
        map == NodeMap(nodes)
        outside == JoinMasks(OutsideChildren(proof.start, TRUE, first),
                             OutsideChildren(proof.end, FALSE, boundary.key))
    IN  /\ trie.ok /\ map.ok
        /\ trie.val # Nil
        /\ HashWithProofs(<<>>, trie.val, map.val, outside) = rootHash

\* verify_range_proof and verify_range_proof_structure; the result is the
\* inclusive right edge of the range that is proven.
VerifyRangeProof(first, last, rootHash, proof, maxLength) ==
    LET kvs == proof.kvs
        lastKv == LastKey(kvs)
        kvAt(i) == IF kvs = <<>> THEN Nil ELSE kvs[i]
        boundary == RightEdge(proof.end, lastKv, last)
        nodes == proof.start \o proof.end
    IN  IF /\ Len(kvs) <= maxLength
           /\ ValidRange(first, last)
           /\ \A i \in 1..(Len(kvs) - 1) : Less(kvs[i].key, kvs[i + 1].key)
           /\ \A i \in DOMAIN kvs : Within(kvs[i].key, first, last)
           /\ kvs # <<>> \/ first # Unbounded \/ last # Unbounded
           /\ first = Unbounded => proof.start = <<>>
           /\ last # Unbounded => proof.end # <<>>
           /\ \A i \in DOMAIN proof.end :
                 Len(proof.end[i].key) % 2 = 1 => proof.end[i].value = NoValue
           /\ VerifyEdge(first, kvAt(1), proof.start, rootHash, TRUE)
           /\ IF boundary.inRange
              THEN VerifyEdge(boundary.key, kvAt(Len(kvs)), proof.end, rootHash, FALSE)
              ELSE ProofValid(proof.end, boundary.key, rootHash)
           /\ ProofNodeValues(nodes, first, boundary, kvs)
           /\ RangeRootHashMatches(nodes, proof, first, boundary, rootHash)
        THEN Done(ProvenRightEdge(boundary, lastKv, last))
        ELSE Failed

\* A continuation that starts again at the last key.
NextKeyAgain(last, endKey) == last

\* The key a continuation starts at.
NextKey(last, endKey) == LexSuccessor(last)

\* find_next_key_after_range_proof: where the next request starts, or Unbounded
\* when the range is done.
NextAfterRangeProof(proof, end) ==
    LET last == LastKey(proof.kvs)
    IN  IF \/ proof.kvs = <<>>
           \/ proof.end = <<>>
           \/ end # Unbounded /\ LessEq(end, last)
        THEN Unbounded
        ELSE NextKey(last, end)

-----------------------------------------------------------------------------
(* Generating change proofs.                                               *)

\* The proof of the changes all, cut off at the limit.
ChangeProofOf(root, all, start, end, limit) ==
    LET endKey == EndKey(all, limit, KeyOr(end, LastKey(all)))
    IN  IF ~ValidRange(start, end) \/ ~ProvableBounds(root, start, endKey)
        THEN Failed
        ELSE Done([start |-> ProveBound(root, start), end |-> ProveBound(root, endKey),
                   ops |-> Limited(all, limit)])

\* Merkle::change_proof: what changed from source to root.  An empty end key
\* stops nothing.
ChangeProof(source, root, start, end, limit) ==
    ChangeProofOf(root,
                  StopAfterKey(Diff(source, root, KeyOr(start, <<>>)),
                               IF end = <<>> THEN Unbounded ELSE end),
                  start, end, limit)

\* find_next_key_after_change_proof.
NextAfterChangeProof(proof, end) ==
    LET last == LastKey(proof.ops)
    IN  IF proof.ops = <<>> \/ proof.end = <<>> \/ end = last
        THEN Unbounded
        ELSE NextKey(last, end)

-----------------------------------------------------------------------------
(* Verifying change proofs: structure.                                     *)

\* compute_right_edge_key.
ChangeRightEdge(proof, endRoot, end) ==
    LET anchor == LastKey(proof.ops)
        valid == ProofValid(proof.end, anchor, endRoot)
        present == ProofValue(proof.end, anchor) # NoValue
    IN  IF anchor = Unbounded THEN end
        ELSE IF valid /\ (present \/ Last(proof.ops).op = "delete") THEN anchor
        ELSE KeyOr(end, anchor)

\* verify_boundary_proof, for an operation op at the bound or Nil.
BoundaryProof(proof, key, endRoot, op) ==
    LET present == proof # <<>> /\ ProofValue(proof, key) # NoValue
    IN  /\ proof = <<>> \/ ProofValid(proof, key, endRoot)
        /\ op # Nil => (op.op = "put") = present

\* verify_change_proof_structure; the result is the right edge of the range.
VerifyChangeStructure(proof, endRoot, start, end, maxLength) ==
    LET ops == proof.ops
        edge == ChangeRightEdge(proof, endRoot, end)
        opAt(i, key) == IF ops = <<>> THEN Nil
                        ELSE IF ops[i].key = key THEN ops[i] ELSE Nil
    IN  IF /\ Len(ops) <= maxLength
           /\ ValidRange(start, end)
           /\ start = Unbounded => proof.start = <<>>
           /\ ops # <<>> => proof.end # <<>>
           /\ ops = <<>> => (proof.end = <<>>) = (end = Unbounded)
           /\ ops # <<>> => Within(ops[1].key, start, Unbounded)
           /\ ops # <<>> => Within(Last(ops).key, Unbounded, end)
           /\ start # Unbounded => BoundaryProof(proof.start, start, endRoot, opAt(1, start))
           /\ \A i \in DOMAIN ops : ops[i].op # "delete_range"
           /\ \A i \in 1..(Len(ops) - 1) : Less(ops[i].key, ops[i + 1].key)
           /\ edge # Unbounded =>
                 BoundaryProof(proof.end, edge, endRoot, opAt(Len(ops), edge))
        THEN Done(edge)
        ELSE Failed

-----------------------------------------------------------------------------
(* Verifying change proofs: the proposal takes the shape of the end trie   *)
(* along the two paths.  A range is a record of its two nibble bounds.     *)

\* CollapseRange::contains.
InProvenRange(range, key) == Within(key, range.start, range.end)

\* nibble_in_range: whether the child n below acc may hold keys of the range.
NibbleInRange(acc, n, range) ==
    LET c == Append(acc, n)
    IN  /\ Less(range.start, c) \/ IsPrefix(c, range.start)
        /\ range.end = Unbounded \/ Less(c, range.end) \/ IsPrefix(c, range.end)

\* child_in_range: whether it does.
RECURSIVE ChildInRange(_, _, _, _)
ChildInRange(child, acc, n, range) ==
    LET key == acc \o <<n>> \o child.path
    IN  /\ NibbleInRange(acc, n, range)
        /\ \/ child.value # NoValue /\ InProvenRange(range, key)
           \/ \E i \in DOMAIN child.ch : ChildInRange(child.ch[i], key, i, range)

\* A strip that clears the value of every branch it passes.
RECURSIVE CollapseStripAll(_, _, _, _)
CollapseStripAll(node, path, acc, range) ==
    LET on == path[1]
        child == node.ch[on]
        deeper == From(Tail(path), Len(child.path))
        sub == CollapseStripAll(child, deeper, acc \o <<on>> \o child.path, range)
    IN  IF path = <<>> THEN Done(node)
        ELSE IF node.kind # "branch" THEN Failed
        ELSE IF on \notin DOMAIN node.ch THEN Failed
        ELSE IF ~IsPrefix(child.path, Tail(path)) \/ ~sub.ok THEN Failed
        ELSE Done([sub.val EXCEPT !.path = node.path \o <<on>> \o @])

\* collapse_strip: remove what leaves the path from the branches on it, and
\* join a branch that is left with one child and no value with that child.
RECURSIVE CollapseStrip(_, _, _, _)
CollapseStrip(node, path, acc, range) ==
    LET on == path[1]
        child == node.ch[on]
        deeper == From(Tail(path), Len(child.path))
        sub == CollapseStrip(child, deeper, acc \o <<on>> \o child.path, range)
        value == IF InProvenRange(range, acc) THEN node.value ELSE NoValue
    IN  IF path = <<>> THEN Done(node)
        ELSE IF node.kind # "branch" THEN Failed
        ELSE IF \/ \E i \in DOMAIN node.ch \ {on} : ChildInRange(node.ch[i], acc, i, range)
                \/ on \notin DOMAIN node.ch
             THEN Failed
        ELSE IF ~IsPrefix(child.path, Tail(path)) \/ ~sub.ok THEN Failed
        ELSE IF value # NoValue
             THEN Done(Branch(node.path, value, SetChild(<<>>, on, sub.val)))
        ELSE Done([sub.val EXCEPT !.path = node.path \o <<on>> \o @])

\* collapse_navigate and collapse_descend: reach the node at key, then strip
\* the branches below it along suffix.
RECURSIVE CollapseNavigate(_, _, _, _, _)
CollapseNavigate(node, key, suffix, acc, range) ==
    LET o == PrefixOverlap(key, node.path)
        here == o.a = <<>>
        next == IF here THEN suffix[1] ELSE o.a[1]
        child == node.ch[next]
        after == From(Tail(suffix), Len(child.path))
        sub == IF here
               THEN IF IsPrefix(child.path, Tail(suffix))
                    THEN CollapseStrip(child, after, acc \o <<next>> \o child.path, range)
                    ELSE Failed
               ELSE CollapseNavigate(child, Tail(o.a), suffix, acc, range)
    IN  IF o.b # <<>> THEN Failed
        ELSE IF here /\ suffix = <<>> THEN Done(node)
        ELSE IF next \notin DOMAIN node.ch THEN Failed
        ELSE IF ~sub.ok THEN Failed
        ELSE Done([node EXCEPT !.ch = SetChild(node.ch, next, sub.val)])

\* collapse_branch_to_path for two consecutive proof nodes.
CollapseBranch(res, parent, child, range) ==
    IF ~res.ok THEN Failed
    ELSE CollapseNavigate(res.val, parent, From(child, Len(parent)), parent, range)

\* The loop over consecutive proof nodes.
CollapsePath(res, proof, range) ==
    FoldLeft(LAMBDA r, i : CollapseBranch(r, proof[i].key, proof[i + 1].key, range),
             res, [i \in 1..(Len(proof) - 1) |-> i])

\* collapse_root_to_path.
CollapseRoot(res, target, range) ==
    IF ~res.ok THEN Failed
    ELSE IF IsStrictPrefix(res.val.path, target)
         THEN CollapseStrip(res.val, From(target, Len(res.val.path)), res.val.path, range)
    ELSE res

\* change_outside_children for one edge: the mask of the edge, with the child
\* toward the bound when the proving trie holds no key of the range below it
\* (boundary_child_source).
AddBoundaryChild(mask, on, node, last, range) ==
    IF on = NoNibble THEN Done(mask)
    ELSE IF on \in DOMAIN last.ch THEN Failed
    ELSE IF node = Nil THEN Done(mask)
    ELSE IF on \in DOMAIN node.ch /\ ~ChildInRange(node.ch[on], last.key, on, range)
         THEN Done([mask EXCEPT ![last.key] = @ \cup {on}])
    ELSE Done(mask)
ChangeOutside(root, proof, left, bound, range) ==
    AddBoundaryChild(OutsideChildren(proof, left, bound),
                     ClassifyTerminal(proof, left, bound).on,
                     GetNode(root, Last(proof).key), Last(proof), range)

\* The hash of the collapsed trie, with the proof's hashes outside the range.
HashMatches(root, map, left, right, endRoot) ==
    /\ left.ok /\ right.ok
    /\ HashWithProofs(<<>>, root, map, JoinMasks(left.val, right.val)) = endRoot
ShapedHashMatches(collapsed, map, proof, endRoot, range, start) ==
    /\ map.ok /\ collapsed.ok
    /\ HashMatches(collapsed.val, map.val,
                   ChangeOutside(collapsed.val, proof.start, TRUE, start, range),
                   ChangeOutside(collapsed.val, proof.end, FALSE, range.end, range), endRoot)

\* verify_change_proof_root_hash.
ChangeRootHashMatches(proof, endRoot, start, edge, proposal) ==
    LET range == [start |-> KeyOr(start, <<>>), end |-> edge]
        nodes == proof.start \o proof.end
        strict == {nodes[i] : i \in {j \in DOMAIN nodes : InProvenRange(range, nodes[j].key)}}
        reconciled == FoldLeft(LAMBDA r, n : Reconcile(r, n, strict), Done(proposal), nodes)
        collapsed == FoldLeft(LAMBDA r, p : CollapsePath(r, p, range),
                              reconciled, <<proof.start, proof.end>>)
    IN  IF nodes = <<>> THEN RootHash(proposal) = endRoot
        ELSE ShapedHashMatches(
                CollapseRoot(collapsed, nodes[1].key, range),
                NodeMap(nodes), proof, endRoot, range, start)

\* Db::verify_change_proof: the proposal on top of the latest revision.
VerifyProposal(proof, endRoot, start, context, proposal) ==
    IF context.ok /\ ChangeRootHashMatches(proof, endRoot, start, context.val, proposal)
    THEN Done(proposal)
    ELSE Failed
VerifyChangeProof(latest, proof, endRoot, start, end, maxLength) ==
    VerifyProposal(proof, endRoot, start,
                   VerifyChangeStructure(proof, endRoot, start, end, maxLength),
                   ApplyAll(latest, proof.ops))
=============================================================================
