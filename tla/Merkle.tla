------------------------------- MODULE Merkle -------------------------------
(***************************************************************************)
(* The trie of firewood/src/merkle/mod.rs as pure operators: lookup,       *)
(* insertion, removal, removal by prefix, and what they rest on.           *)
(*                                                                         *)
(* A key is a sequence of nibbles; the byte keys of the API have even      *)
(* length.  A node is a record of its partial path, its value (NoValue     *)
(* when it has none) and its children, a function from the nibbles that    *)
(* have a child to the child.  Whether a child is in memory or on disk     *)
(* does not change what these functions compute, and is left to the module *)
(* NodeStorage.                                                            *)
(***************************************************************************)
EXTENDS Naturals, Sequences, FiniteSets, SequencesExt

\* The absent value (Option::None), and the absent node.
NoValue == "none"
Nil == [kind |-> "nil"]

\* LeafNode, and BranchNode with the children ch.
Leaf(path, value) ==
    [kind |-> "leaf", path |-> path, value |-> value, ch |-> <<>>]
Branch(path, value, ch) ==
    [kind |-> "branch", path |-> path, value |-> value, ch |-> ch]

\* The children ch with the node c, or with no node when c is Nil, at index i.
SetChild(ch, i, c) ==
    [j \in IF c = Nil THEN DOMAIN ch \ {i} ELSE DOMAIN ch \cup {i} |->
        IF j = i THEN c ELSE ch[j]]

-----------------------------------------------------------------------------
(* Paths.                                                                  *)

\* The suffix of s after its first n elements.
From(s, n) == SubSeq(s, n + 1, Len(s))

\* PrefixOverlap::from: the shared prefix of a and b and what is left of each.
PrefixOverlap(a, b) ==
    LET n == Cardinality({i \in 1..Len(a) : IsPrefix(SubSeq(a, 1, i), b)})
    IN  [shared |-> SubSeq(a, 1, n), a |-> From(a, n), b |-> From(b, n)]

\* The lexicographic order of slices, a prefix before its extensions.
Less(a, b) ==
    \E i \in 1..Len(b) :
        /\ i <= Len(a) + 1
        /\ SubSeq(a, 1, i - 1) = SubSeq(b, 1, i - 1)
        /\ i <= Len(a) => a[i] < b[i]
LessEq(a, b) == a = b \/ Less(a, b)

-----------------------------------------------------------------------------
(* Lookup.                                                                 *)

\* get_helper: the node at key in the subtrie node, or Nil.
RECURSIVE GetHelper(_, _)
GetHelper(node, key) ==
    LET o == PrefixOverlap(key, node.path)
    IN  IF o.b # <<>> THEN Nil
        ELSE IF o.a = <<>> THEN node
        ELSE IF o.a[1] \in DOMAIN node.ch THEN GetHelper(node.ch[o.a[1]], Tail(o.a))
        ELSE Nil

\* get_node and get_value.
GetNode(root, key) == IF root = Nil THEN Nil ELSE GetHelper(root, key)
GetValue(root, key) ==
    LET node == GetNode(root, key) IN IF node = Nil THEN NoValue ELSE node.value

-----------------------------------------------------------------------------
(* Insertion.                                                              *)

\* insert_helper: the four positions of the key relative to the node.
RECURSIVE InsertHelper(_, _, _)
InsertHelper(node, key, value) ==
    LET o == PrefixOverlap(key, node.path)
        below == IF o.a[1] \in DOMAIN node.ch
                 THEN InsertHelper(node.ch[o.a[1]], Tail(o.a), value)
                 ELSE Leaf(Tail(o.a), value)
        \* The node itself, moved one level down.
        lowered == [node EXCEPT !.path = Tail(o.b)]
    IN  CASE o.a = <<>> /\ o.b = <<>> -> [node EXCEPT !.value = value]
          [] o.a = <<>> /\ o.b # <<>> ->
                Branch(o.shared, value, SetChild(<<>>, o.b[1], lowered))
          [] o.a # <<>> /\ o.b = <<>> ->
                Branch(node.path, node.value, SetChild(node.ch, o.a[1], below))
          [] OTHER ->
                Branch(o.shared, NoValue,
                       SetChild(SetChild(<<>>, o.b[1], lowered),
                                o.a[1], Leaf(Tail(o.a), value)))

\* insert_from_iter.
Insert(root, key, value) ==
    IF root = Nil THEN Leaf(key, value) ELSE InsertHelper(root, key, value)

\* insert_branch_helper: a branch at key, its value and descendants kept.
RECURSIVE InsertBranchHelper(_, _)
InsertBranchHelper(node, key) ==
    LET o == PrefixOverlap(key, node.path)
        empty == Branch(Tail(o.a), NoValue, <<>>)
        below == IF o.a[1] \in DOMAIN node.ch
                 THEN InsertBranchHelper(node.ch[o.a[1]], Tail(o.a))
                 ELSE empty
        lowered == [node EXCEPT !.path = Tail(o.b)]
    IN  CASE o.a = <<>> /\ o.b = <<>> -> Branch(node.path, node.value, node.ch)
          [] o.a = <<>> /\ o.b # <<>> ->
                Branch(o.shared, NoValue, SetChild(<<>>, o.b[1], lowered))
          [] o.a # <<>> /\ o.b = <<>> ->
                Branch(node.path, node.value, SetChild(node.ch, o.a[1], below))
          [] OTHER ->
                Branch(o.shared, NoValue,
                       SetChild(SetChild(<<>>, o.b[1], lowered), o.a[1], empty))

\* insert_branch_from_nibbles.
InsertBranch(root, key) ==
    IF root = Nil THEN Branch(key, NoValue, <<>>) ELSE InsertBranchHelper(root, key)

-----------------------------------------------------------------------------
(* Removal.  The results carry the new subtrie and what was removed.       *)

\* A flatten that leaves a branch without a value above its only child.
FlattenKeepsChain(branch) ==
    IF DOMAIN branch.ch = {}
    THEN IF branch.value = NoValue THEN Nil ELSE Leaf(branch.path, branch.value)
    ELSE branch

\* flatten_branch: a branch keeps its shape while it has a value and a child,
\* or two children.
FlattenBranch(branch) ==
    LET kids == DOMAIN branch.ch
        only == CHOOSE i \in kids : TRUE
        child == branch.ch[only]
    IN  CASE kids = {} /\ branch.value = NoValue -> Nil
          [] kids = {} /\ branch.value # NoValue -> Leaf(branch.path, branch.value)
          [] kids # {} /\ (branch.value # NoValue \/ Cardinality(kids) > 1) -> branch
          [] OTHER -> [child EXCEPT !.path = branch.path \o <<only>> \o @]

\* remove_helper.
RECURSIVE RemoveHelper(_, _)
RemoveHelper(node, key) ==
    LET o == PrefixOverlap(key, node.path)
        kept == [node |-> node, removed |-> NoValue]
        below == RemoveHelper(node.ch[o.a[1]], Tail(o.a))
    IN  CASE o.b # <<>> -> kept
          [] o.b = <<>> /\ o.a = <<>> /\ node.kind = "leaf" ->
                [node |-> Nil, removed |-> node.value]
          [] o.b = <<>> /\ o.a = <<>> /\ node.kind = "branch" ->
                IF node.value = NoValue THEN kept
                ELSE [node |-> FlattenBranch([node EXCEPT !.value = NoValue]),
                      removed |-> node.value]
          [] OTHER ->
                IF o.a[1] \notin DOMAIN node.ch THEN kept
                ELSE [node |-> FlattenBranch([node EXCEPT
                                  !.ch = SetChild(node.ch, o.a[1], below.node)]),
                      removed |-> below.removed]

\* remove_from_iter.
RemoveKey(root, key) ==
    IF root = Nil THEN [node |-> Nil, removed |-> NoValue] ELSE RemoveHelper(root, key)

\* delete_children: how many values the subtrie holds.
RECURSIVE DeleteChildren(_)
DeleteChildren(node) ==
    (IF node.value = NoValue THEN 0 ELSE 1)
      + FoldSet(LAMBDA i, n : n + DeleteChildren(node.ch[i]), 0, DOMAIN node.ch)

\* remove_prefix_helper.
RECURSIVE RemovePrefixHelper(_, _)
RemovePrefixHelper(node, key) ==
    LET o == PrefixOverlap(key, node.path)
        kept == [node |-> node, removed |-> 0]
        below == RemovePrefixHelper(node.ch[o.a[1]], Tail(o.a))
    IN  CASE o.a = <<>> -> [node |-> Nil, removed |-> DeleteChildren(node)]
          [] o.a # <<>> /\ o.b # <<>> -> kept
          [] OTHER ->
                IF o.a[1] \notin DOMAIN node.ch THEN kept
                ELSE [node |-> FlattenBranch([node EXCEPT
                                  !.ch = SetChild(node.ch, o.a[1], below.node)]),
                      removed |-> below.removed]

\* remove_prefix_from_iter.
RemovePrefix(root, prefix) ==
    IF root = Nil THEN [node |-> Nil, removed |-> 0] ELSE RemovePrefixHelper(root, prefix)

-----------------------------------------------------------------------------
(* Reference definitions: what a trie with given contents looks like.      *)

\* The one trie in canonical form that holds kv: no branch without a value has
\* fewer than two children.
RECURSIVE Canonical(_)
Canonical(kv) ==
    LET keys == DOMAIN kv
        k0 == CHOOSE k \in keys : \A l \in keys : Len(k) <= Len(l)
        shared == SubSeq(k0, 1, Min({Len(PrefixOverlap(k0, l).shared) : l \in keys}))
        n == Len(shared)
        value == IF shared \in keys THEN kv[shared] ELSE NoValue
        next == {l[n + 1] : l \in keys \ {shared}}
        sub(i) == LET mine == {l \in keys \ {shared} : l[n + 1] = i}
                  IN  [s \in {From(l, n + 1) : l \in mine} |-> kv[shared \o <<i>> \o s]]
    IN  IF keys = {} THEN Nil
        ELSE IF next = {} THEN Leaf(shared, value)
        ELSE Branch(shared, value, [i \in next |-> Canonical(sub(i))])
=============================================================================
