----------------------------- MODULE MerkleIter -----------------------------
(***************************************************************************)
(* The iterators of firewood/src/iter.rs over the tries of Merkle, the     *)
(* merge of a key range with a trie (merkle/merge.rs) and the difference   *)
(* of two tries (merkle/changes.rs).  An iterator is modelled by the       *)
(* sequence of items it yields; its stack is the code's stack.             *)
(***************************************************************************)
EXTENDS Merkle

\* The absent nibble, and the absent bound of a range (Option::None).
NoNibble == 99
Unbounded == <<NoNibble>>

\* key_from_nibble_iter: two nibbles to a byte, an odd last nibble is dropped.
KeyFromNibbles(path) == SubSeq(path, 1, 2 * (Len(path) \div 2))

\* A comparison that takes a node below the key for one before it.
CompareRestsBelow(o) ==
    [order |-> CASE o.a = <<>> -> "equal"
                 [] o.a # <<>> /\ (o.b = <<>> \/ o.a[1] < o.b[1]) -> "less"
                 [] OTHER -> "greater",
     rest |-> o.b]

\* compare_partial_path: where a node is relative to the key, and what is left
\* of the key behind the node's partial path.
CompareRests(o) ==
    [order |-> CASE o.a = <<>> -> "equal"
                 [] o.a # <<>> /\ o.b # <<>> /\ o.a[1] < o.b[1] -> "less"
                 [] OTHER -> "greater",
     rest |-> o.b]
ComparePartialPath(path, key) == CompareRests(PrefixOverlap(path, key))

-----------------------------------------------------------------------------
(* MerkleNodeIter and MerkleKeyValueIter.                                  *)

\* IterationNode: a node still to return, or one whose children in todo are
\* still to visit.
Unvisited(key, node) == [visited |-> FALSE, key |-> key, node |-> node, todo |-> {}]
Visited(key, node, todo) == [visited |-> TRUE, key |-> key, node |-> node, todo |-> todo]

\* get_iterator_intial_state: the stack with which an iteration starts at the
\* key that follows matched; unmatched is what is left of that key.
RECURSIVE InitialStack(_, _, _)
InitialStack(node, matched, unmatched) ==
    LET c == ComparePartialPath(node.path, unmatched)
        here == matched \o node.path
        next == c.rest[1]
    IN  CASE c.order = "less" -> <<>>
          [] c.order = "greater" \/ (c.order = "equal" /\ c.rest = <<>>) ->
                <<Unvisited(here, node)>>
          [] OTHER ->
                IF node.kind = "leaf" THEN <<>>
                ELSE <<Visited(here, node, {i \in DOMAIN node.ch : i > next})>>
                       \o (IF next \in DOMAIN node.ch
                           THEN InitialStack(node.ch[next], Append(here, next), Tail(c.rest))
                           ELSE <<>>)

\* Every node MerkleNodeIter::next still returns from the stack.
RECURSIVE Drain(_)
Drain(stack) ==
    IF stack = <<>> THEN <<>>
    ELSE LET top == Last(stack)
             rest == Front(stack)
             i == Min(top.todo)
             child == top.node.ch[i]
         IN  IF ~top.visited
             THEN <<[key |-> KeyFromNibbles(top.key), node |-> top.node]>>
                    \o Drain(Append(rest, Visited(top.key, top.node, DOMAIN top.node.ch)))
             ELSE IF top.todo = {} THEN Drain(rest)
             ELSE Drain(rest \o <<[top EXCEPT !.todo = @ \ {i}],
                                  Unvisited(top.key \o <<i>> \o child.path, child)>>)

\* MerkleNodeIter::new and all its items.
NodesFrom(root, key) ==
    IF root = Nil THEN <<>> ELSE Drain(InitialStack(root, <<>>, key))

\* MerkleKeyValueIter: the nodes that have a value.
KeyValues(nodes) ==
    LET valued == SelectSeq(nodes, LAMBDA n : n.node.value # NoValue)
    IN  [i \in DOMAIN valued |-> [key |-> valued[i].key, value |-> valued[i].node.value]]
KeyValuesFrom(root, key) == KeyValues(NodesFrom(root, key))

\* FilteredKeyRangeIter: the items up to the first whose key is above last.
StopAfterKey(items, last) ==
    LET above == {i \in DOMAIN items : last # Unbounded /\ Less(last, items[i].key)}
    IN  IF above = {} THEN items ELSE SubSeq(items, 1, Min(above) - 1)

-----------------------------------------------------------------------------
(* PathIterator: the nodes on the path to a key, with the nibble at which  *)
(* the path goes on (None at the last one).                                *)

RECURSIVE PathNodes(_, _, _)
PathNodes(node, matched, unmatched) ==
    LET c == ComparePartialPath(node.path, unmatched)
        here == matched \o node.path
        item(next) == <<[key |-> here, node |-> node, next |-> next]>>
        on == /\ c.order = "equal"
              /\ c.rest # <<>>
              /\ c.rest[1] \in DOMAIN node.ch
    IN  IF on
        THEN item(c.rest[1])
               \o PathNodes(node.ch[c.rest[1]], Append(here, c.rest[1]), Tail(c.rest))
        ELSE item(NoNibble)

\* path_iter.
PathIter(root, key) == IF root = Nil THEN <<>> ELSE PathNodes(root, <<>>, key)

-----------------------------------------------------------------------------
(* Batch operations, and how they apply to a trie.                         *)

Put(key, value) == [op |-> "put", key |-> key, value |-> value]
Delete(key) == [op |-> "delete", key |-> key]
DeleteRange(prefix) == [op |-> "delete_range", key |-> prefix]

\* The loop of a proposal over its batch.
Apply(root, op) ==
    CASE op.op = "put" -> Insert(root, op.key, op.value)
      [] op.op = "delete" -> RemoveKey(root, op.key).node
      [] op.op = "delete_range" -> RemovePrefix(root, op.key).node
ApplyAll(root, ops) == FoldLeft(Apply, root, ops)

\* MergeKeyValueIter: walk the pairs of the trie and those of the range in
\* step; the range is total, so a key only the trie has is deleted.
RECURSIVE Merge(_, _)
Merge(trie, kvp) ==
    IF trie = <<>> THEN [i \in DOMAIN kvp |-> Put(kvp[i].key, kvp[i].value)]
    ELSE IF kvp = <<>> \/ Less(trie[1].key, kvp[1].key)
         THEN <<Delete(trie[1].key)>> \o Merge(Tail(trie), kvp)
    ELSE IF Less(kvp[1].key, trie[1].key)
         THEN <<Put(kvp[1].key, kvp[1].value)>> \o Merge(trie, Tail(kvp))
    ELSE (IF trie[1].value = kvp[1].value THEN <<>> ELSE <<Put(kvp[1].key, kvp[1].value)>>)
           \o Merge(Tail(trie), Tail(kvp))

\* merge_key_value_range over the keys first..last of the trie.
MergeKeyValueRange(root, first, last, kvp) ==
    Merge(StopAfterKey(KeyValuesFrom(root, IF first = Unbounded THEN <<>> ELSE first), last),
          kvp)

-----------------------------------------------------------------------------
(* Hashes.  The hash of a node covers its whole path, its value and the    *)
(* hashes of its children, and is taken to be injective: it is the term    *)
(* of these three.                                                         *)

NoHash == [key |-> Unbounded]

RECURSIVE HashOf(_, _)
HashOf(prefix, node) ==
    LET path == prefix \o node.path
    IN  [key |-> path, value |-> node.value,
         ch |-> [i \in DOMAIN node.ch |-> HashOf(Append(path, i), node.ch[i])]]

\* root_hash of a hashed trie.
RootHash(root) == IF root = Nil THEN NoHash ELSE HashOf(<<>>, root)

-----------------------------------------------------------------------------
(* PreOrderIterator of changes.rs: the current node, whose children are    *)
(* pushed by the next call, and the stack.                                 *)

Info(path, node, hash) == [path |-> path, node |-> node, hash |-> hash]
NoInfo == [path |-> Unbounded]

\* The children of a node in the set kids, the smallest on top.
PushChildren(stack, info, kids) ==
    LET order == Reverse(SetToSortSeq(kids, <))
        child(i) == Info(info.path \o <<i>> \o info.node.ch[i].path,
                         info.node.ch[i], info.hash.ch[i])
    IN  stack \o [n \in DOMAIN order |-> child(order[n])]

\* next_node_info.
NextNodeInfo(it) ==
    LET stack == IF it.info = NoInfo THEN it.stack
                 ELSE PushChildren(it.stack, it.info, DOMAIN it.info.node.ch)
    IN  IF stack = <<>> THEN [info |-> NoInfo, stack |-> <<>>]
        ELSE [info |-> Last(stack), stack |-> Front(stack)]

\* skip_children.
SkipChildren(it) == [it EXCEPT !.info = NoInfo]

\* iterate_to_key.  The children are tried from the largest down until one is
\* on the path or above the key; the smaller ones are pushed without a test.
RECURSIVE IterateToKey(_, _)
IterateToKey(it, key) ==
    LET path == it.info.path
        useful == {i \in DOMAIN it.info.node.ch :
                      IsPrefix(Append(path, i), key) \/ Less(key, Append(path, i))}
        kids == {i \in DOMAIN it.info.node.ch : \E u \in useful : i <= u}
        stack == IF it.info = NoInfo THEN it.stack ELSE PushChildren(it.stack, it.info, kids)
        top == Last(stack)
    IN  IF stack = <<>> \/ LessEq(key, top.path) THEN [info |-> NoInfo, stack |-> stack]
        ELSE IterateToKey([info |-> IF top.node.kind = "branch" /\ IsPrefix(top.path, key)
                                    THEN top ELSE NoInfo,
                           stack |-> Front(stack)], key)

\* PreOrderIterator::new.
PreOrder(root, start) ==
    LET it == [info |-> NoInfo,
               stack |-> IF root = Nil THEN <<>>
                         ELSE <<Info(root.path, root, RootHash(root))>>]
    IN  IF start = <<>> THEN it ELSE IterateToKey(it, start)

-----------------------------------------------------------------------------
(* DiffMerkleNodeStream.                                                   *)

\* deleted_values and added_values.
DeletedValues(n) == IF n.node.value = NoValue THEN <<>> ELSE <<Delete(KeyFromNibbles(n.path))>>
AddedValues(n) ==
    IF n.node.value = NoValue THEN <<>> ELSE <<Put(KeyFromNibbles(n.path), n.node.value)>>

\* one_step_compare (hash_match included): the next state and the operation
\* found, if any.
OneStepCompare(l, r) ==
    LET same == IF l.hash = r.hash THEN "SkipChildren" ELSE "TraverseBoth"
        step(state, ops) == [state |-> state, ops |-> ops]
        lv == l.node.value
        rv == r.node.value
    IN  CASE Less(l.path, r.path) -> step("TraverseLeft", DeletedValues(l))
          [] Less(r.path, l.path) -> step("TraverseRight", AddedValues(r))
          [] OTHER -> IF lv = rv THEN step(same, <<>>)
                      ELSE IF rv = NoValue THEN step("TraverseBoth", DeletedValues(l))
                      ELSE step("TraverseBoth", AddedValues(r))

\* next_internal (next_node_from_both included), iterated to the end.  The
\* current nodes of the two iterators are the left_state and right_state that
\* the code carries in its states.
RECURSIVE DiffFrom(_, _, _)
DiffFrom(state, left, right) ==
    LET skip == state = "SkipChildren"
        ln == NextNodeInfo(IF skip THEN SkipChildren(left) ELSE left)
        rn == NextNodeInfo(IF skip THEN SkipChildren(right) ELSE right)
        compare(l, r) == LET s == OneStepCompare(l.info, r.info)
                         IN  s.ops \o DiffFrom(s.state, l, r)
    IN  CASE state \in {"TraverseBoth", "SkipChildren"} ->
                IF ln.info = NoInfo
                THEN DiffFrom("AddRestRight", ln, IF skip THEN SkipChildren(right) ELSE right)
                ELSE IF rn.info = NoInfo
                THEN DeletedValues(ln.info) \o DiffFrom("DeleteRestLeft", ln, rn)
                ELSE compare(ln, rn)
          [] state = "TraverseLeft" ->
                IF ln.info = NoInfo
                THEN AddedValues(right.info) \o DiffFrom("AddRestRight", ln, right)
                ELSE compare(ln, right)
          [] state = "TraverseRight" ->
                IF rn.info = NoInfo
                THEN DeletedValues(left.info) \o DiffFrom("DeleteRestLeft", left, rn)
                ELSE compare(left, rn)
          [] state = "AddRestRight" ->
                IF rn.info = NoInfo THEN <<>>
                ELSE AddedValues(rn.info) \o DiffFrom("AddRestRight", left, rn)
          [] state = "DeleteRestLeft" ->
                IF ln.info = NoInfo THEN <<>>
                ELSE DeletedValues(ln.info) \o DiffFrom("DeleteRestLeft", ln, right)

\* The whole stream of DiffMerkleNodeStream::new.
Diff(left, right, start) ==
    DiffFrom("TraverseBoth", PreOrder(left, start), PreOrder(right, start))
=============================================================================
