------------------------------- MODULE Checker ------------------------------
(***************************************************************************)
(* The consistency checker of storage/src/checker, as operators on a disk  *)
(* image: check walks the trie and the free lists, marks what it visits in *)
(* a set of ranges and reports what is wrong; fix repairs the free lists.  *)
(*                                                                         *)
(* An image is the header (size, root address and hash, heads of the free  *)
(* lists) and the areas, a function from the addresses at which something  *)
(* is stored.  An area has its size index and its kind: "leaf" or          *)
(* "branch" (bytes is the length of the node with its index byte, key      *)
(* tells whether its path may carry a value, hash is what hashing it       *)
(* gives, children are address and hash by child index), "free" (next is   *)
(* the next free block), or "junk", which no reader accepts.               *)
(***************************************************************************)
EXTENDS DiskFormat

CONSTANT OS_PAGE_SIZE

RangeOf(start, end) == [start |-> start, end |-> end]

-----------------------------------------------------------------------------
(* checker/range_set.rs.  The map from range ends to range starts is the   *)
(* set of the ranges.                                                      *)

\* get_coalescing_ranges: the range that ends where r starts, the ranges that
\* intersect r, and the range that starts where r ends.
get_coalescing_ranges(set, r) ==
    [prev |-> {x \in set : x.end = r.start},
     intersecting |-> {x \in set : x.end > r.start /\ x.start < r.end},
     next |-> {x \in set : x.end > r.start /\ x.start = r.end}]

\* insert_range_helper with allow_intersecting false (insert_disjoint_range): the
\* coalesced set, or the intersections.
insert_disjoint_range(set, r) ==
    LET c == get_coalescing_ranges(set, r)
        Greater(a, b) == IF a > b THEN a ELSE b
        Lesser(a, b) == IF a < b THEN a ELSE b
    IN  CASE r.start >= r.end -> [ok |-> TRUE, set |-> set]
          [] r.start < r.end /\ c.intersecting # {} ->
                [ok |-> FALSE,
                 intersection |-> {RangeOf(Greater(r.start, x.start), Lesser(r.end, x.end)) :
                                      x \in c.intersecting}]
          [] OTHER ->
                [ok |-> TRUE,
                 set |-> (set \ (c.prev \cup c.next))
                           \cup {RangeOf(Min({r.start} \cup {x.start : x \in c.prev}),
                                         Max({r.end} \cup {x.end : x \in c.next}))}]

\* The ranges in the order of the map.
ByEnd(set) ==
    [k \in 1 .. Cardinality(set) |->
        CHOOSE x \in set : Cardinality({y \in set : y.end < x.end}) = k - 1]

\* A complement that forgets the space behind the last range.
ComplementWithoutTail(set, min, max) ==
    LET sorted == ByEnd(set)
        step(s, x) ==
            [found |-> IF x.start > s.start /\ x.start < max
                       THEN s.found \cup {RangeOf(s.start, x.start)} ELSE s.found,
             start |-> IF x.end > s.start THEN x.end ELSE s.start]
    IN  FoldLeft(step, [found |-> {}, start |-> min], sorted).found

\* RangeSet::complement: the gaps between the ranges in [min, max).
RangeSetComplement(set, min, max) ==
    LET sorted == ByEnd(set)
        step(s, x) ==
            [found |-> IF x.start > s.start /\ x.start < max
                       THEN s.found \cup {RangeOf(s.start, x.start)} ELSE s.found,
             start |-> IF x.end > s.start THEN x.end ELSE s.start]
        last == FoldLeft(step, [found |-> {}, start |-> min], sorted)
    IN  IF last.start < max THEN last.found \cup {RangeOf(last.start, max)} ELSE last.found

\* LinearAddressRangeSet::new: refuses a size below the header's.
LinearAddressRangeSet_new(db_size) ==
    IF db_size < HEADER_SIZE THEN Fail
    ELSE Got([set |-> {}, max_addr |-> db_size, bytes_in_set |-> 0], 0)

\* insert_area: in bounds and disjoint from what was visited.
insert_area(visited, addr, size, parent) ==
    LET end == advance(addr, size)
        inserted == insert_disjoint_range(visited.set, RangeOf(addr, end))
        error(e) == [ok |-> FALSE, error |-> [e |-> e, addr |-> addr, parent |-> parent]]
    IN  CASE end = NoAddr \/ addr < HEADER_SIZE \/ end > visited.max_addr ->
                error("AreaOutOfBounds")
          [] OTHER ->
                IF ~inserted.ok THEN error("AreaIntersects")
                ELSE [ok |-> TRUE,
                      visited |-> [visited EXCEPT !.set = inserted.set, !.bytes_in_set = @ + size]]

\* LinearAddressRangeSet::complement.
complement(visited) ==
    [set |-> RangeSetComplement(visited.set, HEADER_SIZE, visited.max_addr),
     max_addr |-> visited.max_addr,
     bytes_in_set |-> distance_from(visited.max_addr, HEADER_SIZE).v - visited.bytes_in_set]

-----------------------------------------------------------------------------
(* What the checker reads, and what it reports (lib.rs).                   *)

\* read_node_with_num_bytes_from_disk and FreeArea::from_storage.
ReadsNode(disk, addr) == addr \in DOMAIN disk /\ disk[addr].kind \in {"leaf", "branch"}
ReadsFree(disk, addr) == addr \in DOMAIN disk /\ disk[addr].kind = "free"

\* read_leaked_area: a free area, or a node that parses.
read_leaked_area(disk, addr) == ReadsFree(disk, addr) \/ ReadsNode(disk, addr)

\* StoredAreaParent: TrieNodeParent, FreeListHead and PrevFreeArea.  A parent has
\* an index (of the child, or of the free list) and an address.
TrieParent(addr, nibble) == [of |-> "TrieNode", index |-> nibble, addr |-> addr]
FreeListHead(index) == [of |-> "FreeListHead", index |-> index, addr |-> NoAddr]
PrevFreeArea(index, addr) == [of |-> "PrevFreeArea", index |-> index, addr |-> addr]
NoParent == [of |-> "none", index |-> 0, addr |-> NoAddr]

\* CheckerError, and CheckerError::parent.
CheckerError(e, addr, parent) == [e |-> e, addr |-> addr, parent |-> parent]
parent_of(error) ==
    IF error.e \in {"InvalidDBSize", "AreaLeaks", "UnpersistedRoot"} THEN NoParent
    ELSE error.parent

\* page_number and extra_read_pages.
page_number(addr) == addr \div OS_PAGE_SIZE
extra_read_pages(addr, bytes) ==
    LET end == advance(addr, IF bytes = 0 THEN 0 ELSE bytes - 1)
        pages_read == page_number(end) - page_number(addr) + 1
        min_pages == (bytes + OS_PAGE_SIZE - 1) \div OS_PAGE_SIZE
    IN  IF pages_read > min_pages THEN pages_read - min_pages ELSE 0

\* TrieStats and FreeListsStats at their defaults.  A distribution counts by
\* value; branching factors and depths that do not occur count 0.
TrieStats ==
    [branch_bytes |-> 0, leaf_bytes |-> 0, kv_count |-> 0,
     branching_factors |-> [n \in 0 .. MAX_CHILDREN |-> 0],
     depths |-> [n \in 0 .. MAX_CHILDREN |-> 0],
     branch_area_counts |-> [i \in AreaIndex |-> 0],
     leaf_area_counts |-> [i \in AreaIndex |-> 0],
     low_occupancy_branch_area_count |-> 0, low_occupancy_leaf_area_count |-> 0,
     area_extra_unaligned_page |-> 0, node_extra_unaligned_page |-> 0]
FreeListsStats ==
    [area_counts |-> [i \in AreaIndex |-> 0], area_extra_unaligned_page |-> 0]

One(condition) == IF condition THEN 1 ELSE 0

\* The statistics of one visited node.
CollectTrieStats(stats, addr, area, depth) ==
    LET size == AreaSize(area.index)
        low == One(AreaIndexFromSize(area.bytes).v < area.index)
        shared == [stats EXCEPT
            !.kv_count = @ + One(area.value),
            !.area_extra_unaligned_page = @ + One(extra_read_pages(addr, size) > 0),
            !.node_extra_unaligned_page = @ + One(extra_read_pages(addr, area.bytes) > 0)]
    IN  IF area.kind = "branch"
        THEN [shared EXCEPT !.branch_area_counts[area.index] = @ + 1,
                            !.branch_bytes = @ + area.bytes,
                            !.low_occupancy_branch_area_count = @ + low,
                            !.branching_factors[Cardinality(DOMAIN area.children)] = @ + 1]
        ELSE [shared EXCEPT !.leaf_area_counts[area.index] = @ + 1,
                            !.leaf_bytes = @ + area.bytes,
                            !.low_occupancy_leaf_area_count = @ + low,
                            !.depths[depth] = @ + 1]

-----------------------------------------------------------------------------
(* check.  The walks thread w: the visited ranges, the statistics and the  *)
(* errors so far.                                                          *)

Report(w, error) == [w EXCEPT !.errors = Append(@, error)]

\* The checks of visit_trie_helper on one node, in order: the first that fails.
NodeError(disk, t, hash_check) ==
    CASE ~is_aligned(t.addr) -> "AreaMisaligned"
      [] is_aligned(t.addr) /\ ~ReadsNode(disk, t.addr) -> "IO"
      [] OTHER ->
            IF disk[t.addr].bytes > AreaSize(disk[t.addr].index) THEN "NodeLargerThanArea"
            ELSE IF disk[t.addr].value /\ ~disk[t.addr].key THEN "InvalidKey"
            ELSE IF hash_check /\ disk[t.addr].hash # t.hash THEN "HashMismatch"
            ELSE "none"

\* visit_trie_helper: the node at t, then its children; errors do not stop the walk.
RECURSIVE visit_trie_helper(_, _, _, _)
visit_trie_helper(disk, t, hash_check, w) ==
    LET failed == NodeError(disk, t, hash_check)
        area == disk[t.addr]
        inserted == insert_area(w.visited, t.addr, AreaSize(area.index), t.parent)
        visited == [w EXCEPT !.visited = inserted.visited,
                             !.trie_stats = CollectTrieStats(@, t.addr, area, t.depth)]
        below(w1, nibble) ==
            visit_trie_helper(disk,
                [addr |-> area.children[nibble].addr, hash |-> area.children[nibble].hash,
                 parent |-> TrieParent(t.addr, nibble), depth |-> t.depth + 1],
                hash_check, w1)
    IN  CASE failed # "none" -> Report(w, CheckerError(failed, t.addr, t.parent))
          [] OTHER ->
                IF ~inserted.ok THEN Report(w, inserted.error)
                ELSE FoldLeft(below, visited, Ascending(DOMAIN area.children))

\* visit_trie: from the root.
visit_trie(disk, root, hash, hash_check, w) ==
    visit_trie_helper(disk, [addr |-> root, hash |-> hash,
                             parent |-> TrieParent(NoAddr, 0), depth |-> 0],
                      hash_check, w)

\* visit_freelist with FreeListsIterator: list id is at the area addr, to which
\* parent points.  An error ends the list.
RECURSIVE visit_freelist(_, _, _, _, _, _)
visit_freelist(disk, heads, id, addr, parent, w) ==
    LET area == disk[addr]
        inserted == insert_area(w.visited, addr, AreaSize(area.index), parent)
        \* move_to_next_free_list.
        nextList(w1) ==
            IF id + 1 \in AreaIndex
            THEN visit_freelist(disk, heads, id + 1, heads[id + 1], FreeListHead(id + 1), w1)
            ELSE w1
        failed(e) == nextList(Report(w, CheckerError(e, addr, parent)))
        visited == [w EXCEPT
            !.visited = inserted.visited,
            !.free_list_stats.area_counts[area.index] = @ + 1,
            !.free_list_stats.area_extra_unaligned_page =
                @ + One(extra_read_pages(addr, AreaSize(area.index)) > 0)]
    IN  CASE addr = NoAddr -> nextList(w)
          [] addr # NoAddr /\ ~ReadsFree(disk, addr) -> failed("IO")
          [] OTHER ->
                IF ~is_aligned(addr) THEN failed("AreaMisaligned")
                ELSE IF area.index # id THEN failed("FreelistAreaSizeMismatch")
                ELSE IF ~inserted.ok THEN nextList(Report(w, inserted.error))
                ELSE visit_freelist(disk, heads, id, area.next,
                                    PrevFreeArea(area.index, addr), visited)

\* The report of what the walks w found, with the leaked ranges beside the errors.
CheckerReport(w, leaked, size) ==
    [errors |-> IF leaked.set = {} THEN w.errors
                ELSE Append(w.errors, CheckerError("AreaLeaks", NoAddr, NoParent)),
     leaked |-> leaked.set, leaked_bytes |-> leaked.bytes_in_set, high_watermark |-> size,
     trie_stats |-> w.trie_stats, free_list_stats |-> w.free_list_stats]

\* check, once the free lists are visited: what was not visited leaks.
check_leaks(w, size) == CheckerReport(w, complement(w.visited), size)

\* check: the trie, the free lists, the leaks.
check(image, hash_check) ==
    LET w0 == [visited |-> LinearAddressRangeSet_new(image.size).v, trie_stats |-> TrieStats,
               free_list_stats |-> FreeListsStats, errors |-> <<>>]
        w1 == IF image.root = NoAddr THEN w0
              ELSE visit_trie(image.disk, image.root, image.rootHash, hash_check, w0)
    IN  IF ~LinearAddressRangeSet_new(image.size).ok
        THEN [errors |-> <<CheckerError("InvalidDBSize", NoAddr, NoParent)>>,
              leaked |-> {}, leaked_bytes |-> 0, high_watermark |-> 0,
              trie_stats |-> TrieStats, free_list_stats |-> FreeListsStats]
        ELSE check_leaks(visit_freelist(image.disk, image.free_lists, 0, image.free_lists[0],
                                        FreeListHead(0), w1),
                         image.size)

-----------------------------------------------------------------------------
(* fix.                                                                    *)

FreeArea(index, next) ==
    [kind |-> "free", index |-> index, next |-> next, bytes |-> 0, value |-> FALSE,
     key |-> TRUE, hash |-> 0, children |-> <<>>]

\* truncate_free_list that drops the list from its head.
truncate_whole_list(image, parent) ==
    [image EXCEPT !.free_lists[parent.index] = NoAddr]

\* truncate_free_list: the head in the header, which is changed in memory (the image
\* is what a check with that header reads; fwdctl's check does not flush it), or the
\* area before the error, which is written to the file.
truncate_free_list(image, parent) ==
    IF parent.of = "FreeListHead"
    THEN [image EXCEPT !.free_lists[parent.index] = NoAddr]
    ELSE [image EXCEPT !.disk[parent.addr] = FreeArea(parent.index, NoAddr)]

\* fix: free-list errors are fixed, unless the write fails, and the others are not.
\* Writes fail at the addresses bad.
fix(image, report, bad) ==
    LET unfixed(s, error, io) == [s EXCEPT !.unfixable = Append(@, [error |-> error, io |-> io])]
        step(s, error) ==
            LET parent == parent_of(error)
            IN  IF parent.of \notin {"FreeListHead", "PrevFreeArea"} THEN unfixed(s, error, FALSE)
                ELSE IF parent.of = "PrevFreeArea" /\ parent.addr \in bad
                THEN unfixed(s, error, TRUE)
                ELSE [s EXCEPT !.image = truncate_free_list(@, parent),
                               !.fixed = Append(@, error)]
    IN  FoldLeft(step, [image |-> image, fixed |-> <<>>, unfixable |-> <<>>], report.errors)

\* The heuristic end of a split: largest classes first, while they fit.
RECURSIVE SplitBySize(_, _, _)
SplitBySize(addr, end, index) ==
    LET next == advance(addr, AreaSize(index))
    IN  IF next # NoAddr /\ next <= end
        THEN <<[addr |-> addr, index |-> index]>> \o SplitBySize(next, end, index)
        ELSE IF index = 0 THEN <<>> ELSE SplitBySize(addr, end, index - 1)

\* split_range_into_leaked_areas: the areas stored there while they parse and
\* stay in the range, then by size.
RECURSIVE split_range_into_leaked_areas(_, _, _)
split_range_into_leaked_areas(disk, addr, end) ==
    LET index == disk[addr].index
        next == advance(addr, AreaSize(index))
        this == <<[addr |-> addr, index |-> index]>>
    IN  CASE ~read_leaked_area(disk, addr) -> SplitBySize(addr, end, NUM_AREA_SIZES - 1)
          [] OTHER ->
                IF next = end THEN this
                ELSE IF next > end THEN SplitBySize(addr, end, NUM_AREA_SIZES - 1)
                ELSE this \o split_range_into_leaked_areas(disk, next, end)

\* split_all_leaked_ranges: the areas of every leaked range.
split_all_leaked_ranges(disk, leaked) ==
    UNION {ToSet(split_range_into_leaked_areas(disk, r.start, r.end)) : r \in leaked}

\* calculate_area_totals of fwdctl: how many areas, and their bytes.
calculate_area_totals(counts) ==
    [count |-> FoldSet(LAMBDA i, n : n + counts[i], 0, DOMAIN counts),
     bytes |-> FoldSet(LAMBDA i, n : n + AreaSize(i) * counts[i], 0, DOMAIN counts)]
=============================================================================
