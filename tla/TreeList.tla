------------------------------ MODULE TreeList ------------------------------
(***************************************************************************)
(* Tree lists of icecreme (src/icecreme/treelist.c): relaxed radix trees.   *)
(* A leaf holds up to RRB_WIDTH items; a branch holds up to RRB_WIDTH      *)
(* children of one height and a table of cumulative sizes that indexing     *)
(* trusts.  Slices leave nodes that are not full, concatenation repacks     *)
(* them.  root is the tree of one mutable tree list, items the sequence a   *)
(* program believes it holds, kept beside it by the reference definition of *)
(* every operation.  The operations on immutable tree lists are pure and    *)
(* are compared with their references in every reachable tree.              *)
(***************************************************************************)
EXTENDS Integers, Sequences, SequencesExt, FiniteSetsExt

CONSTANTS RRB_WIDTH,   \* most items of a leaf and children of a branch
          TLValue,     \* values stored: integers
          MaxSize,     \* bound: longest list of the model
          MaxMapped    \* bound: longest list map! is called on; its callback adds one item

ASSUME WidthAssumption == RRB_WIDTH \in Nat \ {0, 1}

VARIABLES root, items, call

tlvars == <<root, items, call>>

\* Callbacks a program passes: a predicate, a function, an order on keys.
Kept(v) == v # 1
Twist(v) == IF v = 2 THEN 3 ELSE v
Key(v) == IF v = 1 THEN 1 ELSE 0
Less(a, b) == Key(a) < Key(b)

-----------------------------------------------------------------------------
(* Nodes.                                                                   *)

rrb_make_leaf(s) == [is_branch |-> FALSE, height |-> 0, size |-> Len(s), items |-> s]

rrb_empty_leaf == rrb_make_leaf(<<>>)

\* The running totals of the children's sizes.
RECURSIVE Totals(_, _)
Totals(kids, acc) ==
  IF kids = <<>> THEN <<>>
  ELSE <<acc + Head(kids).size>> \o Totals(Tail(kids), acc + Head(kids).size)

rrb_mk_branch(kids) ==
  [is_branch |-> TRUE, height |-> kids[1].height + 1, size |-> Last(Totals(kids, 0)),
   children |-> kids, sizes |-> Totals(kids, 0)]

\* The child that holds an index, and the index inside that child.
ChildAt(node, index) == Min({i \in DOMAIN node.sizes : node.sizes[i] > index})
Within(node, i, index) == IF i > 1 THEN index - node.sizes[i - 1] ELSE index

RECURSIVE rrb_node_ref(_, _)
rrb_node_ref(node, index) ==
  IF ~node.is_branch THEN node.items[index + 1]
  ELSE LET i == ChildAt(node, index)
       IN  rrb_node_ref(node.children[i], Within(node, i, index))

\* The copied branch keeps the old table of sizes.
RECURSIVE rrb_node_set(_, _, _)
rrb_node_set(node, index, v) ==
  IF ~node.is_branch THEN rrb_make_leaf([node.items EXCEPT ![index + 1] = v])
  ELSE LET i == ChildAt(node, index)
       IN  [node EXCEPT !.children[i] = rrb_node_set(@, Within(node, i, index), v)]

None == [is_branch |-> FALSE, height |-> -1]     \* the NULL of the fast paths

RECURSIVE rrb_fast_push(_, _)
rrb_fast_push(node, v) ==
  IF ~node.is_branch
  THEN IF Len(node.items) >= RRB_WIDTH THEN None
       ELSE rrb_make_leaf(Append(node.items, v))
  ELSE LET child == rrb_fast_push(Last(node.children), v)
       IN  IF child = None THEN None
           ELSE [node EXCEPT !.children[Len(node.children)] = child, !.size = @ + 1,
                             !.sizes[Len(node.children)] = @ + 1]

\* Every entry of the table moves by one.
RECURSIVE rrb_fast_cons(_, _)
rrb_fast_cons(node, v) ==
  IF ~node.is_branch
  THEN IF Len(node.items) >= RRB_WIDTH THEN None
       ELSE rrb_make_leaf(<<v>> \o node.items)
  ELSE LET child == rrb_fast_cons(node.children[1], v)
       IN  IF child = None THEN None
           ELSE [node EXCEPT !.children[1] = child, !.size = @ + 1,
                             !.sizes = [i \in DOMAIN @ |-> @[i] + 1]]

-----------------------------------------------------------------------------
(* Repacking and concatenation.                                             *)

FirstChunk(s) == SubSeq(s, 1, Min({RRB_WIDTH, Len(s)}))
AfterChunk(s) == SubSeq(s, RRB_WIDTH + 1, Len(s))

RECURSIVE rrb_chunk_leaves(_)
rrb_chunk_leaves(s) ==
  IF s = <<>> THEN <<>>
  ELSE <<rrb_make_leaf(FirstChunk(s))>> \o rrb_chunk_leaves(AfterChunk(s))

RECURSIVE rrb_chunk_branches(_)
rrb_chunk_branches(kids) ==
  IF kids = <<>> THEN <<>>
  ELSE <<rrb_mk_branch(FirstChunk(kids))>> \o rrb_chunk_branches(AfterChunk(kids))

\* Repack the grandchildren into full nodes under one or two branches.
rrb_rebalance(merged, ml) ==
  LET nodes == IF ml = 0
               THEN rrb_chunk_leaves(FoldLeft(LAMBDA s, m : s \o m.items, <<>>, merged))
               ELSE rrb_chunk_branches(FoldLeft(LAMBDA s, m : s \o m.children, <<>>, merged))
  IN  IF Len(nodes) <= RRB_WIDTH THEN rrb_mk_branch(<<rrb_mk_branch(nodes)>>)
      ELSE rrb_mk_branch(<<rrb_mk_branch(FirstChunk(nodes)), rrb_mk_branch(AfterChunk(nodes))>>)

\* A branch one level above the higher of the two, with one or two children.
RECURSIVE rrb_concat_sub(_, _)
rrb_concat_sub(left, right) ==
  LET hl == left.height
      hr == right.height
  IN  IF hl = 0 /\ hr = 0
      THEN rrb_mk_branch(rrb_chunk_leaves(left.items \o right.items))
      ELSE IF hl = hr
      THEN rrb_rebalance(Front(left.children)
                           \o rrb_concat_sub(Last(left.children), right.children[1]).children
                           \o Tail(right.children), hl - 1)
      ELSE IF hl > hr
      THEN rrb_rebalance(Front(left.children)
                           \o rrb_concat_sub(Last(left.children), right).children, hl - 1)
      ELSE rrb_rebalance(rrb_concat_sub(left, right.children[1]).children
                           \o Tail(right.children), hr - 1)

rrb_concat_roots(left, right) ==
  LET top == rrb_concat_sub(left, right)
  IN  IF Len(top.children) = 1 THEN top.children[1] ELSE top

RECURSIVE rrb_canonical(_)
rrb_canonical(node) ==
  IF node.is_branch /\ Len(node.children) = 1 THEN rrb_canonical(node.children[1]) ELSE node

\* The children that meet [from, to), the ones that straddle an end sliced.
RECURSIVE rrb_slice_node(_, _, _)
rrb_slice_node(node, from, to) ==
  IF ~node.is_branch THEN rrb_make_leaf(SubSeq(node.items, from + 1, to))
  ELSE LET lo(i) == node.sizes[i] - node.children[i].size
           a(i)  == Max({from, lo(i)})
           b(i)  == Min({to, node.sizes[i]})
           meets == SetToSortSeq({i \in DOMAIN node.children : a(i) < b(i)}, <)
       IN  rrb_mk_branch([k \in DOMAIN meets |->
             LET i == meets[k]
             IN  IF a(i) = lo(i) /\ b(i) = node.sizes[i] THEN node.children[i]
                 ELSE rrb_slice_node(node.children[i], a(i) - lo(i), b(i) - lo(i))])

RECURSIVE Stack(_)
Stack(nodes) == IF Len(nodes) = 1 THEN nodes[1] ELSE Stack(rrb_chunk_branches(nodes))

rrb_from_array(s) == IF s = <<>> THEN rrb_empty_leaf ELSE Stack(rrb_chunk_leaves(s))

RECURSIVE rrb_collect(_)
rrb_collect(node) ==
  IF ~node.is_branch THEN node.items
  ELSE FoldLeft(LAMBDA out, child : out \o rrb_collect(child), <<>>, node.children)

rrb_to_array(node) == rrb_collect(node)

-----------------------------------------------------------------------------
(* Trees.                                                                   *)

tree_add(t, v) ==
  IF rrb_fast_push(t, v) # None THEN rrb_fast_push(t, v)
  ELSE rrb_concat_roots(t, rrb_make_leaf(<<v>>))

tree_cons(t, v) ==
  IF rrb_fast_cons(t, v) # None THEN rrb_fast_cons(t, v)
  ELSE rrb_concat_roots(rrb_make_leaf(<<v>>), t)

tree_concat(a, b) ==
  IF a.size = 0 THEN b ELSE IF b.size = 0 THEN a ELSE rrb_concat_roots(a, b)

tree_take(t, n) ==
  IF n <= 0 THEN rrb_empty_leaf
  ELSE IF n >= t.size THEN t ELSE rrb_canonical(rrb_slice_node(t, 0, n))

tree_drop(t, n) ==
  IF n <= 0 THEN t
  ELSE IF n >= t.size THEN rrb_empty_leaf ELSE rrb_canonical(rrb_slice_node(t, n, t.size))

tree_sublist(t, from, to) == tree_drop(tree_take(t, to), from)

\* Fault: the item lands behind the one it should push back.
InsertAfter(t, i, v) ==
  IF i >= t.size THEN tree_add(t, v)
  ELSE tree_concat(tree_concat(tree_take(t, i + 1), rrb_make_leaf(<<v>>)), tree_drop(t, i + 1))

tree_insert(t, i, v) ==
  IF i <= 0 THEN tree_cons(t, v)
  ELSE IF i >= t.size THEN tree_add(t, v)
  ELSE tree_concat(tree_concat(tree_take(t, i), rrb_make_leaf(<<v>>)), tree_drop(t, i))

tree_delete(t, i) == tree_concat(tree_take(t, i), tree_drop(t, i + 1))

tree_reverse(t) == rrb_from_array(Reverse(rrb_to_array(t)))

\* The checks of an index, of a position and of a count; a failed one aborts.
tl_bounds(i, size) == 0 <= i /\ i < size
tl_bounds_incl(i, size) == 0 <= i /\ i <= size
tl_count(i, size) == 0 <= i /\ i <= size

-----------------------------------------------------------------------------
(* Immutable tree lists.                                                    *)

bi_treelist(args) == rrb_from_array(args)
bi_make_treelist(n, v) == rrb_from_array([i \in 1..n |-> v])
bi_treelist_to_list(t) == rrb_to_array(t)
bi_treelist_empty_p(t) == t.size = 0
bi_treelist_length(t) == t.size
bi_treelist_ref(t, i) == rrb_node_ref(t, i)
bi_treelist_first(t) == rrb_node_ref(t, 0)
bi_treelist_last(t) == rrb_node_ref(t, t.size - 1)
bi_treelist_add(t, v) == tree_add(t, v)
bi_treelist_cons(t, v) == tree_cons(t, v)
bi_treelist_set(t, i, v) == rrb_node_set(t, i, v)
bi_treelist_insert(t, i, v) == tree_insert(t, i, v)
bi_treelist_delete(t, i) == tree_delete(t, i)
bi_treelist_take(t, n) == tree_take(t, n)
bi_treelist_drop(t, n) == tree_drop(t, n)
bi_treelist_take_right(t, n) == tree_drop(t, t.size - n)
bi_treelist_drop_right(t, n) == tree_take(t, t.size - n)
bi_treelist_sublist(t, from, to) == tree_sublist(t, from, to)
bi_treelist_rest(t) == tree_drop(t, 1)
bi_treelist_append(ts) == FoldLeft(tree_concat, rrb_empty_leaf, ts)
bi_treelist_reverse(t) == tree_reverse(t)
bi_treelist_map(t) == rrb_from_array([i \in 1..t.size |-> Twist(rrb_to_array(t)[i])])
bi_treelist_filter(t) == rrb_from_array(SelectSeq(rrb_to_array(t), Kept))

\* Insert each item after the ones already placed that it is not less than.
RECURSIVE tl_insertion_sort(_, _)
tl_insertion_sort(done, todo) ==
  IF todo = <<>> THEN done
  ELSE LET key == Head(todo)
           j   == Max({0} \cup {k \in DOMAIN done : ~Less(key, done[k])})
       IN  tl_insertion_sort(SubSeq(done, 1, j) \o <<key>> \o SubSeq(done, j + 1, Len(done)),
                             Tail(todo))

bi_treelist_sort(t) == rrb_from_array(tl_insertion_sort(<<>>, rrb_to_array(t)))

\* The first position of an item; -1 when there is none.
find_index(t, v) ==
  LET at == {i \in 1..t.size : rrb_to_array(t)[i] = v}
  IN  IF at = {} THEN -1 ELSE Min(at) - 1

bi_treelist_member_p(t, v) == find_index(t, v) >= 0
bi_treelist_index_of(t, v) == find_index(t, v)

\* The first item the predicate keeps; 0 stands for #f.
bi_treelist_find(t) ==
  LET kept == {i \in 1..t.size : Kept(rrb_to_array(t)[i])}
  IN  IF kept = {} THEN 0 ELSE rrb_to_array(t)[Min(kept)]

-----------------------------------------------------------------------------
(* A mutable tree list.  map! reads the items, calls back once per item and *)
(* then replaces the root: the callback may itself change the list.  call   *)
(* is the array map! is working on, or <<>>.                                *)

bi_mutable_treelist_to_list == rrb_to_array(root)
bi_mutable_treelist_empty_p == root.size = 0
bi_mutable_treelist_length == root.size
bi_mutable_treelist_ref(i) == rrb_node_ref(root, i)
bi_mutable_treelist_first == rrb_node_ref(root, 0)
bi_mutable_treelist_last == rrb_node_ref(root, root.size - 1)
bi_mutable_treelist_member_p(v) == find_index(root, v) >= 0
bi_mutable_treelist_find == bi_treelist_find(root)

Becomes(t, s) ==
  /\ Len(s) <= (IF call = <<>> THEN MaxSize ELSE MaxMapped + 1)
  /\ root' = t /\ items' = s /\ UNCHANGED call

bi_mutable_treelist == \E n \in 0..MaxSize, v \in TLValue :
  root = rrb_empty_leaf /\ Becomes(rrb_from_array([i \in 1..n |-> v]), [i \in 1..n |-> v])

bi_mutable_treelist_add_bang == \E v \in TLValue :
  Becomes(tree_add(root, v), Append(items, v))

bi_mutable_treelist_cons_bang == \E v \in TLValue :
  Becomes(tree_cons(root, v), <<v>> \o items)

bi_mutable_treelist_set_bang == \E v \in TLValue, i \in -1..MaxSize :
  tl_bounds(i, root.size) /\ Becomes(rrb_node_set(root, i, v), ReplaceAt(items, i + 1, v))

bi_mutable_treelist_insert_bang == \E v \in TLValue, i \in -1..MaxSize :
  tl_bounds_incl(i, root.size) /\ Becomes(tree_insert(root, i, v), InsertAt(items, i + 1, v))

bi_mutable_treelist_delete_bang == \E i \in -1..MaxSize :
  tl_bounds(i, root.size) /\ Becomes(tree_delete(root, i), RemoveAt(items, i + 1))

\* The tree appended or prepended is a slice of the list: any shape it can have.
bi_mutable_treelist_append_bang == \E from, to \in 0..MaxSize :
  /\ from <= to /\ to <= root.size
  /\ Becomes(tree_concat(root, tree_sublist(root, from, to)), items \o SubSeq(items, from + 1, to))

bi_mutable_treelist_prepend_bang == \E from, to \in 0..MaxSize :
  /\ from <= to /\ to <= root.size
  /\ Becomes(tree_concat(tree_sublist(root, from, to), root), SubSeq(items, from + 1, to) \o items)

bi_mutable_treelist_take_bang == \E n \in -1..MaxSize :
  tl_count(n, root.size) /\ Becomes(tree_take(root, n), SubSeq(items, 1, n))

bi_mutable_treelist_drop_bang == \E n \in -1..MaxSize :
  tl_count(n, root.size) /\ Becomes(tree_drop(root, n), SubSeq(items, n + 1, Len(items)))

bi_mutable_treelist_take_right_bang == \E n \in -1..MaxSize :
  /\ tl_count(n, root.size)
  /\ Becomes(tree_drop(root, root.size - n), SubSeq(items, Len(items) - n + 1, Len(items)))

bi_mutable_treelist_drop_right_bang == \E n \in -1..MaxSize :
  /\ tl_count(n, root.size)
  /\ Becomes(tree_take(root, root.size - n), SubSeq(items, 1, Len(items) - n))

bi_mutable_treelist_sublist_bang == \E from, to \in -1..MaxSize :
  /\ tl_count(from, root.size) /\ tl_count(to, root.size) /\ from <= to
  /\ Becomes(tree_sublist(root, from, to), SubSeq(items, from + 1, to))

bi_mutable_treelist_reverse_bang == Becomes(tree_reverse(root), Reverse(items))

\* Reference of sort!: the items of key 0, then those of key 1, each in order.
Sorted(s) == SelectSeq(s, LAMBDA v : Key(v) = 0) \o SelectSeq(s, LAMBDA v : Key(v) = 1)

bi_mutable_treelist_sort_bang == Becomes(bi_treelist_sort(root), Sorted(items))

MapBegin ==
  /\ call = <<>> /\ Len(items) \in 1..MaxMapped
  /\ call' = items /\ UNCHANGED <<root, items>>

bi_mutable_treelist_map_bang ==
  /\ call # <<>>
  /\ root' = rrb_from_array([i \in DOMAIN call |-> Twist(call[i])])
  /\ items' = [i \in DOMAIN call |-> Twist(call[i])]
  /\ call' = <<>>

TreeInit == root = rrb_empty_leaf /\ items = <<>> /\ call = <<>>

TreeNext ==
  \/ bi_mutable_treelist \/ bi_mutable_treelist_add_bang \/ bi_mutable_treelist_cons_bang
  \/ bi_mutable_treelist_set_bang \/ bi_mutable_treelist_insert_bang
  \/ bi_mutable_treelist_delete_bang \/ bi_mutable_treelist_append_bang
  \/ bi_mutable_treelist_prepend_bang \/ bi_mutable_treelist_take_bang
  \/ bi_mutable_treelist_drop_bang \/ bi_mutable_treelist_take_right_bang
  \/ bi_mutable_treelist_drop_right_bang \/ bi_mutable_treelist_sublist_bang
  \/ bi_mutable_treelist_reverse_bang \/ bi_mutable_treelist_sort_bang
  \/ MapBegin \/ bi_mutable_treelist_map_bang

-----------------------------------------------------------------------------
(* Properties.                                                              *)

\* A tree is well formed: uniform height, no node over RRB_WIDTH, no empty
\* node below the root, and every table of sizes true of its children.
RECURSIVE WellFormed(_)
WellFormed(node) ==
  IF ~node.is_branch THEN node.size = Len(node.items) /\ node.size <= RRB_WIDTH
  ELSE /\ Len(node.children) \in 1..RRB_WIDTH
       /\ node.size = node.sizes[Len(node.children)]
       /\ \A i \in DOMAIN node.children :
            /\ node.children[i].height = node.height - 1
            /\ node.children[i].size > 0
            /\ node.sizes[i] = node.children[i].size + (IF i = 1 THEN 0 ELSE node.sizes[i - 1])
            /\ WellFormed(node.children[i])

\* After any sequence of ! operations, slices and repackings included, the tree is
\* well formed, and a list of one item is a bare leaf again: the single children a
\* slice leaves at the root do not stay behind (rrb_canonical).
TreeShape == WellFormed(root) /\ (root.size <= 1 => ~root.is_branch)

\* After any sequence of ! operations the tree holds exactly the items the reference
\* definitions give, and walking the size tables (treelist-ref) finds each of them.
TreeContents ==
  /\ bi_mutable_treelist_to_list = items
  /\ bi_mutable_treelist_length = Len(items)
  /\ bi_mutable_treelist_empty_p = (items = <<>>)
  /\ \A i \in 0..Len(items) - 1 : bi_mutable_treelist_ref(i) = items[i + 1]
  /\ \A v \in TLValue : bi_mutable_treelist_member_p(v) = (v \in ToSet(items))
  /\ (bi_mutable_treelist_find = 0) = (\A i \in DOMAIN items : ~Kept(items[i]))
  /\ items # <<>> => /\ bi_mutable_treelist_first = Head(items)
                     /\ bi_mutable_treelist_last = Last(items)

Represents(t, s) == WellFormed(t) /\ rrb_to_array(t) = s

\* Every operation on immutable tree lists agrees with its reference on sequences in
\* every tree the ! operations can build, whatever its shape.
TreePure ==
  call = <<>> =>
  LET n == Len(items)
  IN  /\ \A v \in TLValue :
           /\ Represents(bi_treelist_add(root, v), Append(items, v))
           /\ Represents(bi_treelist_cons(root, v), <<v>> \o items)
           /\ bi_treelist_member_p(root, v) = (v \in ToSet(items))
           /\ bi_treelist_index_of(root, v) # -1 =>
                items[bi_treelist_index_of(root, v) + 1] = v
           /\ \A i \in 0..n : Represents(bi_treelist_insert(root, i, v), InsertAt(items, i + 1, v))
           /\ \A i \in 0..n - 1 : Represents(bi_treelist_set(root, i, v), ReplaceAt(items, i + 1, v))
           /\ Represents(bi_make_treelist(n, v), [i \in 1..n |-> v])
      /\ \A i \in 0..n - 1 : Represents(bi_treelist_delete(root, i), RemoveAt(items, i + 1))
      /\ \A i \in 0..n :
           /\ Represents(bi_treelist_append(<<bi_treelist_take(root, i), bi_treelist_drop(root, i)>>), items)
           /\ Represents(bi_treelist_append(<<bi_treelist_take_right(root, i),
                                        bi_treelist_drop_right(root, i)>>),
                   SubSeq(items, n - i + 1, n) \o SubSeq(items, 1, n - i))
           /\ \A j \in i..n : Represents(bi_treelist_sublist(root, i, j), SubSeq(items, i + 1, j))
      /\ items # <<>> => /\ bi_treelist_first(root) = Head(items)
                         /\ bi_treelist_last(root) = Last(items)
                         /\ Represents(bi_treelist_rest(root), Tail(items))
      /\ bi_treelist_to_list(root) = items
      /\ bi_treelist_length(root) = n
      /\ bi_treelist_empty_p(root) = (n = 0)
      /\ \A i \in 0..n - 1 : bi_treelist_ref(root, i) = items[i + 1]
      /\ Represents(bi_treelist_reverse(root), Reverse(items))
      /\ Represents(bi_treelist_map(root), [i \in 1..n |-> Twist(items[i])])
      /\ Represents(bi_treelist_filter(root), SelectSeq(items, Kept))
      /\ Represents(bi_treelist_sort(root), Sorted(items))
      /\ Represents(bi_treelist(items), items)
      /\ bi_treelist_find(root) = (IF SelectSeq(items, Kept) = <<>> THEN 0
                                   ELSE Head(SelectSeq(items, Kept)))

\* A tree list is the list of its items: in shape, in contents, and in what every
\* operation of treelist.c answers.
TreesAreLists == TreeShape /\ TreeContents /\ TreePure

=============================================================================
