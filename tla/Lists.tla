------------------------------- MODULE Lists -------------------------------
(***************************************************************************)
(* Pairs, lists, equal? and its hash (builtins.c).  The state is the heap: *)
(* pairs that set-car! and set-cdr! may tie into any graph, and vectors    *)
(* that hold values and stay as they were made.  A procedure is an         *)
(* operator from a heap and values to its result; one that allocates       *)
(* returns the heap it leaves behind as well.                              *)
(*                                                                         *)
(* A loop over cdrs that meets a cycle never ends in the code: its result  *)
(* here is hangs, and no step is taken through it.                         *)
(***************************************************************************)
EXTENDS Integers, Sequences, SequencesExt, FiniteSets

CONSTANTS Atom,     \* the numbers in the lists
          MaxCells  \* objects in the heap

VARIABLE heap       \* a sequence of objects; an address is an index

EmptyList == <<"nil">>
v_false == <<"bool", FALSE>>
v_num(n) == <<"int", n>>
PairAt(a) == <<"pair", a>>
VecAt(a) == <<"vec", a>>
hangs == <<"hangs">>
aborts == <<"abort">>

KindOf(v) == v[1]
IsPair(v) == KindOf(v) = "pair"
CarOf(h, v) == h[v[2]].car
CdrOf(h, v) == h[v[2]].cdr

Values(h) ==
  {EmptyList} \cup {v_num(n) : n \in Atom}
  \cup {IF "items" \in DOMAIN h[a] THEN VecAt(a) ELSE PairAt(a) : a \in DOMAIN h}

\* What a procedure that allocates returns.
Made(h, v) == [h |-> h, v |-> v]

creme_cons(h, a, d) == Made(Append(h, [car |-> a, cdr |-> d]), PairAt(Len(h) + 1))

\* items consed in front of tail, from the last one on: the trailing loop of
\* every procedure that builds a list.
ConsOnto(h, items, tail) ==
  FoldRight(LAMBDA x, r : creme_cons(r.h, x, r.v), items, Made(h, tail))

-----------------------------------------------------------------------------
(* Walking cdrs                                                            *)

\* The pairs a walk meets, as values: it ends at the first non-pair, and
\* goes on forever once it meets a pair again.
RECURSIVE WalkFrom(_, _, _)
WalkFrom(h, v, met) ==
  IF ~IsPair(v) THEN [pairs |-> met, tail |-> v, ends |-> TRUE]
  ELSE IF \E i \in DOMAIN met : met[i] = v
  THEN [pairs |-> met, tail |-> v, ends |-> FALSE]
  ELSE WalkFrom(h, CdrOf(h, v), Append(met, v))

WalkList(h, v) == WalkFrom(h, v, <<>>)

Ends(h, v) == WalkList(h, v).ends

\* creme_list_length and creme_list_to_values of a list that ends.
creme_list_length(h, v) == Len(WalkList(h, v).pairs)

Proper(h, v) == WalkList(h, v).tail = EmptyList

creme_list_to_values(h, v) ==
  [i \in 1..creme_list_length(h, v) |-> CarOf(h, WalkList(h, v).pairs[i])]

bi_length(h, v) ==
  IF ~Ends(h, v) THEN hangs
  ELSE IF Proper(h, v) THEN v_num(creme_list_length(h, v)) ELSE aborts

\* Fault: the hare moves one pair at a time, as the tortoise does.
RECURSIVE SlowHare(_, _, _)
SlowHare(h, slow, fast) ==
  IF ~IsPair(fast) THEN fast = EmptyList
  ELSE IF CdrOf(h, fast) = CdrOf(h, slow) THEN FALSE
  ELSE SlowHare(h, CdrOf(h, slow), CdrOf(h, fast))

\* Floyd's tortoise and hare.
RECURSIVE Lapped(_, _, _)
Lapped(h, slow, fast) ==
  LET one == CdrOf(h, fast)
      two == CdrOf(h, one)
  IN CASE ~IsPair(fast) -> fast = EmptyList
       [] ~IsPair(one)  -> one = EmptyList
       [] OTHER -> IF IsPair(two) /\ two = CdrOf(h, slow) THEN FALSE
                   ELSE Lapped(h, CdrOf(h, slow), two)

bi_list_p(h, v) == Lapped(h, v, v)

RECURSIVE CdrTimes(_, _, _)
CdrTimes(h, v, k) ==
  IF k = 0 THEN v ELSE IF IsPair(v) THEN CdrTimes(h, CdrOf(h, v), k - 1) ELSE aborts

bi_list_tail(h, v, k) == CdrTimes(h, v, k)

bi_list_ref(h, v, k) ==
  LET at == CdrTimes(h, v, k) IN IF IsPair(at) THEN CarOf(h, at) ELSE aborts

bi_last_pair(h, v) ==
  IF ~IsPair(v) THEN aborts
  ELSE IF ~Ends(h, v) THEN hangs ELSE Last(WalkList(h, v).pairs)

\* c[ad]+r: the letters are applied from the last to the first.
cxr_apply(h, ops, v) ==
  FoldRight(LAMBDA op, r : IF ~IsPair(r) THEN aborts
                           ELSE IF op = "a" THEN CarOf(h, r) ELSE CdrOf(h, r),
            ops, v)

-----------------------------------------------------------------------------
(* equal? and the hash a table keeps its keys under                        *)

\* Fault: a pair that is already on the path on one side counts as equal.
RECURSIVE EqualEitherSeen(_, _, _, _)
EqualEitherSeen(h, a, b, seen) ==
  IF ~IsPair(a) \/ ~IsPair(b) THEN a = b
  ELSE \/ \E p \in seen : p[1] = a \/ p[2] = b
       \/ LET now == seen \cup {<<a, b>>}
          IN /\ EqualEitherSeen(h, CarOf(h, a), CarOf(h, b), now)
             /\ EqualEitherSeen(h, CdrOf(h, a), CdrOf(h, b), now)

RECURSIVE creme_equal_rec(_, _, _, _)
creme_equal_rec(h, a, b, seen) ==
  CASE KindOf(a) # KindOf(b) -> FALSE
    [] IsPair(a) ->
         \/ <<a, b>> \in seen
         \/ LET now == seen \cup {<<a, b>>}
            IN /\ creme_equal_rec(h, CarOf(h, a), CarOf(h, b), now)
               /\ creme_equal_rec(h, CdrOf(h, a), CdrOf(h, b), now)
    [] KindOf(a) = "vec" ->
         LET x == h[a[2]].items
             y == h[b[2]].items
         IN Len(x) = Len(y) /\ \A i \in DOMAIN x : creme_equal_rec(h, x[i], y[i], seen)
    [] OTHER -> a = b

creme_equal(h, a, b) == creme_equal_rec(h, a, b, {})

\* The mixing function is taken to be injective: only what it is given
\* decides the hash.  A pair met again on the path hashes to the bare tag.
RECURSIVE creme_hash_value_rec(_, _, _)
creme_hash_value_rec(h, v, seen) ==
  CASE IsPair(v) ->
         IF v \in seen THEN <<"pair">>
         ELSE <<"pair", creme_hash_value_rec(h, CarOf(h, v), seen \cup {v}),
                creme_hash_value_rec(h, CdrOf(h, v), seen \cup {v})>>
    [] KindOf(v) = "vec" ->
         LET x == h[v[2]].items
         IN <<"vec", Len(x), [i \in DOMAIN x |-> creme_hash_value_rec(h, x[i], seen)]>>
    [] OTHER -> v

creme_hash_value(h, v) == creme_hash_value_rec(h, v, {})

\* eqv? compares pairs and vectors by address.
eqv(a, b) == a = b

\* The first element of a list that meets a test, or none; a test that is
\* met before the walk closes its cycle is found even in a circular list.
FirstPair(h, v, Test(_)) ==
  LET w == WalkList(h, v)
      hits == SelectSeq(w.pairs, Test)
  IN IF hits # <<>> THEN hits[1] ELSE IF w.ends THEN v_false ELSE hangs

bi_member(h, x, v) == FirstPair(h, v, LAMBDA p : creme_equal(h, CarOf(h, p), x))
bi_memq(h, x, v) == FirstPair(h, v, LAMBDA p : eqv(CarOf(h, p), x))

Entry(h, found) == IF IsPair(found) THEN CarOf(h, found) ELSE found

bi_assoc(h, x, v) ==
  Entry(h, FirstPair(h, v, LAMBDA p : /\ IsPair(CarOf(h, p))
                                      /\ creme_equal(h, CarOf(h, CarOf(h, p)), x)))
bi_assq(h, x, v) ==
  Entry(h, FirstPair(h, v, LAMBDA p : /\ IsPair(CarOf(h, p))
                                      /\ eqv(CarOf(h, CarOf(h, p)), x)))

-----------------------------------------------------------------------------
(* Building lists.  Their arguments end: ready says which calls return.    *)

bi_list(h, items) == ConsOnto(h, items, EmptyList)

bi_cons_star(h, items) ==
  IF items = <<>> THEN Made(h, EmptyList) ELSE ConsOnto(h, Front(items), Last(items))

bi_make_list(h, k, fill) == ConsOnto(h, [i \in 1..k |-> fill], EmptyList)

bi_reverse(h, v) == ConsOnto(h, Reverse(creme_list_to_values(h, v)), EmptyList)

\* Fault: append shares its first list too, ending it at the second.
SharingAppend(h, a, b) ==
  IF ~IsPair(a) THEN Made(h, b)
  ELSE Made([h EXCEPT ![bi_last_pair(h, a)[2]].cdr = b], a)

\* Every list but the last is copied.
bi_append(h, a, b) == ConsOnto(h, creme_list_to_values(h, a), b)

\* A shallow copy that keeps an improper tail.
bi_list_copy(h, v) == ConsOnto(h, creme_list_to_values(h, v), WalkList(h, v).tail)

\* map steps every cursor before it calls the procedure, and stops at the
\* shortest list.  The procedure here returns its last argument.
Shortest(seqs) ==
  CHOOSE n \in {Len(seqs[i]) : i \in DOMAIN seqs} : \A i \in DOMAIN seqs : n <= Len(seqs[i])

bi_map(h, lists) ==
  LET vals == [i \in DOMAIN lists |-> creme_list_to_values(h, lists[i])]
  IN ConsOnto(h, [k \in 1..Shortest(vals) |-> Last(vals)[k]], EmptyList)

\* The argument vectors for-each hands to its procedure, in order.
bi_for_each(h, lists) ==
  LET vals == [i \in DOMAIN lists |-> creme_list_to_values(h, lists[i])]
  IN [k \in 1..Shortest(vals) |-> [i \in DOMAIN lists |-> vals[i][k]]]

\* The elements equal to x.
bi_filter(h, x, v) ==
  bi_list(h, SelectSeq(creme_list_to_values(h, v), LAMBDA e : creme_equal(h, e, x)))

\* What rng_next() % (i + 1) may be in the round for index i, from the last.
Draws(n) == {d \in [2..n -> 1..n] : \A i \in 2..n : d[i] <= i}

bi_random_shuffle(h, v, draw) ==
  LET x == creme_list_to_values(h, v)
      Swapped(s, i) == [s EXCEPT ![i] = s[draw[i]], ![draw[i]] = s[i]]
  IN ConsOnto(h, FoldRight(LAMBDA i, s : Swapped(s, i), [k \in 1..(Len(x) - 1) |-> k + 1], x), EmptyList)

bi_random_choice(h, v, k) == IF IsPair(v) THEN creme_list_to_values(h, v)[k] ELSE aborts

\* The arguments apply calls its procedure with.
bi_apply(h, first, list) == first \o creme_list_to_values(h, list)

bi_vector(h, items) == Made(Append(h, [items |-> items]), VecAt(Len(h) + 1))

bi_list_to_vector(h, v) == bi_vector(h, creme_list_to_values(h, v))

bi_vector_to_list(h, v) == ConsOnto(h, h[v[2]].items, EmptyList)

\* One value is itself, any other number a package that call-with-values
\* opens.
bi_values(items) == IF Len(items) = 1 THEN items[1] ELSE <<"values", items>>
bi_call_with_values(made) == IF KindOf(made) = "values" THEN made[2] ELSE <<made>>

-----------------------------------------------------------------------------
(* The machine: any value of the heap, any operation                       *)

bi_set_car_bang(v, x) == IsPair(v) /\ heap' = [heap EXCEPT ![v[2]].car = x]

bi_set_cdr_bang(v, x) == IsPair(v) /\ heap' = [heap EXCEPT ![v[2]].cdr = x]

bi_list_set(v, k, x) ==
  LET at == CdrTimes(heap, v, k)
  IN IsPair(at) /\ heap' = [heap EXCEPT ![at[2]].car = x]

ListsInit == heap = <<>>

Keep(made) == Len(made.h) <= MaxCells /\ heap' = made.h

ProperLists == {v \in Values(heap) : Ends(heap, v) /\ Proper(heap, v)}

Construct ==
  \/ \E a, b \in Values(heap) :
       Keep(creme_cons(heap, a, b)) \/ Keep(bi_vector(heap, <<a, b>>))
  \/ \E a \in ProperLists, b \in Values(heap) : Keep(bi_append(heap, a, b))
  \/ \E a \in Values(heap), k \in 0..MaxCells : Keep(bi_make_list(heap, k, a))
  \/ \E v \in {w \in Values(heap) : Ends(heap, w)} : Keep(bi_list_copy(heap, v))
  \/ \E v \in ProperLists : Keep(bi_reverse(heap, v)) \/ Keep(bi_list_to_vector(heap, v))

Mutate ==
  \/ \E v, x \in Values(heap) : bi_set_car_bang(v, x) \/ bi_set_cdr_bang(v, x)
  \/ \E v, x \in Values(heap), k \in 1..MaxCells : bi_list_set(v, k, x)

ListsNext == Construct \/ Mutate

-----------------------------------------------------------------------------
(* Properties                                                              *)

\* The pairs of R that one step does not tell apart: same kind, same atom,
\* and parts that R relates.
AlikeBy(h, R) ==
  {p \in R :
    LET a == p[1]
        b == p[2]
    IN CASE IsPair(a) /\ IsPair(b) ->
              /\ <<CarOf(h, a), CarOf(h, b)>> \in R
              /\ <<CdrOf(h, a), CdrOf(h, b)>> \in R
         [] KindOf(a) = "vec" /\ KindOf(b) = "vec" ->
              /\ Len(h[a[2]].items) = Len(h[b[2]].items)
              /\ \A i \in DOMAIN h[a[2]].items :
                   <<h[a[2]].items[i], h[b[2]].items[i]>> \in R
         [] OTHER -> a = b}

RECURSIVE Bisimilar(_, _)
Bisimilar(h, R) == IF AlikeBy(h, R) = R THEN R ELSE Bisimilar(h, AlikeBy(h, R))

\* equal? ends on every heap, however its pairs are tied, and answers yes to
\* exactly the values that no path of cars, cdrs and elements tells apart.
EqualIsBisimilar ==
  LET all == Values(heap) \X Values(heap)
  IN {p \in all : creme_equal(heap, p[1], p[2])} = Bisimilar(heap, all)

\* The values a value reaches.
RECURSIVE Reached(_, _)
Reached(h, s) ==
  LET next == s \cup UNION {{CarOf(h, v), CdrOf(h, v)} : v \in {w \in s : IsPair(w)}}
                \cup UNION {Range(h[v[2]].items) : v \in {w \in s : KindOf(w) = "vec"}}
  IN IF next = s THEN s ELSE Reached(h, next)

Acyclic(h, v) ==
  \A w \in Reached(h, {v}) :
    IsPair(w) => w \notin Reached(h, {CarOf(h, w), CdrOf(h, w)})

\* Equal keys have equal hashes, so a table finds under one what was stored
\* under the other -- for values without cycles.
EqualHashes ==
  \A a, b \in {v \in Values(heap) : Acyclic(heap, v)} :
    creme_equal(heap, a, b) => creme_hash_value(heap, a) = creme_hash_value(heap, b)

\* list? answers on every heap, and says yes exactly to what the procedures
\* that walk a list can be given: length returns, the last pair's cdr is
\* nil, and the k-th tail is nil for one k only.
ListIsWalkable ==
  \A v \in Values(heap) :
    /\ bi_list_p(heap, v) <=> KindOf(bi_length(heap, v)) = "int"
    /\ bi_list_p(heap, v) <=>
         Cardinality({k \in 0..(MaxCells + 1) : bi_list_tail(heap, v, k) = EmptyList}) = 1
    /\ bi_list_p(heap, v) /\ IsPair(v) =>
         /\ CdrOf(heap, bi_last_pair(heap, v)) = EmptyList
         /\ bi_list_ref(heap, v, creme_list_length(heap, v) - 1)
              = CarOf(heap, bi_last_pair(heap, v))

Unchanged(made) == SubSeq(made.h, 1, Len(heap)) = heap

Holds(made, items) == creme_list_to_values(made.h, made.v) = items /\ Proper(made.h, made.v)

\* What the list builders return, and that they leave every pair that was
\* there before as it was: a caller may change the copy, or the original,
\* without the other noticing.
CopiesAreFresh ==
  \A a, b \in ProperLists :
    LET x == creme_list_to_values(heap, a)
        y == creme_list_to_values(heap, b)
        n == IF Len(x) < Len(y) THEN Len(x) ELSE Len(y)
        both == bi_append(heap, a, b)
    IN /\ Unchanged(both) /\ Holds(both, x \o y)
       /\ bi_list_tail(both.h, both.v, Len(x)) = b
       /\ Holds(bi_map(heap, <<a, b>>), SubSeq(y, 1, n))
       /\ Holds(bi_map(bi_reverse(heap, a).h, <<bi_reverse(heap, a).v>>), Reverse(x))
       /\ Holds(bi_list_copy(heap, a), x)
       /\ Reached(bi_list_copy(heap, a).h, {bi_list_copy(heap, a).v})
            \cap {a} \subseteq {EmptyList} \cup Reached(heap, Range(x))
       /\ LET v == bi_list_to_vector(heap, a)
          IN Holds(bi_vector_to_list(v.h, v.v), x)
       /\ bi_apply(heap, x, b) = x \o y
       /\ bi_call_with_values(bi_values(x)) = x
       /\ Len(bi_for_each(heap, <<a, b>>)) = n
       /\ Holds(bi_cons_star(heap, Append(x, b)), x \o y)
       /\ \A e \in Values(heap) :
            /\ bi_filter(heap, e, a).v = EmptyList <=> bi_member(heap, e, a) = v_false
            /\ IsPair(bi_memq(heap, e, a)) => IsPair(bi_member(heap, e, a))
            /\ IsPair(bi_assq(heap, e, a)) => IsPair(bi_assoc(heap, e, a))
       /\ Len(x) >= 2 => cxr_apply(heap, <<"a", "d">>, a) = bi_list_ref(heap, a, 1)

\* random-shuffle can make every arrangement of its list, each by one sequence
\* of draws, and nothing else; random-choice only elements, and each of them.
ShuffleArranges ==
  \A a \in ProperLists :
    LET x == creme_list_to_values(heap, a)
        n == Len(x)
        orders == {p \in [1..n -> 1..n] : \A i, j \in 1..n : p[i] = p[j] => i = j}
        made == {bi_random_shuffle(heap, a, d) : d \in Draws(n)}
    IN /\ {creme_list_to_values(m.h, m.v) : m \in made} = {[i \in 1..n |-> x[p[i]]] : p \in orders}
       /\ Cardinality(Draws(n)) = Cardinality(orders)
       /\ \A m \in made : Unchanged(m) /\ Proper(m.h, m.v)
       /\ n > 0 => {bi_random_choice(heap, a, k) : k \in 1..n} = Range(x)

\* On every heap, circular and shared lists included, equal?, its hash, list? and
\* the copying procedures of builtins.c agree with what the lists are.
ListsAgree == EqualIsBisimilar /\ EqualHashes /\ ListIsWalkable /\ CopiesAreFresh /\ ShuffleArranges

=============================================================================
