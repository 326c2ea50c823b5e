-------------------------------- MODULE VMOps --------------------------------
(***************************************************************************)
(* The instructions of icecreme's virtual machine (creme_dispatch of vm.c) *)
(* that work on one frame: loads, arithmetic, comparisons and tests with   *)
(* their immediate, upvalue and returning forms, vectors, strings and      *)
(* bytevectors, counted loops, case dispatch, quasiquotation, destructuring*)
(* and records.  Calls and closures are in Calls, the self-modifying call  *)
(* instructions in SharedCode, exceptions and continuations in Control.    *)
(*                                                                         *)
(* A frame is a record m: its registers, the values of its closure's       *)
(* upvalues, the heap, the globals, ip relative to the instruction after   *)
(* the current one, the value it returned, and whether it has aborted.     *)
(* Every instruction is an operator from m and its operands i to m.        *)
(***************************************************************************)
EXTENDS Numbers

CONSTANTS ByteSize,   \* 256: the values of an unsigned char
          MaxHeap,    \* objects on the heap
          MaxProgram, \* instructions that a program executes
          Start       \* the frames that programs begin with

VARIABLES cpu,        \* the frame
          executed    \* instructions so far

opsVars == <<cpu, executed>>

NR == 2                  \* registers a program uses
T1 == NR + 1             \* and two that an expansion may use
T2 == NR + 2

Ins(a, b, c, d) == [a |-> a, b |-> b, c |-> c, d |-> d]

v_nil == <<"nil">>
v_bool(b) == <<"bool", b>>
v_char(c) == <<"char", c>>
v_falsy(v) == v = v_bool(FALSE)
Unbound == <<"unbound">>
NoValue == <<"none">>

Abort(m) == [m EXCEPT !.err = TRUE]

\* A result goes into a register, unless computing it aborted.
Put(m, r, v) == IF v = v_error THEN Abort(m) ELSE [m EXCEPT !.regs[r] = v]

Reg(m, r) == m.regs[r]

upvalue_get(m, u) == m.ups[u]

\* deliver_return, as far as this frame is concerned.
Returned(m, v) == [m EXCEPT !.ret = v]

PutReturn(m, r, v) == IF v = v_error THEN Abort(m) ELSE Returned(Put(m, r, v), v)

\* A test instruction skips ins->b instructions when it fails.
Test(m, holds, b) ==
  CASE holds = v_error -> Abort(m)
    [] v_falsy(holds) -> [m EXCEPT !.ip = @ + b]
    [] OTHER -> m

Items(m, v) == m.heap[v[2]]

\* m and the value that points to a new object.
New(m, tag, content) ==
  [m |-> [m EXCEPT !.heap = Append(@, content)], v |-> <<tag, Len(m.heap) + 1>>]

PutNew(m, r, tag, content) ==
  LET n == New(m, tag, content) IN Put(n.m, r, n.v)

ConsAll(m, vs, tail) ==
  FoldRight(LAMBDA v, acc : New(acc.m, "pair", <<v, acc.v>>), vs, [m |-> m, v |-> tail])

-----------------------------------------------------------------------------
(* fast_*: two fixnums are handled in the instruction, the rest by num_*.  *)

IsNumber(v) == is_real_component(v) \/ Tag(v) = "complex"

IsInt(v) == Tag(v) = "int"

fast_add(x, y) ==
  CASE IsInt(x) /\ IsInt(y) /\ Fits(x[2] + y[2]) -> v_int(x[2] + y[2])
    [] IsNumber(x) /\ IsNumber(y) -> num_add(x, y)
    [] OTHER -> v_error

fast_sub(x, y) ==
  CASE IsInt(x) /\ IsInt(y) /\ Fits(x[2] - y[2]) -> v_int(x[2] - y[2])
    [] IsNumber(x) /\ IsNumber(y) -> num_sub(x, y)
    [] OTHER -> v_error

fast_mul(x, y) ==
  CASE IsInt(x) /\ IsInt(y) /\ Fits(x[2] * y[2]) -> v_int(x[2] * y[2])
    [] IsNumber(x) /\ IsNumber(y) -> num_mul(x, y)
    [] OTHER -> v_error

\* Only reals are ordered.
Ordered(x, y) == is_real_component(x) /\ is_real_component(y)

fast_lt(x, y) ==
  CASE IsInt(x) /\ IsInt(y) -> v_bool(x[2] < y[2])
    [] Ordered(x, y) -> v_bool(num_lt(x, y))
    [] OTHER -> v_error

fast_le(x, y) ==
  CASE IsInt(x) /\ IsInt(y) -> v_bool(x[2] <= y[2])
    [] Ordered(x, y) -> v_bool(num_le(x, y))
    [] OTHER -> v_error

fast_gt(x, y) ==
  CASE IsInt(x) /\ IsInt(y) -> v_bool(x[2] > y[2])
    [] Ordered(x, y) -> v_bool(num_gt(x, y))
    [] OTHER -> v_error

fast_ge(x, y) ==
  CASE IsInt(x) /\ IsInt(y) -> v_bool(x[2] >= y[2])
    [] Ordered(x, y) -> v_bool(num_ge(x, y))
    [] OTHER -> v_error

fast_eq(x, y) ==
  CASE IsInt(x) /\ IsInt(y) -> v_bool(x[2] = y[2])
    [] IsNumber(x) /\ IsNumber(y) -> v_bool(num_eq(x, y))
    [] OTHER -> v_error

\* eqv? of the values a register may hold: strings by what they contain,
\* other objects by identity.
Eqv(m, x, y) ==
  v_bool(IF Tag(x) = "string" /\ Tag(y) = "string" THEN Items(m, x) = Items(m, y)
         ELSE IF IsNumber(x) /\ IsNumber(y) THEN creme_eqv(x, y)
         ELSE x = y)

-----------------------------------------------------------------------------
(* Loads and moves                                                         *)

OP_LOADK(m, i)     == Put(m, i.a, i.b)       \* the constant stands for its index
OP_LOADNIL(m, i)   == Put(m, i.a, v_nil)
OP_LOADTRUE(m, i)  == Put(m, i.a, v_bool(TRUE))
OP_LOADFALSE(m, i) == Put(m, i.a, v_bool(FALSE))
OP_MOVE(m, i)      == Put(m, i.a, Reg(m, i.b))
OP_GETUPVAL(m, i)  == Put(m, i.a, upvalue_get(m, i.b))
SetUpvalue(m, i)  == [m EXCEPT !.ups[i.a] = Reg(m, i.b)]
OP_THROW(m, i)     == Abort(m)
OP_JMP(m, i)       == [m EXCEPT !.ip = @ + i.b]
OP_NOT(m, i)       == Put(m, i.a, v_bool(v_falsy(Reg(m, i.b))))
OP_ISNULL(m, i)    == Put(m, i.a, v_bool(Tag(Reg(m, i.b)) = "nil"))
OP_ISPAIR(m, i)    == Put(m, i.a, v_bool(Tag(Reg(m, i.b)) = "pair"))
OP_CONS(m, i)      == PutNew(m, i.a, "pair", <<Reg(m, i.b), Reg(m, i.c)>>)
OP_MAKEPROMISE(m, i) == PutNew(m, i.a, "promise", <<Reg(m, i.b), v_bool(FALSE), v_nil>>)

OP_GETGLOBAL(m, i) ==
  IF m.globals[i.b] = Unbound THEN Abort(m) ELSE Put(m, i.a, m.globals[i.b])

OP_SETGLOBAL(m, i) ==
  IF m.globals[i.a] = Unbound THEN Abort(m)
  ELSE [m EXCEPT !.globals[i.a] = Reg(m, i.b)]

OP_RETURN(m, i)      == Returned(m, Reg(m, i.a))
OP_RETURNUPVAL(m, i) == Returned(m, upvalue_get(m, i.a))
OP_RETURNGLOBAL(m, i) ==
  IF m.globals[i.a] = Unbound THEN Abort(m) ELSE Returned(m, m.globals[i.a])

-----------------------------------------------------------------------------
(* Arithmetic and comparison: on two registers, on a register and an       *)
(* immediate, on a register and an upvalue, and returning the result.      *)

OP_ADD(m, i)   == Put(m, i.a, fast_add(Reg(m, i.b), Reg(m, i.c)))
OP_SUB(m, i)   == Put(m, i.a, fast_sub(Reg(m, i.b), Reg(m, i.c)))
OP_MUL(m, i)   == Put(m, i.a, fast_mul(Reg(m, i.b), Reg(m, i.c)))
OP_NUMLT(m, i) == Put(m, i.a, fast_lt(Reg(m, i.b), Reg(m, i.c)))
OP_NUMLE(m, i) == Put(m, i.a, fast_le(Reg(m, i.b), Reg(m, i.c)))
OP_NUMGT(m, i) == Put(m, i.a, fast_gt(Reg(m, i.b), Reg(m, i.c)))
OP_NUMGE(m, i) == Put(m, i.a, fast_ge(Reg(m, i.b), Reg(m, i.c)))
OP_NUMEQ(m, i) == Put(m, i.a, fast_eq(Reg(m, i.b), Reg(m, i.c)))
OP_ISEQ(m, i)  == Put(m, i.a, Eqv(m, Reg(m, i.b), Reg(m, i.c)))

OP_ADDIMM(m, i)   == Put(m, i.a, fast_add(Reg(m, i.b), v_int(i.c)))
OP_SUBIMM(m, i)   == Put(m, i.a, fast_sub(Reg(m, i.b), v_int(i.c)))
OP_NUMLTIMM(m, i) == Put(m, i.a, fast_lt(Reg(m, i.b), v_int(i.c)))
OP_NUMLEIMM(m, i) == Put(m, i.a, fast_le(Reg(m, i.b), v_int(i.c)))
OP_NUMGTIMM(m, i) == Put(m, i.a, fast_gt(Reg(m, i.b), v_int(i.c)))
OP_NUMGEIMM(m, i) == Put(m, i.a, fast_ge(Reg(m, i.b), v_int(i.c)))
OP_NUMEQIMM(m, i) == Put(m, i.a, fast_eq(Reg(m, i.b), v_int(i.c)))
OP_ISEQIMM(m, i)  == Put(m, i.a, v_bool(Reg(m, i.b) = v_int(i.c)))

\* Unlike the others, it has no fallback for what is not a fixnum.
OP_MULIMM(m, i) ==
  LET x == Reg(m, i.b) IN
  CASE ~IsInt(x) -> Abort(m)
    [] ~Fits(x[2] * i.c) -> Put(m, i.a, num_mul(x, v_int(i.c)))
    [] OTHER -> Put(m, i.a, v_int(x[2] * i.c))

OP_ADDUP(m, i)   == Put(m, i.a, fast_add(Reg(m, i.b), upvalue_get(m, i.c)))
OP_SUBUP(m, i)   == Put(m, i.a, fast_sub(Reg(m, i.b), upvalue_get(m, i.c)))
OP_MULUP(m, i)   == Put(m, i.a, fast_mul(Reg(m, i.b), upvalue_get(m, i.c)))
OP_NUMLTUP(m, i) == Put(m, i.a, fast_lt(Reg(m, i.b), upvalue_get(m, i.c)))
OP_NUMLEUP(m, i) == Put(m, i.a, fast_le(Reg(m, i.b), upvalue_get(m, i.c)))
OP_NUMGTUP(m, i) == Put(m, i.a, fast_gt(Reg(m, i.b), upvalue_get(m, i.c)))
OP_NUMGEUP(m, i) == Put(m, i.a, fast_ge(Reg(m, i.b), upvalue_get(m, i.c)))
OP_NUMEQUP(m, i) == Put(m, i.a, fast_eq(Reg(m, i.b), upvalue_get(m, i.c)))
OP_ISEQUP(m, i)  == Put(m, i.a, Eqv(m, Reg(m, i.b), upvalue_get(m, i.c)))

OP_ADDRETURN(m, i)   == PutReturn(m, i.a, fast_add(Reg(m, i.b), Reg(m, i.c)))
OP_SUBRETURN(m, i)   == PutReturn(m, i.a, fast_sub(Reg(m, i.b), Reg(m, i.c)))
OP_MULRETURN(m, i)   == PutReturn(m, i.a, fast_mul(Reg(m, i.b), Reg(m, i.c)))
OP_NUMLTRETURN(m, i) == PutReturn(m, i.a, fast_lt(Reg(m, i.b), Reg(m, i.c)))
OP_NUMLERETURN(m, i) == PutReturn(m, i.a, fast_le(Reg(m, i.b), Reg(m, i.c)))
OP_NUMGTRETURN(m, i) == PutReturn(m, i.a, fast_gt(Reg(m, i.b), Reg(m, i.c)))
OP_NUMGERETURN(m, i) == PutReturn(m, i.a, fast_ge(Reg(m, i.b), Reg(m, i.c)))
OP_NUMEQRETURN(m, i) == PutReturn(m, i.a, fast_eq(Reg(m, i.b), Reg(m, i.c)))
OP_ISEQRETURN(m, i)  == PutReturn(m, i.a, Eqv(m, Reg(m, i.b), Reg(m, i.c)))

OP_TESTFALSE(m, i) ==
  IF v_falsy(Reg(m, i.a)) THEN [m EXCEPT !.ip = @ + i.b] ELSE m

OP_TESTLT(m, i)   == Test(m, fast_lt(Reg(m, i.a), Reg(m, i.c)), i.b)
OP_TESTLE(m, i)   == Test(m, fast_le(Reg(m, i.a), Reg(m, i.c)), i.b)
OP_TESTGT(m, i)   == Test(m, fast_gt(Reg(m, i.a), Reg(m, i.c)), i.b)
OP_TESTGE(m, i)   == Test(m, fast_ge(Reg(m, i.a), Reg(m, i.c)), i.b)
OP_TESTEQ(m, i)   == Test(m, fast_eq(Reg(m, i.a), Reg(m, i.c)), i.b)
OP_TESTISEQ(m, i) == Test(m, Eqv(m, Reg(m, i.a), Reg(m, i.c)), i.b)

OP_TESTLTIMM(m, i)   == Test(m, fast_lt(Reg(m, i.a), v_int(i.c)), i.b)
OP_TESTLEIMM(m, i)   == Test(m, fast_le(Reg(m, i.a), v_int(i.c)), i.b)
OP_TESTGTIMM(m, i)   == Test(m, fast_gt(Reg(m, i.a), v_int(i.c)), i.b)
OP_TESTGEIMM(m, i)   == Test(m, fast_ge(Reg(m, i.a), v_int(i.c)), i.b)
OP_TESTEQIMM(m, i)   == Test(m, fast_eq(Reg(m, i.a), v_int(i.c)), i.b)
OP_TESTISEQIMM(m, i) == Test(m, v_bool(Reg(m, i.a) = v_int(i.c)), i.b)

OP_TESTLTUP(m, i)   == Test(m, fast_lt(Reg(m, i.a), upvalue_get(m, i.c)), i.b)
OP_TESTLEUP(m, i)   == Test(m, fast_le(Reg(m, i.a), upvalue_get(m, i.c)), i.b)
OP_TESTGTUP(m, i)   == Test(m, fast_gt(Reg(m, i.a), upvalue_get(m, i.c)), i.b)
OP_TESTGEUP(m, i)   == Test(m, fast_ge(Reg(m, i.a), upvalue_get(m, i.c)), i.b)
OP_TESTEQUP(m, i)   == Test(m, fast_eq(Reg(m, i.a), upvalue_get(m, i.c)), i.b)
OP_TESTISEQUP(m, i) == Test(m, Eqv(m, Reg(m, i.a), upvalue_get(m, i.c)), i.b)

-----------------------------------------------------------------------------
(* Counted loops, accessors and the unary numeric primitives               *)

OP_FORPREP(m, i) ==
  LET x == Reg(m, i.a)
      limit == Reg(m, i.c)
      skip == IF i.d > 0 THEN fast_gt(x, limit) ELSE fast_lt(x, limit)
  IN Test(m, IF skip = v_error THEN skip ELSE v_bool(v_falsy(skip)), i.b)

OP_FORLOOP(m, i) ==
  LET next_val == fast_add(Reg(m, i.a), v_int(i.d))
      n == Put(m, i.a, next_val)
      in_range == IF i.d > 0 THEN fast_le(next_val, Reg(n, i.c))
                  ELSE fast_ge(next_val, Reg(n, i.c))
  IN CASE next_val = v_error \/ in_range = v_error -> Abort(m)
       [] v_falsy(in_range) -> n
       [] OTHER -> [n EXCEPT !.ip = @ + i.b]

\* A builtin on one argument, as the instruction's fallback calls it.
Deopt(m, r, ok, result) == IF ok THEN Put(m, r, result) ELSE Abort(m)

\* The path of CXR is its code, lowest bit first: TRUE is a car.
exec_cxr(m, v, path) ==
  FoldLeft(LAMBDA x, car : IF Tag(x) = "pair" THEN Items(m, x)[IF car THEN 1 ELSE 2]
                           ELSE v_error, v, path)

OP_CXR(m, i) == Put(m, i.a, exec_cxr(m, Reg(m, i.b), i.c))

OP_ABS(m, i) ==
  LET v == Reg(m, i.b) IN
  IF IsInt(v) /\ v[2] # INT_MIN THEN Put(m, i.a, v_int(AbsInt(v[2])))
  ELSE Deopt(m, i.a, is_real_component(v), bi_abs(v))

OP_CMPZERO(m, i) ==
  LET v == Reg(m, i.b) IN
  IF IsInt(v)
  THEN Put(m, i.a, v_bool(CASE i.c = 0 -> v[2] = 0
                            [] i.c = 1 -> v[2] > 0
                            [] i.c = 2 -> v[2] < 0))
  ELSE Deopt(m, i.a, is_real_component(v),
             v_bool(CASE i.c = 0 -> bi_zero_p(v)
                      [] i.c = 1 -> bi_positive_p(v)
                      [] i.c = 2 -> bi_negative_p(v)))

-----------------------------------------------------------------------------
(* Vectors, bytevectors and strings                                        *)

Inside(m, obj, idx) == IsInt(idx) /\ idx[2] \in 0..(Len(Items(m, obj)) - 1)

\* (vector-ref obj idx), (bytevector-u8-ref ...), (string-ref ...).
Ref(m, r, tag, obj, idx) ==
  IF Tag(obj) = tag /\ Inside(m, obj, idx)
  THEN Put(m, r, Items(m, obj)[idx[2] + 1]) ELSE Abort(m)

\* What each kind of object can hold, and how it is stored.
Storable(tag, v) ==
  CASE tag = "vector" -> TRUE
    [] tag = "bytevector" -> IsInt(v) /\ v[2] \in 0..(ByteSize - 1)
    [] tag = "string" -> Tag(v) = "char"

Stored(tag, v) == IF tag = "string" THEN v_char(v[2] % ByteSize) ELSE v

Set(m, tag, obj, idx, v) ==
  IF Tag(obj) = tag /\ Inside(m, obj, idx) /\ Storable(tag, v)
  THEN [m EXCEPT !.heap[obj[2]][idx[2] + 1] = Stored(tag, v)]
  ELSE Abort(m)

\* The upvalue forms also leave the object in a register.
SetUp(m, i, tag) ==
  LET obj == upvalue_get(m, i.a)
      n == Set(m, tag, obj, Reg(m, i.b), Reg(m, i.c))
  IN IF n.err THEN n ELSE Put(n, i.d, obj)

Length(m, r, obj) ==
  IF Tag(obj) = "vector" THEN Put(m, r, v_int(Len(Items(m, obj)))) ELSE Abort(m)

OP_VECREF(m, i)    == Ref(m, i.a, "vector", Reg(m, i.b), Reg(m, i.c))
OP_VECREFIMM(m, i) == Ref(m, i.a, "vector", Reg(m, i.b), v_int(i.c))
OP_VECREFUP(m, i)  == Ref(m, i.a, "vector", upvalue_get(m, i.b), Reg(m, i.c))
OP_VECSET(m, i)    == Set(m, "vector", Reg(m, i.a), Reg(m, i.b), Reg(m, i.c))
OP_VECSETIMM(m, i) == Set(m, "vector", Reg(m, i.a), v_int(i.b), Reg(m, i.c))
OP_VECSETUP(m, i) == SetUp(m, i, "vector")
OP_VECLEN(m, i)    == Length(m, i.a, Reg(m, i.b))
OP_VECLENUP(m, i)  == Length(m, i.a, upvalue_get(m, i.b))
OP_BVREF(m, i)     == Ref(m, i.a, "bytevector", Reg(m, i.b), Reg(m, i.c))
OP_BVREFIMM(m, i)  == Ref(m, i.a, "bytevector", Reg(m, i.b), v_int(i.c))
OP_BVREFUP(m, i)   == Ref(m, i.a, "bytevector", upvalue_get(m, i.b), Reg(m, i.c))
OP_BVSET(m, i)     == Set(m, "bytevector", Reg(m, i.a), Reg(m, i.b), Reg(m, i.c))
OP_BVSETIMM(m, i)  == Set(m, "bytevector", Reg(m, i.a), v_int(i.b), Reg(m, i.c))
OP_BVSETUP(m, i)   == SetUp(m, i, "bytevector")
OP_STRREF(m, i)    == Ref(m, i.a, "string", Reg(m, i.b), Reg(m, i.c))
OP_STRREFIMM(m, i) == Ref(m, i.a, "string", Reg(m, i.b), v_int(i.c))
OP_STRREFUP(m, i)  == Ref(m, i.a, "string", upvalue_get(m, i.b), Reg(m, i.c))
OP_STRSET(m, i)    == Set(m, "string", Reg(m, i.a), Reg(m, i.b), Reg(m, i.c))
OP_STRSETIMM(m, i) == Set(m, "string", Reg(m, i.a), v_int(i.b), Reg(m, i.c))
OP_STRSETUP(m, i)  == SetUp(m, i, "string")

-----------------------------------------------------------------------------
(* case: a table of entries <<datum, target>> and a default when every     *)
(* datum is a fixnum, character, symbol, boolean or nil, a chain of        *)
(* CASEMATCH otherwise.  Nothing else in a register can be in the table.   *)

Hashable(v) == Tag(v) \in {"int", "char", "sym", "bool", "nil"}

\* Fault: a later entry for the same datum wins.
LastEntry(key, table) ==
  LET hits == {k \in DOMAIN table.entries : table.entries[k][1] = key} IN
  IF ~Hashable(key) \/ hits = {} THEN table.default
  ELSE table.entries[CHOOSE k \in hits : \A j \in hits : k >= j][2]

creme_case_dispatch(key, table) ==
  LET hits == {k \in DOMAIN table.entries : table.entries[k][1] = key} IN
  IF ~Hashable(key) \/ hits = {} THEN table.default
  ELSE table.entries[CHOOSE k \in hits : \A j \in hits : k <= j][2]

OP_CASEDISPATCH(m, i) ==
  [m EXCEPT !.ip = creme_case_dispatch(Reg(m, i.a), i.b)]

OP_CASEMATCH(m, i) ==
  Put(m, i.a, v_bool(\E k \in DOMAIN i.c : Eqv(m, Reg(m, i.b), i.c[k]) = v_bool(TRUE)))

-----------------------------------------------------------------------------
(* Quasiquotation.  The values of the holes were computed into consecutive *)
(* registers in depth-first order; here they are a sequence.  A template   *)
(* is <<"const", v>>, <<"hole">>, <<"splice">>, <<"list", items, tail>> or *)
(* <<"vector", items>>.  Building gives [m, idx, v], v_error if it aborts. *)

ListItems(m, v) ==
  LET RECURSIVE walk(_, _)
      walk(x, n) == IF Tag(x) # "pair" \/ n = 0 THEN <<>>
                    ELSE <<Items(m, x)[1]>> \o walk(Items(m, x)[2], n - 1)
  IN walk(v, Len(m.heap))

ListEnd(m, v) ==
  LET RECURSIVE walk(_, _)
      walk(x, n) == IF Tag(x) # "pair" \/ n = 0 THEN x ELSE walk(Items(m, x)[2], n - 1)
  IN walk(v, Len(m.heap))

RECURSIVE creme_build_qq(_, _, _, _)

\* b accumulates [m, idx, vs, ok].
qq_build_items(m, items, holes, idx) ==
  FoldLeft(LAMBDA b, item :
             IF ~b.ok THEN b
             ELSE IF item = <<"splice">>
             THEN [b EXCEPT !.idx = @ + 1,
                            !.vs = @ \o ListItems(b.m, holes[b.idx]),
                            !.ok = ListEnd(b.m, holes[b.idx]) = v_nil]
             ELSE LET q == creme_build_qq(b.m, item, holes, b.idx)
                  IN [m |-> q.m, idx |-> q.idx, vs |-> Append(b.vs, q.v), ok |-> q.v # v_error],
           [m |-> m, idx |-> idx, vs |-> <<>>, ok |-> TRUE], items)

Built(n, idx, ok) == [m |-> n.m, idx |-> idx, v |-> IF ok THEN n.v ELSE v_error]

QQ_LIST(m, t, holes, idx) ==
  LET b == qq_build_items(m, t[2], holes, idx)
      q == creme_build_qq(b.m, t[3], holes, b.idx)
  IN Built(ConsAll(q.m, b.vs, q.v), q.idx, b.ok /\ q.v # v_error)

QQ_VECTOR(m, t, holes, idx) ==
  LET b == qq_build_items(m, t[2], holes, idx)
  IN Built(New(b.m, "vector", b.vs), b.idx, b.ok)

creme_build_qq(m, t, holes, idx) ==
  CASE t[1] = "const" -> [m |-> m, idx |-> idx, v |-> t[2]]
    [] t[1] = "hole" -> [m |-> m, idx |-> idx + 1, v |-> holes[idx]]
    [] t[1] = "splice" -> [m |-> m, idx |-> idx, v |-> v_nil]
    [] t[1] = "vector" -> QQ_VECTOR(m, t, holes, idx)
    [] t[1] = "list" -> QQ_LIST(m, t, holes, idx)

OP_QUASIQUOTE(m, i) ==
  LET q == creme_build_qq(m, i.b, SubSeq(m.regs, i.c, Len(m.regs)), 1)
  IN IF q.v = v_error THEN Abort(m) ELSE Put(q.m, i.a, q.v)

-----------------------------------------------------------------------------
(* let-values and define-values                                            *)

\* The rest begins at value `first`.
Destructure(m, i, first) ==
  LET src == Reg(m, i.a)
      vals == IF Tag(src) = "values" THEN Items(m, src) ELSE <<src>>
      n == Len(vals)
      bound == [m EXCEPT !.regs = [r \in DOMAIN @ |->
                  IF r \in i.b..(i.b + i.c - 1) THEN vals[r - i.b + 1] ELSE @[r]]]
      rest == ConsAll(bound, SubSeq(vals, first, n), v_nil)
  IN CASE (~i.d /\ n # i.c) \/ n < i.c -> Abort(m)
       [] i.d -> Put(rest.m, i.b + i.c, rest.v)
       [] OTHER -> bound

OP_DESTRUCTURE(m, i) == Destructure(m, i, i.c + 1)

-----------------------------------------------------------------------------
(* define-record-type.  A form names its type, constructor with its        *)
(* fields, predicate, and for each field its accessor and perhaps its      *)
(* mutator ("" when it has none).  A callable is <<"callable", kind, type, *)
(* index>>, for a constructor with the sequence of its fields' indices.    *)

\* The field that the constructor's k-th argument goes to.
ctor_field_index(form, k) ==
  SelectInSeq(form.fields, LAMBDA f : f.name = form.args[k])

build_record_bindings(m, form) ==
  LET t == New(m, "rtype", <<>>)
      Named(name, v) == <<[name |-> name, v |-> v]>>
      Callables(k) ==
        LET f == form.fields[k] IN
        Named(f.accessor, <<"callable", "accessor", t.v, k>>) \o
        (IF f.mutator = "" THEN <<>>
         ELSE Named(f.mutator, <<"callable", "mutator", t.v, k>>))
      ctor == [k \in DOMAIN form.args |-> ctor_field_index(form, k)]
  IN [m |-> t.m,
      bindings |-> Named(form.type, t.v)
                   \o Named(form.ctor, <<"callable", "ctor", t.v, ctor, Len(form.fields)>>)
                   \o Named(form.pred, <<"callable", "pred", t.v>>)
                   \o FlattenSeq([k \in DOMAIN form.fields |-> Callables(k)])]

\* Every field of the constructor must be declared.
MalformedRecord(form) ==
  \E k \in DOMAIN form.args : \A j \in DOMAIN form.fields : form.fields[j].name # form.args[k]

\* A record is <<type, fields>>; the result is [m, v].
call_record_callable(m, rc, args) ==
  LET own == Len(args) > 0 /\ Tag(args[1]) = "record" /\ Items(m, args[1])[1] = rc[3]
      fail == [m |-> m, v |-> v_error]
  IN CASE rc[2] = "ctor" ->
            IF Len(args) # Len(rc[4]) THEN fail
            ELSE New(m, "record", <<rc[3], [f \in 1..rc[5] |->
                       LET ks == {k \in DOMAIN rc[4] : rc[4][k] = f}
                       IN IF ks = {} THEN v_nil
                          ELSE args[CHOOSE k \in ks : \A j \in ks : k >= j]]>>)
       [] rc[2] = "pred" -> IF Len(args) # 1 THEN fail ELSE [m |-> m, v |-> v_bool(own)]
       [] rc[2] = "accessor" ->
            IF Len(args) # 1 \/ ~own THEN fail
            ELSE [m |-> m, v |-> Items(m, args[1])[2][rc[4]]]
       [] rc[2] = "mutator" ->
            IF Len(args) # 2 \/ ~own THEN fail
            ELSE [m |-> [m EXCEPT !.heap[args[1][2]][2][rc[4]] = args[2]], v |-> v_nil]

\* import and define-library did their work when the program was emitted;
\* define-record-type binds its names, define-syntax and defmacro theirs.
OP_HELPERFORM(m, i) ==
  CASE i.c = 2 ->
         IF MalformedRecord(i.b) THEN Abort(m)
         ELSE LET rb == build_record_bindings(m, i.b)
              IN Put(FoldLeft(LAMBDA x, b : [x EXCEPT !.globals[b.name] = b.v], rb.m, rb.bindings),
                     i.a, <<"sym", i.b.type>>)
    [] i.c \in {3, 4} ->
         Put([m EXCEPT !.globals[i.b.type] = <<"macro">>], i.a, <<"sym", i.b.type>>)
    [] OTHER -> Put(m, i.a, v_nil)

OP_HELPERFORMLOCAL(m, i) ==
  IF MalformedRecord(i.b) THEN Abort(m)
  ELSE LET rb == build_record_bindings(m, i.b)
       IN [rb.m EXCEPT !.regs = [r \in DOMAIN @ |->
             IF r \in i.a..(i.a + Len(rb.bindings) - 1) THEN rb.bindings[r - i.a + 1].v
             ELSE @[r]]]

-----------------------------------------------------------------------------
(* The dispatch loop                                                       *)

\* Each fused instruction and the plain one it shortens.
ImmForm == [ADDIMM |-> "ADD", SUBIMM |-> "SUB", MULIMM |-> "MUL", NUMLTIMM |-> "NUMLT",
            NUMLEIMM |-> "NUMLE", NUMGTIMM |-> "NUMGT", NUMGEIMM |-> "NUMGE",
            NUMEQIMM |-> "NUMEQ", ISEQIMM |-> "ISEQ", VECREFIMM |-> "VECREF",
            BVREFIMM |-> "BVREF", STRREFIMM |-> "STRREF"]
UpForm == [ADDUP |-> "ADD", SUBUP |-> "SUB", MULUP |-> "MUL", NUMLTUP |-> "NUMLT",
           NUMLEUP |-> "NUMLE", NUMGTUP |-> "NUMGT", NUMGEUP |-> "NUMGE",
           NUMEQUP |-> "NUMEQ", ISEQUP |-> "ISEQ"]
ReturnForm == [ADDRETURN |-> "ADD", SUBRETURN |-> "SUB", MULRETURN |-> "MUL",
               NUMLTRETURN |-> "NUMLT", NUMLERETURN |-> "NUMLE", NUMGTRETURN |-> "NUMGT",
               NUMGERETURN |-> "NUMGE", NUMEQRETURN |-> "NUMEQ", ISEQRETURN |-> "ISEQ"]
TestForm == [TESTLT |-> "NUMLT", TESTLE |-> "NUMLE", TESTGT |-> "NUMGT",
             TESTGE |-> "NUMGE", TESTEQ |-> "NUMEQ", TESTISEQ |-> "ISEQ"]
TestImmForm == [TESTLTIMM |-> "NUMLT", TESTLEIMM |-> "NUMLE", TESTGTIMM |-> "NUMGT",
                TESTGEIMM |-> "NUMGE", TESTEQIMM |-> "NUMEQ", TESTISEQIMM |-> "ISEQ"]
TestUpForm == [TESTLTUP |-> "NUMLT", TESTLEUP |-> "NUMLE", TESTGTUP |-> "NUMGT",
               TESTGEUP |-> "NUMGE", TESTEQUP |-> "NUMEQ", TESTISEQUP |-> "ISEQ"]
RefUpForm == [VECREFUP |-> "VECREF", BVREFUP |-> "BVREF", STRREFUP |-> "STRREF",
              VECLENUP |-> "VECLEN"]
SetImmForm == [VECSETIMM |-> "VECSET", BVSETIMM |-> "BVSET", STRSETIMM |-> "STRSET"]
SetUpForm == [VECSETUP |-> "VECSET", BVSETUP |-> "BVSET", STRSETUP |-> "STRSET"]

creme_dispatch(m, op, i) ==
  CASE op = "LOADK" -> OP_LOADK(m, i) [] op = "LOADNIL" -> OP_LOADNIL(m, i)
    [] op = "LOADTRUE" -> OP_LOADTRUE(m, i) [] op = "LOADFALSE" -> OP_LOADFALSE(m, i)
    [] op = "MOVE" -> OP_MOVE(m, i) [] op = "GETUPVAL" -> OP_GETUPVAL(m, i)
    [] op = "SETUPVAL" -> SetUpvalue(m, i) [] op = "THROW" -> OP_THROW(m, i)
    [] op = "JMP" -> OP_JMP(m, i) [] op = "NOT" -> OP_NOT(m, i)
    [] op = "ISNULL" -> OP_ISNULL(m, i) [] op = "ISPAIR" -> OP_ISPAIR(m, i)
    [] op = "CONS" -> OP_CONS(m, i) [] op = "MAKEPROMISE" -> OP_MAKEPROMISE(m, i)
    [] op = "GETGLOBAL" -> OP_GETGLOBAL(m, i) [] op = "SETGLOBAL" -> OP_SETGLOBAL(m, i)
    [] op = "RETURN" -> OP_RETURN(m, i) [] op = "RETURNUPVAL" -> OP_RETURNUPVAL(m, i)
    [] op = "RETURNGLOBAL" -> OP_RETURNGLOBAL(m, i) [] op = "ADD" -> OP_ADD(m, i)
    [] op = "SUB" -> OP_SUB(m, i) [] op = "MUL" -> OP_MUL(m, i)
    [] op = "NUMLT" -> OP_NUMLT(m, i) [] op = "NUMLE" -> OP_NUMLE(m, i)
    [] op = "NUMGT" -> OP_NUMGT(m, i) [] op = "NUMGE" -> OP_NUMGE(m, i)
    [] op = "NUMEQ" -> OP_NUMEQ(m, i) [] op = "ISEQ" -> OP_ISEQ(m, i)
    [] op = "ADDIMM" -> OP_ADDIMM(m, i) [] op = "SUBIMM" -> OP_SUBIMM(m, i)
    [] op = "NUMLTIMM" -> OP_NUMLTIMM(m, i) [] op = "NUMLEIMM" -> OP_NUMLEIMM(m, i)
    [] op = "NUMGTIMM" -> OP_NUMGTIMM(m, i) [] op = "NUMGEIMM" -> OP_NUMGEIMM(m, i)
    [] op = "NUMEQIMM" -> OP_NUMEQIMM(m, i) [] op = "ISEQIMM" -> OP_ISEQIMM(m, i)
    [] op = "MULIMM" -> OP_MULIMM(m, i) [] op = "ADDUP" -> OP_ADDUP(m, i)
    [] op = "SUBUP" -> OP_SUBUP(m, i) [] op = "MULUP" -> OP_MULUP(m, i)
    [] op = "NUMLTUP" -> OP_NUMLTUP(m, i) [] op = "NUMLEUP" -> OP_NUMLEUP(m, i)
    [] op = "NUMGTUP" -> OP_NUMGTUP(m, i) [] op = "NUMGEUP" -> OP_NUMGEUP(m, i)
    [] op = "NUMEQUP" -> OP_NUMEQUP(m, i) [] op = "ISEQUP" -> OP_ISEQUP(m, i)
    [] op = "ADDRETURN" -> OP_ADDRETURN(m, i) [] op = "SUBRETURN" -> OP_SUBRETURN(m, i)
    [] op = "MULRETURN" -> OP_MULRETURN(m, i) [] op = "NUMLTRETURN" -> OP_NUMLTRETURN(m, i)
    [] op = "NUMLERETURN" -> OP_NUMLERETURN(m, i) [] op = "NUMGTRETURN" -> OP_NUMGTRETURN(m, i)
    [] op = "NUMGERETURN" -> OP_NUMGERETURN(m, i) [] op = "NUMEQRETURN" -> OP_NUMEQRETURN(m, i)
    [] op = "ISEQRETURN" -> OP_ISEQRETURN(m, i) [] op = "TESTFALSE" -> OP_TESTFALSE(m, i)
    [] op = "TESTLT" -> OP_TESTLT(m, i) [] op = "TESTLE" -> OP_TESTLE(m, i)
    [] op = "TESTGT" -> OP_TESTGT(m, i) [] op = "TESTGE" -> OP_TESTGE(m, i)
    [] op = "TESTEQ" -> OP_TESTEQ(m, i) [] op = "TESTISEQ" -> OP_TESTISEQ(m, i)
    [] op = "TESTLTIMM" -> OP_TESTLTIMM(m, i) [] op = "TESTLEIMM" -> OP_TESTLEIMM(m, i)
    [] op = "TESTGTIMM" -> OP_TESTGTIMM(m, i) [] op = "TESTGEIMM" -> OP_TESTGEIMM(m, i)
    [] op = "TESTEQIMM" -> OP_TESTEQIMM(m, i) [] op = "TESTISEQIMM" -> OP_TESTISEQIMM(m, i)
    [] op = "TESTLTUP" -> OP_TESTLTUP(m, i) [] op = "TESTLEUP" -> OP_TESTLEUP(m, i)
    [] op = "TESTGTUP" -> OP_TESTGTUP(m, i) [] op = "TESTGEUP" -> OP_TESTGEUP(m, i)
    [] op = "TESTEQUP" -> OP_TESTEQUP(m, i) [] op = "TESTISEQUP" -> OP_TESTISEQUP(m, i)
    [] op = "FORPREP" -> OP_FORPREP(m, i) [] op = "FORLOOP" -> OP_FORLOOP(m, i)
    [] op = "CXR" -> OP_CXR(m, i) [] op = "ABS" -> OP_ABS(m, i)
    [] op = "CMPZERO" -> OP_CMPZERO(m, i) [] op = "VECREF" -> OP_VECREF(m, i)
    [] op = "VECREFIMM" -> OP_VECREFIMM(m, i) [] op = "VECREFUP" -> OP_VECREFUP(m, i)
    [] op = "VECSET" -> OP_VECSET(m, i) [] op = "VECSETIMM" -> OP_VECSETIMM(m, i)
    [] op = "VECSETUP" -> OP_VECSETUP(m, i) [] op = "VECLEN" -> OP_VECLEN(m, i)
    [] op = "VECLENUP" -> OP_VECLENUP(m, i) [] op = "BVREF" -> OP_BVREF(m, i)
    [] op = "BVREFIMM" -> OP_BVREFIMM(m, i) [] op = "BVREFUP" -> OP_BVREFUP(m, i)
    [] op = "BVSET" -> OP_BVSET(m, i) [] op = "BVSETIMM" -> OP_BVSETIMM(m, i)
    [] op = "BVSETUP" -> OP_BVSETUP(m, i) [] op = "STRREF" -> OP_STRREF(m, i)
    [] op = "STRREFIMM" -> OP_STRREFIMM(m, i) [] op = "STRREFUP" -> OP_STRREFUP(m, i)
    [] op = "STRSET" -> OP_STRSET(m, i) [] op = "STRSETIMM" -> OP_STRSETIMM(m, i)
    [] op = "STRSETUP" -> OP_STRSETUP(m, i) [] op = "CASEDISPATCH" -> OP_CASEDISPATCH(m, i)
    [] op = "CASEMATCH" -> OP_CASEMATCH(m, i) [] op = "QUASIQUOTE" -> OP_QUASIQUOTE(m, i)
    [] op = "DESTRUCTURE" -> OP_DESTRUCTURE(m, i) [] op = "HELPERFORM" -> OP_HELPERFORM(m, i)
    [] op = "HELPERFORMLOCAL" -> OP_HELPERFORMLOCAL(m, i)

Running(m) == ~m.err /\ m.ret = NoValue

Run(m, program) ==
  FoldLeft(LAMBDA n, p : IF Running(n) THEN creme_dispatch(n, p[1], p[2]) ELSE n, m, program)

\* What the compiler emits in place of a fused instruction.
Expansion(op, i) ==
  CASE op \in DOMAIN ImmForm ->
         << <<"LOADK", Ins(T1, v_int(i.c), 0, 0)>>, <<ImmForm[op], Ins(i.a, i.b, T1, 0)>> >>
    [] op \in DOMAIN UpForm ->
         << <<"GETUPVAL", Ins(T1, i.c, 0, 0)>>, <<UpForm[op], Ins(i.a, i.b, T1, 0)>> >>
    [] op \in DOMAIN ReturnForm ->
         << <<ReturnForm[op], i>>, <<"RETURN", i>> >>
    [] op \in DOMAIN TestForm ->
         << <<TestForm[op], Ins(T1, i.a, i.c, 0)>>, <<"TESTFALSE", Ins(T1, i.b, 0, 0)>> >>
    [] op \in DOMAIN TestImmForm ->
         << <<"LOADK", Ins(T2, v_int(i.c), 0, 0)>>, <<TestImmForm[op], Ins(T1, i.a, T2, 0)>>,
            <<"TESTFALSE", Ins(T1, i.b, 0, 0)>> >>
    [] op \in DOMAIN TestUpForm ->
         << <<"GETUPVAL", Ins(T2, i.c, 0, 0)>>, <<TestUpForm[op], Ins(T1, i.a, T2, 0)>>,
            <<"TESTFALSE", Ins(T1, i.b, 0, 0)>> >>
    [] op \in DOMAIN RefUpForm ->
         << <<"GETUPVAL", Ins(T1, i.b, 0, 0)>>, <<RefUpForm[op], Ins(i.a, T1, i.c, 0)>> >>
    [] op \in DOMAIN SetImmForm ->
         << <<"LOADK", Ins(T1, v_int(i.b), 0, 0)>>, <<SetImmForm[op], Ins(i.a, T1, i.c, 0)>> >>
    [] op \in DOMAIN SetUpForm ->
         << <<"GETUPVAL", Ins(T1, i.a, 0, 0)>>, <<SetUpForm[op], Ins(T1, i.b, i.c, 0)>>,
            <<"MOVE", Ins(i.d, T1, 0, 0)>> >>
    [] op = "RETURNUPVAL" ->
         << <<"GETUPVAL", Ins(T1, i.a, 0, 0)>>, <<"RETURN", Ins(T1, 0, 0, 0)>> >>
    [] op = "RETURNGLOBAL" ->
         << <<"GETGLOBAL", Ins(T1, i.a, 0, 0)>>, <<"RETURN", Ins(T1, 0, 0, 0)>> >>

Imm == {-1, 0, 2}
R == 1..NR
Name == {"g", "make-g", "g?", "g-x", "set-g-x!"}

Fused ==
  ((DOMAIN ImmForm) \X {Ins(a, b, c, 0) : a \in R, b \in R, c \in Imm})
  \cup ((DOMAIN UpForm) \X {Ins(a, b, 1, 0) : a \in R, b \in R})
  \cup ((DOMAIN ReturnForm) \X {Ins(1, b, c, 0) : b \in R, c \in R})
  \cup ((DOMAIN TestForm) \X {Ins(a, 1, c, 0) : a \in R, c \in R})
  \cup ((DOMAIN TestImmForm) \X {Ins(a, 1, c, 0) : a \in R, c \in Imm})
  \cup ((DOMAIN TestUpForm) \X {Ins(a, 1, 1, 0) : a \in R})
  \cup ((DOMAIN RefUpForm) \X {Ins(a, 1, c, 0) : a \in R, c \in R})
  \cup ((DOMAIN SetImmForm) \X {Ins(a, b, c, 0) : a \in R, b \in Imm, c \in R})
  \cup ((DOMAIN SetUpForm) \X {Ins(1, b, c, d) : b \in R, c \in R, d \in R})
  \cup {<<"RETURNUPVAL", Ins(1, 0, 0, 0)>>, <<"RETURNGLOBAL", Ins("g", 0, 0, 0)>>}

\* A point has a mutable field that its constructor is not given first.
Forms ==
  {[type |-> "g", ctor |-> "make-g", pred |-> "g?", args |-> args,
    fields |-> <<[name |-> "x", accessor |-> "g-x", mutator |-> "set-g-x!"],
                 [name |-> "y", accessor |-> "g-y", mutator |-> ""]>>] :
     args \in {<<>>, <<"y">>, <<"y", "x">>, <<"z">>}}

Tables ==
  {[entries |-> << <<v_int(1), 10>>, <<v_bool(FALSE), 20>>, <<v_int(1), 30>>,
                   <<v_char(1), 40>>, <<v_nil, 50>> >>, default |-> 60]}

Templates ==
  LET leaf == {<<"const", v_nil>>, <<"hole">>}
      item == leaf \cup {<<"splice">>} \cup {<<"vector", << <<"splice">>, h>> >> : h \in leaf}
  IN {<<"list", <<x, y>>, z>> : x \in item, y \in item, z \in leaf}

Plain ==
  {<<op, Ins(a, b, c, 0)>> : op \in {"ADD", "SUB", "MUL", "NUMLT", "NUMLE", "NUMGT", "NUMGE",
     "NUMEQ", "ISEQ", "CONS", "VECREF", "VECSET", "BVREF", "BVSET", "STRREF", "STRSET"},
     a \in {1}, b \in R, c \in R}
  \cup {<<op, Ins(a, b, 0, 0)>> : op \in {"MOVE", "NOT", "ISNULL", "ISPAIR", "VECLEN",
     "MAKEPROMISE"}, a \in R, b \in R}
  \cup {<<op, Ins(a, 1, 0, 0)>> : op \in {"LOADNIL", "LOADTRUE", "LOADFALSE", "GETUPVAL",
     "RETURN", "JMP", "THROW", "TESTFALSE"}, a \in R}
  \cup {<<"LOADK", Ins(2, v_int(1), 0, 0)>>, <<"GETGLOBAL", Ins(1, "g", 0, 0)>>,
        <<"SETUPVAL", Ins(1, 2, 0, 0)>>, <<"SETGLOBAL", Ins("g", 1, 0, 0)>>,
        <<"ABS", Ins(1, 2, 0, 0)>>, <<"CMPZERO", Ins(1, 2, 1, 0)>>,
        <<"CXR", Ins(1, 2, <<FALSE, TRUE>>, 0)>>,
        <<"FORPREP", Ins(1, 1, 2, 1)>>, <<"FORLOOP", Ins(1, -1, 2, 1)>>,
        <<"CASEMATCH", Ins(1, 2, <<v_int(1), v_nil>>, 0)>>,
        <<"DESTRUCTURE", Ins(1, 1, 1, TRUE)>>}
  \cup {<<"HELPERFORM", Ins(1, f, c, 0)>> : f \in Forms, c \in {0, 2, 4}}
  \cup {<<"HELPERFORMLOCAL", Ins(1, f, 0, 0)>> : f \in Forms}
  \cup {<<"CASEDISPATCH", Ins(2, t, 0, 0)>> : t \in Tables}
  \cup {<<"QUASIQUOTE", Ins(2, t, 1, 0)>> : t \in Templates}

Small(v) == IsNumber(v) => Tag(v) \in {"int", "bigint"} /\ AbsInt(v[2]) <= INT_MAX + 2

\* Temporaries are dead between instructions, and what an instruction
\* jumped over is another instruction like it.
Settle(m) ==
  [m EXCEPT !.regs = [r \in DOMAIN @ |-> IF r \in R THEN @[r] ELSE v_nil], !.ip = 0]

OpsInit == cpu \in Start /\ executed = 0

Dispatch(op, i) ==
  /\ Running(cpu) /\ executed < MaxProgram
  /\ executed' = executed + 1
  /\ \E m \in {creme_dispatch(cpu, op, i)} :
       /\ Len(m.heap) <= MaxHeap
       /\ \A r \in R : Small(m.regs[r])
       /\ cpu' = Settle(m)

OpsNext == \E p \in Plain \cup Fused : Dispatch(p[1], p[2])

-----------------------------------------------------------------------------
(* Properties                                                              *)

SameFrame(x, y) ==
  \/ x.err /\ y.err
  \/ /\ ~x.err /\ ~y.err
     /\ \A r \in R : x.regs[r] = y.regs[r]
     /\ <<x.ups, x.heap, x.globals, x.ip, x.ret>> = <<y.ups, y.heap, y.globals, y.ip, y.ret>>

\* Every fused instruction of the dispatch loop does to the frame what the
\* plain instructions it stands for do, aborts included, whatever is in the
\* registers, with operands that name the same register too.  MULIMM alone
\* needs a fixnum.
FusedMeansPlain ==
  Running(cpu) =>
    \A p \in Fused :
      (p[1] = "MULIMM" => IsInt(Reg(cpu, p[2].b))) =>
        SameFrame(creme_dispatch(cpu, p[1], p[2]), Run(cpu, Expansion(p[1], p[2])))

\* ABS, CMPZERO and CXR give what the builtins they replace give, at the
\* smallest fixnum and for numbers that are not fixnums.
PrimitivesMeanBuiltins ==
  Running(cpu) =>
    \A r \in R :
      LET v == Reg(cpu, r)
          Compared(c) == CASE c = 0 -> num_eq(v, v_int(0)) [] c = 1 -> num_gt(v, v_int(0)) [] c = 2 -> num_lt(v, v_int(0))
      IN /\ is_real_component(v) =>
              /\ OP_ABS(cpu, Ins(1, r, 0, 0)).regs[1] = bi_abs(v)
              /\ \A c \in 0..2 : OP_CMPZERO(cpu, Ins(1, r, c, 0)).regs[1] = v_bool(Compared(c))
         /\ \A x, y \in BOOLEAN :
              SameFrame(OP_CXR(cpu, Ins(1, r, <<x, y>>, 0)),
                        OP_CXR(OP_CXR(cpu, Ins(1, r, <<x>>, 0)), Ins(1, 1, <<y>>, 0)))

\* A counted loop runs its body once for each value of its counter up to and
\* including its limit, though the last increment leaves the fixnums.
Exact(v) == Tag(v) \in {"int", "bigint"}

LoopCounts ==
  Running(cpu) /\ Exact(Reg(cpu, 1)) /\ Exact(Reg(cpu, 2)) =>
    \A d \in {1, -1, 2} :
      LET from == Reg(cpu, 1)[2]
          to == Reg(cpu, 2)[2]
          m0 == OP_FORPREP([cpu EXCEPT !.ip = 0], Ins(1, 1, 2, d))
          body[k \in Nat] ==   \* bodies run from here, the counter having moved k times
            LET m == OP_FORLOOP([cpu EXCEPT !.ip = 0, !.regs[1] = make_bigint_from_mpz(from + k * d)],
                                Ins(1, -1, 2, d))
            IN IF m.ip = -1 THEN 1 + body[k + 1] ELSE 1
          wanted == {k \in 0..(4 * INT_MAX + 4) :
                       IF d > 0 THEN from + k * d <= to ELSE from + k * d >= to}
      IN (IF m0.ip = 1 THEN 0 ELSE body[0]) = Cardinality(wanted)

\* The table that case compiles to selects the clause that testing the
\* data in order with eqv? selects.
CaseMeansEqv ==
  Running(cpu) =>
    \A t \in Tables, r \in R :
      LET hit == {k \in DOMAIN t.entries :
                    Reg(OP_CASEMATCH(cpu, Ins(T1, r, <<t.entries[k][1]>>, 0)), T1) = v_bool(TRUE)}
      IN OP_CASEDISPATCH(cpu, Ins(r, t, 0, 0)).ip =
           IF hit = {} THEN t.default
           ELSE t.entries[CHOOSE k \in hit : \A j \in hit : k <= j][2]

\* An object as the template built it: below address `old` nothing is new.
RECURSIVE Datum(_, _, _)
Datum(m, v, old) ==
  LET RECURSIVE spine(_)
      spine(x) == IF Tag(x) = "pair" /\ x[2] > old THEN <<x>> \o spine(Items(m, x)[2]) ELSE <<>>
      pairs == spine(v)
  IN CASE pairs # <<>> ->
            <<"list", [k \in DOMAIN pairs |-> Datum(m, Items(m, pairs[k])[1], old)],
              Items(m, Last(pairs))[2]>>
       [] Tag(v) = "vector" /\ v[2] > old ->
            <<"vec", [k \in DOMAIN Items(m, v) |-> Datum(m, Items(m, v)[k], old)]>>
       [] OTHER -> <<"atom", v>>

\* What quasiquote means: the holes are numbered from left to right, and a
\* list is the appending of its parts to its tail, a hole or a constant.
RECURSIVE Holes(_)
Holes(t) ==
  CASE t[1] = "const" -> 0
    [] t[1] \in {"hole", "splice"} -> 1
    [] t[1] = "vector" -> FoldLeft(LAMBDA n, x : n + Holes(x), 0, t[2])

RECURSIVE Meaning(_, _, _, _)
Meaning(m, t, holes, from) ==
  LET At(k) == FoldLeft(LAMBDA n, x : n + Holes(x), from, SubSeq(t[2], 1, k - 1))
      Part(k) == LET spliced == ListItems(m, holes[At(k)]) IN
                 IF t[2][k] = <<"splice">>
                 THEN [j \in DOMAIN spliced |-> <<"atom", spliced[j]>>]
                 ELSE <<Meaning(m, t[2][k], holes, At(k))>>
      Parts == FlattenSeq([k \in DOMAIN t[2] |-> Part(k)])
  IN CASE t[1] = "const" -> <<"atom", t[2]>>
       [] t[1] = "hole" -> <<"atom", holes[from]>>
       [] t[1] = "vector" -> <<"vec", Parts>>
       [] t[1] = "list" ->
            LET tail == Meaning(m, t[3], holes, At(Len(t[2]) + 1))
            IN IF Parts = <<>> THEN tail ELSE <<"list", Parts, tail[2]>>

\* QUASIQUOTE builds what the template means: each hole goes where it stands
\* and each spliced list in its place, at every nesting, and it aborts
\* exactly when something spliced is not a list.
QuasiquoteMeans ==
  Running(cpu) =>
    \A t \in Templates :
      LET holes == <<Reg(cpu, 1), Reg(cpu, 2), Reg(cpu, 1), Reg(cpu, 2), v_nil>>
          m == [cpu EXCEPT !.regs = holes]
          got == OP_QUASIQUOTE(m, Ins(5, t, 1, 0))
          Spliced(from, x) == IF x = <<"splice">> \/ x[1] = "vector" THEN {from} ELSE {}
          spliced == Spliced(1, t[2][1]) \cup Spliced(1 + Holes(t[2][1]), t[2][2])
      IN /\ got.err <=> \E h \in spliced : ListEnd(m, holes[h]) # v_nil
         /\ ~got.err => Datum(got, Reg(got, 5), Len(m.heap)) = Meaning(m, t, holes, 1)

\* let-values spreads a list of values over its variables, and the rest
\* variable gets all that are left.
ValuesSpread ==
  Running(cpu) =>
    \A n \in 0..2, fixed \in 0..1, rest \in BOOLEAN :
      LET made == New(cpu, "values", SubSeq(<<Reg(cpu, 1), Reg(cpu, 2)>>, 1, n))
          m == Put(made.m, T2, made.v)
          got == OP_DESTRUCTURE(m, Ins(T2, 1, fixed, rest))
      IN /\ got.err <=> (n < fixed \/ (~rest /\ n # fixed))
         /\ ~got.err =>
              SubSeq(got.regs, 1, fixed) \o (IF rest THEN ListItems(got, Reg(got, fixed + 1)) ELSE <<>>)
                = SubSeq(<<Reg(cpu, 1), Reg(cpu, 2)>>, 1, n)

\* A record gives back through each accessor what the constructor or the
\* last mutator put in that field, nil when neither did; its callables
\* refuse the records of a type made by running the same definition again.
RecordsKeepFields ==
  Running(cpu) =>
    \A form \in {f \in Forms : ~MalformedRecord(f)} :
      LET rb == build_record_bindings(cpu, form)
          again == build_record_bindings(rb.m, form)
          F(bs, name) == LET k == CHOOSE k \in DOMAIN bs : bs[k].name = name IN bs[k].v
          own == rb.bindings
          args == [k \in DOMAIN form.args |-> <<"sym", form.args[k]>>]
          made == call_record_callable(again.m, F(own, "make-g"), args)
          Given(f) == IF f \in {form.args[k] : k \in DOMAIN form.args} THEN <<"sym", f>> ELSE v_nil
          Got(m, name) == call_record_callable(m, F(own, name), <<made.v>>).v
          set == call_record_callable(made.m, F(own, "set-g-x!"), <<made.v, Reg(cpu, 1)>>)
      IN /\ Got(made.m, "g-x") = Given("x") /\ Got(made.m, "g-y") = Given("y")
         /\ Got(set.m, "g-x") = Reg(cpu, 1) /\ Got(set.m, "g-y") = Given("y")
         /\ Got(made.m, "g?") = v_bool(TRUE)
         /\ call_record_callable(made.m, F(again.bindings, "g?"), <<made.v>>).v = v_bool(FALSE)
         /\ call_record_callable(made.m, F(again.bindings, "g-x"), <<made.v>>).v = v_error

\* The compact instructions of the dispatch loop (creme_dispatch) do what the
\* procedures, instructions and forms they stand for do.
InstructionsMean ==
  /\ FusedMeansPlain /\ PrimitivesMeanBuiltins
  /\ LoopCounts /\ CaseMeansEqv /\ QuasiquoteMeans /\ ValuesSpread /\ RecordsKeepFields

=============================================================================
