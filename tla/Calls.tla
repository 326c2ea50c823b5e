-------------------------------- MODULE Calls --------------------------------
(***************************************************************************)
(* Procedure calls in icecreme (vm.c): the one register stack on which     *)
(* every frame has a window, argument binding, tail calls that reuse the   *)
(* window, closures whose upvalues point into a window until its frame is  *)
(* gone, case-lambda, and creme_apply, by which a builtin runs Scheme code *)
(* in a dispatch loop of its own.                                          *)
(*                                                                         *)
(* A chunk has its variables (parameters and rest list) in the first       *)
(* registers and one register for a callee and MaxArgs for arguments above *)
(* them.  The program is any sequence of instructions over the chunks of   *)
(* Code.  Values are tuples tagged by their first element.  Next to the    *)
(* machine runs what Scheme means: every variable of every activation is a *)
(* location of its own in env, and closures capture locations.             *)
(***************************************************************************)
EXTENDS Integers, Sequences, SequencesExt, FiniteSets, Sublists

CONSTANTS Code,           \* name -> [params, rest, captures, protos]
          stack_cap, frames_cap,
          MaxArgs, MaxCalls, MaxClosures, MaxAssignments, MaxGuards,
          SharedSetters   \* is a variable of several closures assigned after it left the stack?

VARIABLES cm

ASSUME BoundsAssumption ==
  /\ {stack_cap, frames_cap, MaxArgs, MaxCalls, MaxClosures, MaxAssignments, MaxGuards} \subseteq Nat
  /\ SharedSetters \in BOOLEAN

callVars == <<cm>>

number(i) == <<0, i>>
v_closure(id) == <<1, id>>
v_list(items) == <<2>> \o items
v_case_closure(ids) == <<3>> \o ids
bi_first == <<4, 1>>    \* a builtin that returns its first argument
bi_call  == <<4, 2>>    \* a builtin that calls its first argument

nvars(c) == Code[c].params + (IF Code[c].rest THEN 1 ELSE 0)
num_registers(c) == nvars(c) + 1 + MaxArgs

\* What the compiler resolves: a procedure captures variables of the one it
\* is in, or what that one has captured; main is in none.
ASSUME CodeAssumption ==
  /\ \A c \in DOMAIN Code :
       Code[c] \in [params : Nat, rest : BOOLEAN, captures : Seq(BOOLEAN \X Nat), protos : Seq(DOMAIN Code)]
  /\ \A c \in DOMAIN Code : \A p \in Range(Code[c].protos) : \A i \in DOMAIN Code[p].captures :
       LET d == Code[p].captures[i] IN d[2] < (IF d[1] THEN nvars(c) ELSE Len(Code[c].captures))
  /\ "main" \in DOMAIN Code /\ nvars("main") = 0 /\ Code["main"].captures = <<>>
  /\ num_registers("main") <= stack_cap

frame(m) == Last(m.frames)

-----------------------------------------------------------------------------
(* Upvalues                                                                *)

upval_value(m, u) == IF m.ups[u].slot >= 0 THEN m.stack[m.ups[u].slot] ELSE m.ups[u].closed

\* Its value is taken out of the register.
upvalue_close(m, u) ==
  IF m.ups[u].slot >= 0 THEN [m.ups[u] EXCEPT !.slot = -1, !.closed = m.stack[m.ups[u].slot]] ELSE m.ups[u]

\* Of the frames above position h.
close_upvalues(m, h) ==
  [m EXCEPT !.ups = [u \in DOMAIN m.ups |->
                       IF \E k \in DOMAIN m.frames : k > h /\ u \in Range(m.frames[k].opened)
                       THEN upvalue_close(m, u) ELSE m.ups[u]],
            !.frames = [k \in DOMAIN m.frames |->
                          IF k > h THEN [m.frames[k] EXCEPT !.opened = <<>>] ELSE m.frames[k]]]

frame_add_opened(m, us) == [m EXCEPT !.frames[Len(m.frames)].opened = @ \o us]

\* The i-th captured variable is a new upvalue on the frame's register, or
\* the closure's own.  Own are the positions of the first kind.
Own(c) == {i \in DOMAIN Code[c].captures : Code[c].captures[i][1]}
Opened(f, d) == [slot |-> f.base + d[2], closed |-> <<2>>, var |-> f.vars[d[2] + 1]]

make_closure(m, c) ==
  LET f == frame(m)
      captures == Code[c].captures
      n == Cardinality(Own(c))
      opening == [j \in 1..n |-> Opened(f, Sublist(captures, Own(c))[j])]
      Number(i) == CHOOSE j \in 1..n : InOrder(Own(c))[j] = i
      upvalues == [i \in DOMAIN captures |->
                     IF captures[i][1] THEN Len(m.ups) + Number(i)
                     ELSE m.clos[f.closure].upvalues[captures[i][2] + 1]]
  IN frame_add_opened([m EXCEPT !.ups = @ \o opening,
                                !.clos = Append(@, [chunk |-> c, upvalues |-> upvalues])],
                      [j \in 1..n |-> Len(m.ups) + j])

-----------------------------------------------------------------------------
(* Binding arguments                                                       *)

\* n registers are copied one by one, upwards: into the source, what was
\* copied is copied again.
CopyUp(stack, to, from, n) ==
  [r \in DOMAIN stack |->
     IF r - to \notin 0..(n - 1) THEN stack[r]
     ELSE IF to <= from THEN stack[from + (r - to)] ELSE stack[from + ((r - to) % (to - from))]]

accepts(c, nargs) == IF Code[c].rest THEN nargs >= Code[c].params ELSE nargs = Code[c].params

\* The fixed arguments are copied, then the rest is consed up from where it
\* was: in a tail call both windows overlap.
bind_args(stack, c, nargs, new_base, arg_base) ==
  LET fixed == Code[c].params
      s == CopyUp(stack, new_base, arg_base, fixed)
  IN IF ~Code[c].rest THEN s
     ELSE [s EXCEPT ![new_base + fixed] =
             v_list([i \in 1..(nargs - fixed) |-> s[arg_base + fixed + i - 1]])]

\* What the parameters of c mean.
Meant(c, args) ==
  SubSeq(args, 1, Code[c].params) \o
    (IF Code[c].rest THEN <<v_list(SubSeq(args, Code[c].params + 1, Len(args)))>> ELSE <<>>)

\* New variables, one for each parameter.
WithVariables(m, c, args) == [m EXCEPT !.env = @ \o Meant(c, args)]
NewVars(m, c) == [i \in 1..nvars(c) |-> Len(m.env) + i]

-----------------------------------------------------------------------------
(* Calls and returns                                                       *)

\* creme_abort: to the innermost guard, or out.
creme_abort(m) ==
  IF m.handlers = <<>> THEN [m EXCEPT !.exited = TRUE]
  ELSE LET h == Last(m.handlers)
       IN [close_upvalues(m, h) EXCEPT !.frames = SubSeq(@, 1, h), !.handlers = Front(@)]

\* The result, in a register of the frame; a variable if it is one.
Store(m, reg, v) ==
  LET f == frame(m) IN
  [m EXCEPT !.stack[f.base + reg] = v,
            !.env = IF reg < nvars(f.chunk) THEN [@ EXCEPT ![f.vars[reg + 1]] = v] ELSE @]

\* What a builtin that ran does with its result is left to BuiltinReturns.
deliver_return(m, v) ==
  LET f == frame(m)
      w == [close_upvalues(m, Len(m.frames) - 1) EXCEPT !.frames = Front(@)]
  IN IF f.reentrant THEN [w EXCEPT !.result = Append(@, [value |-> v, wait |-> f.wait])]
     ELSE Store(w, f.return_reg, v)

NoWait == [reg |-> 0, tail |-> FALSE]

Push(m, c, cl, base, reg, args, reentrant, wait) ==
  LET w == WithVariables(m, c, args) IN
  [w EXCEPT !.frames = Append(@, [chunk |-> c, base |-> base, closure |-> cl, return_reg |-> reg,
                                  opened |-> <<>>, vars |-> NewVars(m, c),
                                  reentrant |-> reentrant, wait |-> wait])]

NextBase(m) == frame(m).base + num_registers(frame(m).chunk)

Full(m, c, base) == base + num_registers(c) > stack_cap

\* Fault: a tail call overwrites registers that closures still look at.
TailKeepsOpen(m, cl, args, reg, arg_base) ==
  LET c == m.clos[cl].chunk
      k == Len(m.frames)
      w == [m EXCEPT !.stack = bind_args(@, c, Len(args), frame(m).base, arg_base)]
  IN IF Full(m, c, frame(m).base) \/ ~accepts(c, Len(args)) THEN creme_abort(m)
     ELSE [WithVariables(w, c, args) EXCEPT !.frames[k] = [@ EXCEPT !.chunk = c, !.closure = cl, !.vars = NewVars(m, c)]]

\* The tail-call half of dispatch_call; try_self_tail_call does the same
\* when the closure is the one that runs.
TailClosure(m, cl, args, reg, arg_base) ==
  LET c == m.clos[cl].chunk
      k == Len(m.frames)
      closed == close_upvalues(m, k - 1)
      w == [closed EXCEPT !.stack = bind_args(@, c, Len(args), frame(m).base, arg_base)]
  IN IF Full(m, c, frame(m).base) THEN creme_abort(m)
     ELSE IF ~accepts(c, Len(args)) THEN creme_abort(closed)
     ELSE [WithVariables(w, c, args) EXCEPT !.frames[k] = [@ EXCEPT !.chunk = c, !.closure = cl, !.vars = NewVars(m, c)]]

\* The arguments are bound before the depth is checked.
CallClosure(m, cl, args, reg, arg_base) ==
  LET c == m.clos[cl].chunk
      w == [m EXCEPT !.stack = bind_args(@, c, Len(args), NextBase(m), arg_base)]
  IN IF Full(m, c, NextBase(m)) \/ ~accepts(c, Len(args)) THEN creme_abort(m)
     ELSE IF Len(m.frames) >= frames_cap THEN creme_abort(w)
     ELSE Push(w, c, cl, NextBase(m), reg, args, FALSE, NoWait)

\* The first clause that takes this many arguments; 0 if there is none.
select_clause(m, ids, nargs) ==
  LET k == SelectInSeq(ids, LAMBDA id : accepts(m.clos[id].chunk, nargs))
  IN IF k = 0 THEN 0 ELSE ids[k]

\* From C: the arguments are copied from the builtin's array.
creme_apply(m, fn, args, wait) ==
  LET cl == CASE fn[1] = 1 -> fn[2]
              [] fn[1] = 3 -> select_clause(m, Tail(fn), Len(args))
              [] OTHER -> 0
      c == m.clos[cl].chunk
      vals == Meant(c, args)
      w == [m EXCEPT !.stack = [r \in DOMAIN @ |->
              IF r - NextBase(m) \in 0..(nvars(c) - 1) THEN vals[r - NextBase(m) + 1] ELSE @[r]]]
  IN CASE fn = bi_first -> [m EXCEPT !.result = Append(@, [value |-> IF args = <<>> THEN number(0) ELSE args[1],
                                                           wait |-> wait])]
       [] fn # bi_first /\ cl = 0 -> creme_abort(m)
       [] cl > 0 /\ (Full(m, c, NextBase(m)) \/ ~accepts(c, Len(args))) -> creme_abort(m)
       [] OTHER -> IF Len(m.frames) >= frames_cap THEN creme_abort(w)
                   ELSE Push(w, c, cl, NextBase(m), 0, args, TRUE, wait)

creme_run_loaded_chunk(m, wait) ==
  IF Full(m, "main", NextBase(m)) \/ Len(m.frames) >= frames_cap THEN creme_abort(m)
  ELSE Push(m, "main", 0, NextBase(m), 0, <<>>, TRUE, wait)

dispatch_call(m, callee, args, reg, tail) ==
  LET arg_base == frame(m).base + nvars(frame(m).chunk) + 1
      Closure(cl) == IF tail THEN TailClosure(m, cl, args, reg, arg_base)
                     ELSE CallClosure(m, cl, args, reg, arg_base)
      wait == [reg |-> reg, tail |-> tail]
  IN CASE callee[1] = 1 -> Closure(callee[2])
       [] callee = bi_first -> creme_apply(m, bi_first, args, wait)
       [] callee = bi_call -> IF args = <<>> THEN creme_abort(m)
                              ELSE creme_apply(m, args[1], Tail(args), wait)
       [] callee[1] = 3 -> LET cl == select_clause(m, Tail(callee), Len(args))
                           IN IF cl = 0 THEN creme_abort(m) ELSE Closure(cl)
       [] OTHER -> creme_abort(m)      \* not a procedure

-----------------------------------------------------------------------------
(* Programs                                                                *)

CallsInit ==
  cm = [stack |-> [r \in 0..(stack_cap - 1) |-> <<2>>],
        frames |-> <<[chunk |-> "main", base |-> 0, closure |-> 0, return_reg |-> 0, opened |-> <<>>,
                      vars |-> <<>>, reentrant |-> TRUE, wait |-> NoWait]>>,
        ups |-> <<>>, clos |-> <<>>, handlers |-> <<>>, result |-> <<>>,
        env |-> <<>>, exited |-> FALSE, ncalls |-> 0, nsets |-> 0]

Runs == ~cm.exited /\ cm.result = <<>> /\ cm.frames # <<>>

chunk == frame(cm).chunk
Variables == 0..(nvars(chunk) - 1)
\* Where results go: the first variable or the callee's register.
Targets == {0, nvars(chunk)}

Upvalues == IF frame(cm).closure = 0 THEN <<>> ELSE cm.clos[frame(cm).closure].upvalues

\* A callee is in a variable, behind an upvalue or in a global.
Callees ==
  {cm.stack[frame(cm).base + r] : r \in Variables} \cup {upval_value(cm, Upvalues[i]) : i \in DOMAIN Upvalues}
    \cup {v_closure(k) : k \in DOMAIN cm.clos} \cup {bi_first, bi_call}
    \cup {v_case_closure(<<1, k>>) : k \in 2..Len(cm.clos)}

\* Arguments that can be told apart, or a closure and then such ones.
Arguments ==
  UNION {LET ints == [i \in 1..n |-> number(i)] IN
         {ints} \cup (IF n = 0 THEN {} ELSE {[ints EXCEPT ![1] = v_closure(k)] : k \in DOMAIN cm.clos})
         : n \in 0..MaxArgs}

\* The instructions of a call: the arguments are loaded into their
\* registers, then OP_CALL, OP_CALLLOCAL, OP_CALLUPVAL, OP_CALLGLOBAL or
\* their tail forms find the callee.
LoadArgs(m, args) ==
  LET a == frame(m).base + nvars(frame(m).chunk)
  IN [m EXCEPT !.stack = [r \in DOMAIN @ |-> IF r - a \in DOMAIN args THEN args[r - a] ELSE @[r]],
               !.ncalls = @ + 1]

Guarded == cm.handlers # <<>> /\ Last(cm.handlers) = Len(cm.frames)

Call ==
  /\ Runs /\ cm.ncalls < MaxCalls
  /\ \E callee \in Callees, args \in Arguments, reg \in Targets :
       cm' = dispatch_call(LoadArgs(cm, args), callee, args, reg, FALSE)

\* There are no tail calls in the body of a guard.
TailCall ==
  /\ Runs /\ cm.ncalls < MaxCalls /\ ~Guarded
  /\ \E callee \in Callees, args \in Arguments :
       cm' = dispatch_call(LoadArgs(cm, args), callee, args, 0, TRUE)

LoadChunk ==
  /\ Runs /\ cm.ncalls < MaxCalls
  /\ cm' = creme_run_loaded_chunk([cm EXCEPT !.ncalls = @ + 1], [reg |-> nvars(chunk), tail |-> FALSE])

Ret ==
  /\ Runs /\ ~Guarded
  /\ cm' = deliver_return(cm, cm.stack[frame(cm).base])

\* The builtin whose callback returned: its own result.
BuiltinReturns ==
  /\ ~cm.exited /\ cm.result # <<>> /\ cm.frames # <<>>
  /\ LET x == Last(cm.result)
         m == [cm EXCEPT !.result = Front(@)]
     IN cm' = IF x.wait.tail THEN deliver_return(m, x.value) ELSE Store(m, x.wait.reg, x.value)

OP_CLOSURE ==
  /\ Runs /\ Len(cm.clos) < MaxClosures
  /\ \E p \in Range(Code[chunk].protos), reg \in Targets :
       cm' = Store(make_closure(cm, p), reg, v_closure(Len(cm.clos) + 1))

Assigning == Runs /\ cm.nsets < MaxAssignments

AssignLocal ==
  /\ Assigning
  /\ \E r \in Variables : cm' = [Store(cm, r, number(-1)) EXCEPT !.nsets = @ + 1]

\* No other upvalue stands for the variable of u.
Alone(u) == \A w \in DOMAIN cm.ups : cm.ups[w].var = cm.ups[u].var => w = u

OP_SETUPVAL ==
  /\ Assigning
  /\ \E i \in DOMAIN Upvalues :
       LET u == Upvalues[i]
           x == cm.ups[u].var
           v == number(-1)
       IN /\ SharedSetters \/ Alone(u) \/ cm.ups[u].slot >= 0
          /\ cm' = [cm EXCEPT !.ups[u].closed = IF cm.ups[u].slot >= 0 THEN @ ELSE v,
                              !.stack = IF cm.ups[u].slot >= 0 THEN [@ EXCEPT ![cm.ups[u].slot] = v] ELSE @,
                              !.env[x] = v, !.nsets = @ + 1]

InstallGuard == Runs /\ Len(cm.handlers) < MaxGuards /\ cm' = [cm EXCEPT !.handlers = Append(@, Len(cm.frames))]
RemoveGuard  == Runs /\ Guarded /\ cm' = [cm EXCEPT !.handlers = Front(@)]
Fails        == Runs /\ Len(cm.handlers) > 0 /\ cm' = creme_abort(cm)

CallsNext ==
  \/ Call \/ TailCall \/ LoadChunk \/ Ret \/ BuiltinReturns \/ OP_CLOSURE \/ AssignLocal \/ OP_SETUPVAL
  \/ InstallGuard \/ RemoveGuard \/ Fails

-----------------------------------------------------------------------------
(* Properties                                                              *)

Window(f) == f.base..(f.base + num_registers(f.chunk) - 1)

\* The windows of the frames do not overlap and lie on the stack, and an
\* upvalue is open exactly as long as the frame whose variable it is has
\* it on its list, where it points to that variable's register.
WindowsApart ==
  /\ \A k \in DOMAIN cm.frames :
       /\ Window(cm.frames[k]) \subseteq 0..(stack_cap - 1)
       /\ k > 1 => cm.frames[k].base = cm.frames[k - 1].base + num_registers(cm.frames[k - 1].chunk)
  /\ \A u \in DOMAIN cm.ups :
       cm.ups[u].slot >= 0 <=>
         \E k \in DOMAIN cm.frames :
           /\ u \in Range(cm.frames[k].opened)
           /\ \E r \in 1..nvars(cm.frames[k].chunk) :
                cm.ups[u].slot = cm.frames[k].base + r - 1 /\ cm.ups[u].var = cm.frames[k].vars[r]

\* The registers of every activation hold the values of its variables:
\* arguments arrive at their parameters whatever windows overlap, and no
\* call, return or failure of another activation touches them.
RegistersAreVariables ==
  \A k \in DOMAIN cm.frames :
    \A r \in 1..nvars(cm.frames[k].chunk) :
      cm.stack[cm.frames[k].base + r - 1] = cm.env[cm.frames[k].vars[r]]

\* What a closure sees of a captured variable is its value, while the
\* frame runs and after it is gone.
UpvaluesAreVariables == \A u \in DOMAIN cm.ups : upval_value(cm, u) = cm.env[cm.ups[u].var]

\* Registers and upvalues of vm.c hold what the program's variables hold, however
\* frames are pushed, replaced and left.
VariablesKept == WindowsApart /\ RegistersAreVariables /\ UpvaluesAreVariables

=============================================================================
