------------------------------- MODULE Control -------------------------------
(***************************************************************************)
(* Non-local control in icecreme: guard (OP_PUSHHANDLER and its setjmp),   *)
(* raise, raise-continuable, error and with-exception-handler, call/cc,    *)
(* dynamic-wind and parameterize (vm.c and builtins.c).  What a program    *)
(* has entered is kept twice: as activations on the C stack, that return   *)
(* one by one or are cut off by a longjmp, and in the arrays of the VM:    *)
(* the guard handlers, the unwind stack and the exception handlers.        *)
(*                                                                         *)
(* vm.c is what the program is inside of, outermost first: each run of     *)
(* creme_dispatch, each builtin that called creme_apply and waits, and     *)
(* each guard and parameterize form of the run below it.  Everything       *)
(* entered, and every condition raised, has a number.  A program is any    *)
(* sequence of what Scheme code can do next; the habits in Habit are ones  *)
(* that it may or may not have.                                            *)
(***************************************************************************)
EXTENDS Integers, Sequences, FiniteSets

CONSTANTS CREME_HANDLERS_CAP, CREME_UNWIND_CAP, CREME_EXC_HANDLERS_CAP,
          MaxEntries,   \* things entered and conditions raised
          MaxStack,     \* length of vm.c
          Habit         \* a subset of the habits below

VARIABLES vm

\* escape_guard: calls a continuation from inside a guard that is inside
\* its call/cc.  guard_in_after: uses guard in the after thunk of a
\* dynamic-wind that an error unwinds.  guard_in_test: uses guard while a
\* clause of another one is being chosen.  leave_handler: leaves a handler
\* of with-exception-handler for a point inside its thunk.  reenter_left:
\* calls, in the after thunk of a dynamic-wind that an escape unwinds, a
\* continuation whose call/cc is inside that dynamic-wind.  fill_unwind:
\* calls with-exception-handler when the unwind stack is full.
Habits == {"escape_guard", "guard_in_after", "guard_in_test", "leave_handler",
           "reenter_left", "fill_unwind"}

ASSUME HabitAssumption == Habit \subseteq Habits

ASSUME CapAssumption ==
  /\ CREME_HANDLERS_CAP \in Nat /\ CREME_UNWIND_CAP \in Nat /\ CREME_EXC_HANDLERS_CAP \in Nat
  /\ MaxEntries \in Nat

NoHandler == [id |-> 0, depth |-> 0, mark |-> 0]

top == Len(vm.c)
Top(v) == v.c[Len(v.c)]

\* Something is entered: with it, what the arrays held then.
Entry(v, kind, id) ==
  [kind |-> kind, id |-> id, phase |-> "", ref |-> 0, want |-> 0,
   depth |-> v.depth, mark |-> Len(v.unwind), excs |-> v.nexc, guards |-> v.nh]

Enter(v, a) == [v EXCEPT !.c = Append(@, a)]
CutTo(v, j) == [v EXCEPT !.c = SubSeq(@, 1, j - 1)]
Pop(v) == CutTo(v, Len(v.c))

PushUnwind(v, what, id, saved) ==
  [v EXCEPT !.unwind = Append(@, [what |-> what, id |-> id, saved |-> saved])]
PopUnwind(v) == [v EXCEPT !.unwind = SubSeq(@, 1, Len(@) - 1)]

PushExc(v, id) == [v EXCEPT !.exc[v.nexc + 1] = id, !.nexc = @ + 1]

\* A new entry takes the next number.
Fresh(v) == v.n + 1
Numbered(v) == [v EXCEPT !.n = @ + 1]

\* creme_apply of a thunk: a frame, and a dispatch loop that ends when it returns.
RunThunk(v) == [Enter(v, Entry(v, "run", 0)) EXCEPT !.depth = @ + 1]

-----------------------------------------------------------------------------
(* Unwinding                                                               *)

\* after is counted as it is called.
CallAfter(v, id) == RunThunk([v EXCEPT !.after[id] = @ + 1])

run_unwind_action(v, a) ==
  IF a.what = "wind" THEN CallAfter(v, a.id)
  ELSE IF a.what = "weh" THEN [v EXCEPT !.nexc = a.saved]
  ELSE [v EXCEPT !.param = a.saved]

Unwind(v) == run_unwind_action(PopUnwind(v), v.unwind[Len(v.unwind)])

\* The guards whose handlers are installed, and those that were jumped to.
Installed(a) == a.kind = "guard" /\ a.ref = 0
Draining(a) == a.kind = "guard" /\ a.ref # 0

\* Where the guard of the innermost handler is.
Catching(v) == {j \in DOMAIN v.c : Installed(v.c[j]) /\ v.c[j].id = v.handlers[v.nh].id}

\* The longjmp: the guard's creme_dispatch must still be there.
creme_raise_condition(v, cond) ==
  LET w == [v EXCEPT !.nh = @ - 1, !.pending = cond]
      j == CHOOSE j \in Catching(v) : TRUE
  IN IF Catching(v) = {} THEN [w EXCEPT !.bad = TRUE]
     ELSE Enter(CutTo(w, j), [v.c[j] EXCEPT !.ref = v.nh, !.want = cond])

raise_uncaught_or_to_guard(v, cond) ==
  IF v.nh > 0 THEN creme_raise_condition(v, cond) ELSE [v EXCEPT !.exited = TRUE]

\* OP_PUSHHANDLER once it is resumed: drain, then go to the clauses.  It
\* reads the handler's slot again after every action it has run.
ResumeGuard(v) ==
  LET a == Top(v)
      h == v.handlers[a.ref]
      w == [Pop(v) EXCEPT !.depth = h.depth]
  IN IF Len(v.unwind) > h.mark THEN Unwind(v)
     ELSE IF h.id # a.id \/ v.pending # a.want THEN [v EXCEPT !.bad = TRUE]
     ELSE Enter(w, Entry(w, "tests", v.pending))

Waiting(v, k) == {j \in DOMAIN v.c : v.c[j].kind = "callcc" /\ v.c[j].id = k}

\* invoke_continuation: drain, then jump to the setjmp of bi_call_cc, which
\* returns.
invoke_continuation(v) ==
  LET j == CHOOSE j \in Waiting(v, Top(v).ref) : TRUE
  IN IF Len(v.unwind) > v.c[j].mark THEN Unwind(v)
     ELSE [CutTo(v, j) EXCEPT !.depth = v.c[j].depth]

-----------------------------------------------------------------------------
(* What Scheme code can do                                                 *)

Scheme(v) ==
  /\ ~v.bad /\ ~v.exited
  /\ Top(v).kind \in {"run", "param", "tests"} \/ Installed(Top(v))

OP_PUSHHANDLER(v) ==
  Enter([Numbered(v) EXCEPT !.nh = @ + 1,
          !.handlers[v.nh + 1] = [id |-> Fresh(v), depth |-> v.depth, mark |-> Len(v.unwind)]],
       Entry(v, "guard", Fresh(v)))

\* Fault: leaving a guard forgets one handler too many.
PopTwo(v) == [Pop(v) EXCEPT !.nh = IF @ > 1 THEN @ - 2 ELSE @ - 1]

OP_POPHANDLER(v) == [Pop(v) EXCEPT !.nh = @ - 1]

OP_GUARDRERAISE(v) ==
  IF v.pending # Top(v).id THEN [v EXCEPT !.bad = TRUE]
  ELSE raise_uncaught_or_to_guard(Pop(v), v.pending)

OP_PARAMPUSH(v) ==
  Enter([PushUnwind(Numbered(v), "param", Fresh(v), v.param) EXCEPT !.param = Fresh(v)],
       Entry(v, "param", Fresh(v)))

OP_PARAMPOP(v) == Unwind(Pop(v))

bi_call_cc(v) == RunThunk(Enter(Numbered(v), Entry(v, "callcc", Fresh(v))))

\* Its before thunk is called first.
bi_dynamic_wind(v) ==
  RunThunk(Enter(Numbered(v), [Entry(v, "wind", Fresh(v)) EXCEPT !.phase = "before"]))

\* The handler is installed before the room for its action is looked at.
bi_with_exception_handler(v) ==
  LET w == PushExc(Numbered(v), Fresh(v))
  IN IF Len(v.unwind) >= CREME_UNWIND_CAP THEN raise_uncaught_or_to_guard(w, Fresh(v))
     ELSE RunThunk(Enter(PushUnwind(w, "weh", Fresh(v), v.nexc), Entry(v, "weh", Fresh(v))))

\* The handler is popped while it runs.
CallHandler(v, phase) ==
  LET a == [Entry(v, "raise", Fresh(v)) EXCEPT !.ref = v.exc[v.nexc], !.phase = phase]
  IN RunThunk(Enter([Numbered(v) EXCEPT !.nexc = @ - 1], a))

bi_raise(v) ==
  IF v.nexc = 0 THEN raise_uncaught_or_to_guard(Numbered(v), Fresh(v)) ELSE CallHandler(v, "raise")

bi_raise_continuable(v) ==
  IF v.nexc = 0 THEN raise_uncaught_or_to_guard(Numbered(v), Fresh(v))
  ELSE CallHandler(v, "continuable")

bi_error(v) == raise_uncaught_or_to_guard(Numbered(v), Fresh(v))

\* The thunks of dynamic-wind return: before, the thunk itself, after.
WindGoesOn(v, a) ==
  LET next(phase) == [a EXCEPT !.phase = phase] IN
  IF a.phase = "before" THEN RunThunk(PushUnwind(Enter(Pop(v), next("thunk")), "wind", a.id, 0))
  ELSE IF a.phase = "thunk" THEN CallAfter(PopUnwind(Enter(Pop(v), next("after"))), a.id)
  ELSE Pop(v)

RaiseGoesOn(v, a) ==
  LET w == PushExc(Pop(v), a.ref)
  IN IF a.phase = "continuable" THEN w ELSE raise_uncaught_or_to_guard(w, a.id)

\* The frame returned: the builtin that waits for it goes on.
ThunkReturns(v) ==
  LET w == [Pop(v) EXCEPT !.depth = Top(v).depth]
      a == Top(w)
  IN IF a.kind = "callcc" THEN Pop(w)
     ELSE IF a.kind = "wind" THEN WindGoesOn(w, a)
     ELSE IF a.kind = "weh" THEN [PopUnwind(Pop(w)) EXCEPT !.nexc = a.excs]
     ELSE IF a.kind = "raise" THEN RaiseGoesOn(w, a)
     ELSE w     \* an after thunk that unwinding called

-----------------------------------------------------------------------------
(* Which programs are considered.  An array that is full is an error, like *)
(* any that Error stands for.                                              *)

\* A jump to j leaves no handler running that was installed before j.
KeepsHandlers(v, j) == \A i \in j .. Len(v.c) : v.c[i].excs >= v.c[j].excs

\* Nothing that j is inside of has been unwound.
Surrounded(v, j) ==
  /\ \A i \in j .. Len(v.c) : v.c[i].mark >= v.c[j].mark
  /\ Len(v.unwind) >= v.c[j].mark

MayRaise(v) ==
  "leave_handler" \in Habit \/ v.nh = 0 \/ \A j \in Catching(v) : KeepsHandlers(v, j)

MayGuard(v) ==
  /\ v.nh < CREME_HANDLERS_CAP
  /\ "guard_in_after" \in Habit \/ \A j \in DOMAIN v.c : ~ Draining(v.c[j])
  /\ "guard_in_test" \in Habit \/ \A j \in DOMAIN v.c : v.c[j].kind # "tests"

MayInstall(v) ==
  /\ v.nexc < CREME_EXC_HANDLERS_CAP
  /\ Len(v.unwind) < CREME_UNWIND_CAP \/ ("fill_unwind" \in Habit /\ MayRaise(v))

\* A continuation is only ever called while its call/cc is waiting.
MayEscape(v, k) ==
  \E j \in Waiting(v, k) :
    /\ "leave_handler" \in Habit \/ KeepsHandlers(v, j)
    /\ "reenter_left" \in Habit \/ Surrounded(v, j)
    /\ "escape_guard" \in Habit \/ \A i \in j .. Len(v.c) : ~ Installed(v.c[i])

MayReturn(v) ==
  LET a == v.c[Len(v.c) - 1] IN
  /\ a.kind = "raise" /\ a.phase = "raise" => MayRaise(Pop(Pop(v)))
  /\ a.kind = "wind" /\ a.phase = "before" => Len(v.unwind) < CREME_UNWIND_CAP

ControlInit ==
  vm = [c |-> <<[kind |-> "run", id |-> 0, phase |-> "", ref |-> 0, want |-> 0,
                 depth |-> 0, mark |-> 0, excs |-> 0, guards |-> 0]>>,
        depth |-> 1, n |-> 0,
        handlers |-> [k \in 1 .. CREME_HANDLERS_CAP |-> NoHandler], nh |-> 0,
        exc |-> [k \in 1 .. CREME_EXC_HANDLERS_CAP |-> 0], nexc |-> 0,
        unwind |-> <<>>, param |-> 0, pending |-> 0,
        after |-> [k \in 1 .. MaxEntries |-> 0], bad |-> FALSE, exited |-> FALSE]

Room == vm.n < MaxEntries /\ top + 2 <= MaxStack

Guard        == Scheme(vm) /\ Room /\ MayGuard(vm) /\ vm' = OP_PUSHHANDLER(vm)
LeaveGuard   == Scheme(vm) /\ Installed(Top(vm)) /\ vm' = OP_POPHANDLER(vm)
TakeClause   == Scheme(vm) /\ Top(vm).kind = "tests" /\ vm' = Pop(vm)
Reraise      == Scheme(vm) /\ Top(vm).kind = "tests" /\ MayRaise(Pop(vm)) /\ vm' = OP_GUARDRERAISE(vm)
Parameterize == /\ Scheme(vm) /\ Room /\ Len(vm.unwind) < CREME_UNWIND_CAP
                /\ vm' = OP_PARAMPUSH(vm)
LeaveParams  == Scheme(vm) /\ Top(vm).kind = "param" /\ vm' = OP_PARAMPOP(vm)
CallCC       == Scheme(vm) /\ Room /\ vm' = bi_call_cc(vm)
Wind         == Scheme(vm) /\ Room /\ vm' = bi_dynamic_wind(vm)
WithHandler  == Scheme(vm) /\ Room /\ MayInstall(vm) /\ vm' = bi_with_exception_handler(vm)
Raise        == Scheme(vm) /\ Room /\ MayRaise(vm) /\ vm' \in {bi_raise(vm), bi_raise_continuable(vm)}
Error        == Scheme(vm) /\ Room /\ MayRaise(vm) /\ vm' = bi_error(vm)
Return       == /\ Scheme(vm) /\ Top(vm).kind = "run" /\ top > 1 /\ MayReturn(vm)
                /\ vm' = ThunkReturns(vm)
EscapeOut    == /\ Scheme(vm) /\ top < MaxStack
                /\ \E k \in 1 .. vm.n :
                     MayEscape(vm, k) /\ vm' = Enter(vm, [Entry(vm, "escape", 0) EXCEPT !.ref = k])
DrainGuard   == ~vm.bad /\ Draining(Top(vm)) /\ vm' = ResumeGuard(vm)
DrainEscape  == ~vm.bad /\ Top(vm).kind = "escape" /\ vm' = invoke_continuation(vm)

ControlNext ==
  \/ Guard \/ LeaveGuard \/ TakeClause \/ Reraise \/ Parameterize \/ LeaveParams
  \/ CallCC \/ Wind \/ WithHandler \/ Raise \/ Error \/ Return \/ EscapeOut
  \/ DrainGuard \/ DrainEscape

ControlSpec == ControlInit /\ [][ControlNext]_vm

-----------------------------------------------------------------------------
(* Properties                                                              *)

\* The entries of vm.c that have an action on the unwind stack.
Unwound(a) == a.kind \in {"param", "weh"} \/ (a.kind = "wind" /\ a.phase = "thunk")

\* The handlers of with-exception-handler that are not running.
Handling(a) == a.kind = "weh" /\ \A j \in DOMAIN vm.c : ~ (vm.c[j].kind = "raise" /\ vm.c[j].ref = a.id)

Those(P(_)) == {j \in DOMAIN vm.c : P(vm.c[j])}

\* The n ids of s are those of the entries S, in their order.
Mirrors(s, n, S) ==
  n = Cardinality(S) /\ \A j \in S : s[Cardinality({i \in S : i <= j})] = vm.c[j].id

Ids(s) == [k \in DOMAIN s |-> s[k].id]

IsParam(a) == a.kind = "param"

Settled == ~vm.bad /\ \A j \in DOMAIN vm.c : vm.c[j].kind # "escape" /\ ~ Draining(vm.c[j])

\* Whenever nothing is being unwound, the unwind stack holds exactly the
\* parameterize, dynamic-wind and with-exception-handler forms that the
\* program is inside of, the parameter has the value of the innermost one,
\* and the exception handlers are those installed and not now running:
\* however the program came out of the others.
ExtentsMirrored ==
  Settled =>
    /\ Mirrors(Ids(vm.unwind), Len(vm.unwind), Those(Unwound))
    /\ IF Those(IsParam) = {} THEN vm.param = 0
       ELSE \E j \in Those(IsParam) : vm.param = vm.c[j].id /\ \A i \in Those(IsParam) : i <= j
    /\ Mirrors(vm.exc, vm.nexc, Those(Handling))

\* Then the guards installed are those whose bodies are running, and there
\* is one frame for every dispatch loop.
GuardsMirrored ==
  Settled =>
    /\ Mirrors(Ids(vm.handlers), vm.nh, Those(Installed))
    /\ vm.depth = Cardinality({j \in DOMAIN vm.c : vm.c[j].kind = "run"})

\* A raised condition arrives at the guard it was raised to, in a dispatch
\* loop that has not returned, as itself; and what a guard raises again is
\* what it caught.
ResumesRight == ~vm.bad

\* The after thunk of a dynamic-wind is called once its thunk is left, by
\* return, error or continuation, and only once.
AfterOnce ==
  \A id \in 1 .. vm.n :
    /\ vm.after[id] <= 1
    /\ (\E k \in DOMAIN vm.unwind : vm.unwind[k].what = "wind" /\ vm.unwind[k].id = id) => vm.after[id] = 0
    /\ (\E j \in DOMAIN vm.c : vm.c[j].kind = "wind" /\ vm.c[j].id = id /\ vm.c[j].phase = "after")
         => vm.after[id] = 1

\* Whatever mixture of returns, raises, guards, handlers, escapes and dynamic-wind
\* a program runs, the stacks of the VM mirror the extents it is in, each after
\* thunk runs once, and each condition is handled by the guard it belongs to.
ControlMirrored == ExtentsMirrored /\ GuardsMirrored /\ AfterOnce /\ ResumesRight

=============================================================================
