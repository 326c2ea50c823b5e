------------------------------ MODULE CallsProofs ------------------------------
(***************************************************************************)
(* For any code, any stack and any number of calls, closures, assignments  *)
(* and guards: the registers of an activation hold its variables and those *)
(* of no other, and an upvalue its variable's value after the frame is     *)
(* gone as before.                                                         *)
(*                                                                         *)
(* The argument: windows follow one another on the stack, all variables of *)
(* all running frames are different, and every open upvalue is on the list *)
(* of the frame in whose window its slot is (Sound), so that whatever      *)
(* removes or replaces a frame and closes that list leaves no upvalue      *)
(* behind that points into the next window.  In the other direction, no    *)
(* variable of a frame that runs on has an upvalue that is closed          *)
(* (GoneUpTo): its registers are still where it is assigned.               *)
(***************************************************************************)
EXTENDS Calls, SublistProofs

CallsSpec == CallsInit /\ [][CallsNext]_callVars

Item(n) == {number(i) : i \in Int} \cup {v_closure(id) : id \in 1 .. n}

\* What a register, a variable or a result may hold when there are n closures.
Value(n) == Item(n) \cup {v_list(q) : q \in Seq(Item(n))}

Wait == [reg : Nat, tail : BOOLEAN]
Result(n) == [value : Value(n), wait : Wait]
FrameRecord ==
  [chunk : DOMAIN Code, base : Nat, closure : Nat, return_reg : Nat, opened : Seq(Nat),
   vars : Seq(Nat), reentrant : BOOLEAN, wait : Wait]
Upvalue(n) == [slot : Int, closed : Value(n), var : Nat]
Closure == [chunk : DOMAIN Code, upvalues : Seq(Nat)]

Machine(n) ==
  [stack : [0 .. stack_cap - 1 -> Value(n)], frames : Seq(FrameRecord), ups : Seq(Upvalue(n)), clos : Seq(Closure),
   handlers : Seq(Nat), result : Seq(Result(n)), env : Seq(Value(n)),
   exited : BOOLEAN, ncalls : Nat, nsets : Nat]

\* What the proof looks at of a machine.
Depth(m) == Len(m.frames)
ChunkOf(m, k) == m.frames[k].chunk
Base(m, k) == m.frames[k].base
Count(m, k) == nvars(m.frames[k].chunk)
End(m, k) == m.frames[k].base + num_registers(m.frames[k].chunk)
Reg(m, k, r) == m.frames[k].base + r - 1
VarOf(m, k, r) == m.frames[k].vars[r]
OpenOn(m, k, u) == \E i \in 1 .. Len(m.frames[k].opened) : m.frames[k].opened[i] = u
OnStack(m, x) == m.stack[x]
Known(m) == Len(m.env)
InEnv(m, x) == m.env[x]
Opens(m) == Len(m.ups)
Slot(m, u) == m.ups[u].slot
Name(m, u) == m.ups[u].var
Shut(m, u) == m.ups[u].closed

\* Windows follow one another on the stack.
Layout(m) ==
  /\ \A k \in 1 .. Depth(m) : End(m, k) <= stack_cap
  /\ \A k \in 2 .. Depth(m) : Base(m, k) = End(m, k - 1)
  /\ \A k, l \in 1 .. Depth(m) : k < l => End(m, k) <= Base(m, l)

\* A frame has variables of its own in its first registers.
Variabled(m) ==
  /\ \A k \in 1 .. Depth(m) : Len(m.frames[k].vars) = Count(m, k)
  /\ \A k \in 1 .. Depth(m) : \A r \in 1 .. Count(m, k) :
       VarOf(m, k, r) \in 1 .. Known(m) /\ OnStack(m, Reg(m, k, r)) = InEnv(m, VarOf(m, k, r))
  /\ \A k, l \in 1 .. Depth(m) : \A r \in 1 .. Count(m, k) : \A s \in 1 .. Count(m, l) :
       VarOf(m, k, r) = VarOf(m, l, s) => k = l /\ r = s

\* An open upvalue is on the list of the frame whose variable it stands for;
\* one that is closed holds the value.
Upvalued(m) ==
  /\ \A u \in 1 .. Opens(m) :
       /\ Name(m, u) \in 1 .. Known(m)
       /\ Slot(m, u) >= 0 => \E k \in 1 .. Depth(m) : OpenOn(m, k, u)
       /\ Slot(m, u) < 0 => SharedSetters \/ Shut(m, u) = InEnv(m, Name(m, u))
  /\ \A k \in 1 .. Depth(m) : \A u \in Nat : OpenOn(m, k, u) =>
       /\ u \in 1 .. Opens(m)
       /\ \E r \in 1 .. Count(m, k) : Slot(m, u) = Reg(m, k, r) /\ Name(m, u) = VarOf(m, k, r)

\* What a closure captured is there, and a frame runs its closure.
Closed(m) ==
  /\ \A i \in 1 .. Len(m.clos) :
       /\ Len(m.clos[i].upvalues) = Len(Code[m.clos[i].chunk].captures)
       /\ \A j \in 1 .. Len(m.clos[i].upvalues) : m.clos[i].upvalues[j] \in 1 .. Opens(m)
  /\ \A k \in 1 .. Depth(m) :
       IF m.frames[k].closure = 0 THEN m.frames[k].chunk = "main"
       ELSE m.frames[k].closure \in 1 .. Len(m.clos) /\ m.clos[m.frames[k].closure].chunk = m.frames[k].chunk

\* Where results and failures go: a guard is in a frame that runs, an inner
\* one not further down, and a builtin that goes on is one the frame on top
\* called.
ReturnsTo(m, k) ==
  /\ m.frames[k].return_reg <= Count(m, k - 1) /\ m.frames[k].wait.reg <= Count(m, k - 1)
  /\ m.frames[k].reentrant /\ m.frames[k].wait.tail => \A i \in 1 .. Len(m.handlers) : m.handlers[i] # k - 1

HandlersOK(m) ==
  /\ \A i \in 1 .. Len(m.handlers) : m.handlers[i] \in 1 .. Depth(m)
  /\ \A i, j \in 1 .. Len(m.handlers) : i <= j => m.handlers[i] <= m.handlers[j]

ResultOK(m) ==
  /\ Len(m.result) <= 1
  /\ Len(m.result) = 1 /\ Depth(m) > 0 =>
       /\ m.result[1].wait.reg <= Count(m, Depth(m))
       /\ m.result[1].wait.tail => \A i \in 1 .. Len(m.handlers) : m.handlers[i] # Depth(m)

Controlled(m) ==
  /\ Depth(m) > 0 => m.frames[1].reentrant
  /\ \A k \in 2 .. Depth(m) : ReturnsTo(m, k)
  /\ HandlersOK(m) /\ ResultOK(m)

Sound(m) == m \in Machine(Len(m.clos)) /\ Layout(m) /\ Variabled(m) /\ Upvalued(m) /\ Closed(m) /\ Controlled(m)

\* No variable of the frames up to h has an upvalue that is closed.
GoneUpTo(m, h) ==
  \A u \in 1 .. Opens(m) : Slot(m, u) < 0 =>
    \A k \in 1 .. Depth(m) : k <= h => \A r \in 1 .. Count(m, k) : VarOf(m, k, r) # Name(m, u)

Well(m) == Sound(m) /\ GoneUpTo(m, Depth(m))

\* It has stopped, or goes on.
Kept(m) == Sound(m) /\ (m.exited \/ GoneUpTo(m, Depth(m)))

CallsInv == Kept(cm)

\* The items of a sequence.
LEMMA SeqFacts ==
  ASSUME NEW T, NEW q \in Seq(T)
  PROVE  DOMAIN q = 1 .. Len(q) /\ Len(q) \in Nat /\ \A i \in 1 .. Len(q) : q[i] \in T
  BY LenProperties, ElementOfSeq

\* What is in the fields of a machine.
LEMMA Fields ==
  ASSUME NEW n \in Nat, NEW m \in Machine(n)
  PROVE  /\ m.stack \in [0 .. stack_cap - 1 -> Value(n)]
         /\ m.frames \in Seq(FrameRecord) /\ DOMAIN m.frames = 1 .. Len(m.frames) /\ Len(m.frames) \in Nat
         /\ \A k \in 1 .. Len(m.frames) : m.frames[k] \in FrameRecord
         /\ m.ups \in Seq(Upvalue(n)) /\ DOMAIN m.ups = 1 .. Len(m.ups) /\ Len(m.ups) \in Nat
         /\ \A u \in 1 .. Len(m.ups) : m.ups[u] \in Upvalue(n)
         /\ m.clos \in Seq(Closure) /\ DOMAIN m.clos = 1 .. Len(m.clos) /\ Len(m.clos) \in Nat
         /\ \A i \in 1 .. Len(m.clos) : m.clos[i] \in Closure
         /\ m.handlers \in Seq(Nat) /\ DOMAIN m.handlers = 1 .. Len(m.handlers) /\ Len(m.handlers) \in Nat
         /\ \A i \in 1 .. Len(m.handlers) : m.handlers[i] \in Nat
         /\ m.env \in Seq(Value(n)) /\ DOMAIN m.env = 1 .. Len(m.env) /\ Len(m.env) \in Nat
         /\ \A x \in 1 .. Len(m.env) : m.env[x] \in Value(n)
         /\ m.result \in Seq(Result(n)) /\ Len(m.result) \in Nat
         /\ m.exited \in BOOLEAN /\ m.ncalls \in Nat /\ m.nsets \in Nat
<1>1. /\ m.stack \in [0 .. stack_cap - 1 -> Value(n)] /\ m.frames \in Seq(FrameRecord) /\ m.ups \in Seq(Upvalue(n))
      /\ m.clos \in Seq(Closure) /\ m.handlers \in Seq(Nat) /\ m.env \in Seq(Value(n))
      /\ m.result \in Seq(Result(n))
      /\ m.exited \in BOOLEAN /\ m.ncalls \in Nat /\ m.nsets \in Nat
  BY DEF Machine
<1>2. /\ DOMAIN m.frames = 1 .. Len(m.frames) /\ Len(m.frames) \in Nat
      /\ \A k \in 1 .. Len(m.frames) : m.frames[k] \in FrameRecord
  BY <1>1, SeqFacts
<1>3. /\ DOMAIN m.ups = 1 .. Len(m.ups) /\ Len(m.ups) \in Nat
      /\ \A k \in 1 .. Len(m.ups) : m.ups[k] \in Upvalue(n)
  BY <1>1, SeqFacts
<1>4. /\ DOMAIN m.clos = 1 .. Len(m.clos) /\ Len(m.clos) \in Nat
      /\ \A k \in 1 .. Len(m.clos) : m.clos[k] \in Closure
  BY <1>1, SeqFacts
<1>5. /\ DOMAIN m.handlers = 1 .. Len(m.handlers) /\ Len(m.handlers) \in Nat
      /\ \A i \in 1 .. Len(m.handlers) : m.handlers[i] \in Nat
  BY <1>1, SeqFacts
<1>6. /\ DOMAIN m.env = 1 .. Len(m.env) /\ Len(m.env) \in Nat
      /\ \A x \in 1 .. Len(m.env) : m.env[x] \in Value(n)
  BY <1>1, SeqFacts
<1>7. Len(m.result) \in Nat
  BY <1>1, SeqFacts
<1> QED BY <1>1, <1>2, <1>3, <1>4, <1>5, <1>6, <1>7

\* A frame's fields.
LEMMA FrameFields ==
  ASSUME NEW f \in FrameRecord
  PROVE  /\ f.chunk \in DOMAIN Code /\ f.base \in Nat /\ f.closure \in Nat /\ f.return_reg \in Nat
         /\ f.opened \in Seq(Nat) /\ Len(f.opened) \in Nat /\ DOMAIN f.opened = 1 .. Len(f.opened)
         /\ f.vars \in Seq(Nat) /\ Len(f.vars) \in Nat /\ DOMAIN f.vars = 1 .. Len(f.vars)
         /\ f.reentrant \in BOOLEAN /\ f.wait \in Wait
         /\ nvars(f.chunk) \in Nat /\ num_registers(f.chunk) = nvars(f.chunk) + 1 + MaxArgs
<1>1. /\ f.chunk \in DOMAIN Code /\ f.base \in Nat /\ f.closure \in Nat /\ f.return_reg \in Nat
      /\ f.opened \in Seq(Nat) /\ f.vars \in Seq(Nat) /\ f.reentrant \in BOOLEAN /\ f.wait \in Wait
  BY DEF FrameRecord
<1>2. Len(f.opened) \in Nat /\ DOMAIN f.opened = 1 .. Len(f.opened)
  BY <1>1, SeqFacts
<1>3. Len(f.vars) \in Nat /\ DOMAIN f.vars = 1 .. Len(f.vars)
  BY <1>1, SeqFacts
<1>4. Code[f.chunk].params \in Nat
  BY <1>1, CodeAssumption
<1> QED BY <1>1, <1>2, <1>3, <1>4 DEF nvars, num_registers

\* The size of a window.
LEMMA Sizes ==
  ASSUME NEW c \in DOMAIN Code
  PROVE  /\ Code[c].params \in Nat /\ nvars(c) \in Nat /\ nvars(c) = Code[c].params + (IF Code[c].rest THEN 1 ELSE 0)
         /\ num_registers(c) = nvars(c) + 1 + MaxArgs /\ num_registers(c) \in Nat /\ MaxArgs \in Nat
<1>1. Code[c].params \in Nat
  BY CodeAssumption
<1>2. MaxArgs \in Nat
  BY BoundsAssumption
<1> QED BY <1>1, <1>2 DEF nvars, num_registers

\* With more closures there are more values.
LEMMA MoreValues ==
  ASSUME NEW n \in Nat, NEW k \in Nat, n <= k
  PROVE  /\ Item(n) \subseteq Item(k) /\ Value(n) \subseteq Value(k)
         /\ Seq(Item(n)) \subseteq Seq(Item(k)) /\ Seq(Value(n)) \subseteq Seq(Value(k))
<1>1. Item(n) \subseteq Item(k)
  BY DEF Item
<1>2. Seq(Item(n)) \subseteq Seq(Item(k))
  BY <1>1, SeqMonotonic
<1>3. Value(n) \subseteq Value(k)
  BY <1>1, <1>2 DEF Value
<1> QED BY <1>1, <1>2, <1>3, SeqMonotonic

\* What the parts of a machine are.
LEMMA Observed ==
  ASSUME NEW n \in Nat, NEW m \in Machine(n)
  PROVE  /\ stack_cap \in Nat /\ MaxArgs \in Nat
         /\ Depth(m) \in Nat /\ Known(m) \in Nat /\ Opens(m) \in Nat
         /\ \A k \in 1 .. Depth(m) :
              /\ Base(m, k) \in Nat /\ Count(m, k) \in Nat /\ End(m, k) = Base(m, k) + Count(m, k) + 1 + MaxArgs
              /\ ChunkOf(m, k) \in DOMAIN Code
              /\ \A r : Reg(m, k, r) = Base(m, k) + r - 1
              /\ \A u : OpenOn(m, k, u) => u \in Nat
         /\ \A u \in 1 .. Opens(m) : Slot(m, u) \in Int /\ Name(m, u) \in Nat /\ Shut(m, u) \in Value(n)
<1>1. stack_cap \in Nat /\ MaxArgs \in Nat
  BY BoundsAssumption
<1>2. /\ m.frames \in Seq(FrameRecord) /\ Len(m.frames) \in Nat /\ \A k \in 1 .. Len(m.frames) : m.frames[k] \in FrameRecord
      /\ Len(m.ups) \in Nat /\ \A u \in 1 .. Len(m.ups) : m.ups[u] \in Upvalue(n)
      /\ Len(m.env) \in Nat
  BY Fields
<1>3. ASSUME NEW k \in 1 .. Depth(m)
      PROVE  /\ Base(m, k) \in Nat /\ Count(m, k) \in Nat /\ End(m, k) = Base(m, k) + Count(m, k) + 1 + MaxArgs
             /\ ChunkOf(m, k) \in DOMAIN Code
             /\ \A r : Reg(m, k, r) = Base(m, k) + r - 1
             /\ \A u : OpenOn(m, k, u) => u \in Nat
  <2> DEFINE f == m.frames[k]
  <2>1. f \in FrameRecord
    BY <1>2 DEF Depth
  <2> HIDE DEF f
  <2>2. /\ f.base \in Nat /\ nvars(f.chunk) \in Nat /\ num_registers(f.chunk) = nvars(f.chunk) + 1 + MaxArgs
        /\ f.opened \in Seq(Nat) /\ f.chunk \in DOMAIN Code
    BY <2>1, FrameFields
  <2>3. \A i \in 1 .. Len(f.opened) : f.opened[i] \in Nat
    BY <2>2, SeqFacts
  <2>4. f.base + num_registers(f.chunk) = f.base + nvars(f.chunk) + 1 + MaxArgs
    BY <1>1, <2>2
  <2>5. \A u : (\E i \in 1 .. Len(f.opened) : f.opened[i] = u) => u \in Nat
    BY <2>3
  <2> QED BY <2>2, <2>4, <2>5 DEF f, Base, Count, End, ChunkOf, Reg, OpenOn
<1>4. ASSUME NEW u \in 1 .. Opens(m) PROVE Slot(m, u) \in Int /\ Name(m, u) \in Nat /\ Shut(m, u) \in Value(n)
  <2>1. m.ups[u] \in Upvalue(n)
    BY <1>2 DEF Opens
  <2> QED BY <2>1 DEF Slot, Name, Shut, Upvalue
<1> QED BY <1>1, <1>2, <1>3, <1>4 DEF Depth, Known, Opens

\* The same frame looks the same.
LEMMA SameFrame ==
  ASSUME NEW m, NEW w, NEW k, NEW l, w.frames[l] = m.frames[k]
  PROVE  /\ ChunkOf(w, l) = ChunkOf(m, k) /\ Base(w, l) = Base(m, k) /\ Count(w, l) = Count(m, k) /\ End(w, l) = End(m, k)
         /\ \A r : Reg(w, l, r) = Reg(m, k, r) /\ VarOf(w, l, r) = VarOf(m, k, r)
         /\ \A u : OpenOn(w, l, u) <=> OpenOn(m, k, u)
  BY DEF ChunkOf, Base, Count, End, Reg, VarOf, OpenOn

\* Variables are in registers on the stack, each in one of its own.
LEMMA RegsApart ==
  ASSUME NEW n \in Nat, NEW m \in Machine(n), Layout(m), NEW k \in 1 .. Depth(m), NEW r \in 1 .. Count(m, k)
  PROVE  /\ Reg(m, k, r) \in 0 .. stack_cap - 1 /\ Reg(m, k, r) \in Nat
         /\ Reg(m, k, r) >= Base(m, k) /\ Reg(m, k, r) < Base(m, k) + Count(m, k)
         /\ \A l \in 1 .. Depth(m) : \A s \in 1 .. Count(m, l) : Reg(m, k, r) = Reg(m, l, s) => k = l /\ r = s
<1>1. /\ stack_cap \in Nat /\ MaxArgs \in Nat /\ Depth(m) \in Nat
      /\ \A i \in 1 .. Depth(m) :
           /\ Base(m, i) \in Nat /\ Count(m, i) \in Nat /\ End(m, i) = Base(m, i) + Count(m, i) + 1 + MaxArgs
           /\ \A s : Reg(m, i, s) = Base(m, i) + s - 1
  BY Observed
<1>2. /\ \A i \in 1 .. Depth(m) : End(m, i) <= stack_cap
      /\ \A i, l \in 1 .. Depth(m) : i < l => End(m, i) <= Base(m, l)
  BY DEF Layout
<1>3. /\ Reg(m, k, r) \in 0 .. stack_cap - 1 /\ Reg(m, k, r) \in Nat
      /\ Reg(m, k, r) >= Base(m, k) /\ Reg(m, k, r) < Base(m, k) + Count(m, k)
  BY <1>1, <1>2
<1>4. ASSUME NEW l \in 1 .. Depth(m), NEW s \in 1 .. Count(m, l), Reg(m, k, r) = Reg(m, l, s) PROVE k = l /\ r = s
  <2>1. ~ (k < l)
    BY <1>1, <1>2, <1>4
  <2>2. ~ (l < k)
    BY <1>1, <1>2, <1>4
  <2>3. k = l
    BY <1>1, <2>1, <2>2
  <2> QED BY <1>1, <1>4, <2>3
<1> QED BY <1>3, <1>4

\* An open upvalue is on the list of one frame, where its variable is.
LEMMA OpenFacts ==
  ASSUME NEW m, Sound(m), NEW u \in 1 .. Opens(m)
  PROVE  /\ Slot(m, u) >= 0 => \E k \in 1 .. Depth(m) :
              /\ OpenOn(m, k, u)
              /\ \E r \in 1 .. Count(m, k) : Slot(m, u) = Reg(m, k, r) /\ Name(m, u) = VarOf(m, k, r)
         /\ \A k, l \in 1 .. Depth(m) : OpenOn(m, k, u) /\ OpenOn(m, l, u) => k = l
         /\ \A k \in 1 .. Depth(m) : OpenOn(m, k, u) => Slot(m, u) >= 0 /\ OnStack(m, Slot(m, u)) = InEnv(m, Name(m, u))
         /\ Slot(m, u) >= 0 => Slot(m, u) \in 0 .. stack_cap - 1
<1>1. m \in Machine(Len(m.clos)) /\ Layout(m) /\ Len(m.clos) \in Nat
  <2>1. m \in Machine(Len(m.clos)) /\ Layout(m)
    BY DEF Sound
  <2>2. m.clos \in Seq(Closure)
    BY <2>1 DEF Machine
  <2> QED BY <2>1, <2>2, LenProperties
<1>2. u \in Nat
  BY <1>1, Observed
<1>3. \A k \in 1 .. Depth(m) : OpenOn(m, k, u) =>
        \E r \in 1 .. Count(m, k) : Slot(m, u) = Reg(m, k, r) /\ Name(m, u) = VarOf(m, k, r)
  BY <1>2 DEF Sound, Upvalued
<1>4. Slot(m, u) >= 0 => \E k \in 1 .. Depth(m) : OpenOn(m, k, u)
  BY DEF Sound, Upvalued
<1>5. \A k \in 1 .. Depth(m) : \A r \in 1 .. Count(m, k) :
        /\ Reg(m, k, r) \in 0 .. stack_cap - 1 /\ Reg(m, k, r) \in Nat
        /\ \A l \in 1 .. Depth(m) : \A s \in 1 .. Count(m, l) : Reg(m, k, r) = Reg(m, l, s) => k = l /\ r = s
  BY <1>1, RegsApart
<1>6. \A k \in 1 .. Depth(m) : \A r \in 1 .. Count(m, k) : OnStack(m, Reg(m, k, r)) = InEnv(m, VarOf(m, k, r))
  BY DEF Sound, Variabled
<1> QED BY <1>3, <1>4, <1>5, <1>6

\* The parts of Sound.
LEMMA SoundMachine ==
  ASSUME NEW m, Sound(m)
  PROVE  m \in Machine(Len(m.clos)) /\ Len(m.clos) \in Nat /\ Layout(m) /\ Variabled(m) /\ Upvalued(m) /\ Closed(m) /\ Controlled(m)
<1>1. m \in Machine(Len(m.clos)) /\ Layout(m) /\ Variabled(m) /\ Upvalued(m) /\ Closed(m) /\ Controlled(m)
  BY DEF Sound
<1>2. m.clos \in Seq(Closure)
  BY <1>1 DEF Machine
<1> QED BY <1>1, <1>2, LenProperties

\* Registers that hold no variable may change, and where control goes.
LEMMA Bookkeeping ==
  ASSUME NEW m, Sound(m), NEW w, w \in Machine(Len(w.clos)), Controlled(w),
         w.frames = m.frames, w.ups = m.ups, w.clos = m.clos, w.env = m.env,
         \A k \in 1 .. Depth(m) : \A r \in 1 .. Count(m, k) : OnStack(w, Reg(m, k, r)) = OnStack(m, Reg(m, k, r))
  PROVE  Sound(w) /\ \A h : GoneUpTo(m, h) => GoneUpTo(w, h)
<1>1. /\ Depth(w) = Depth(m) /\ Opens(w) = Opens(m) /\ Known(w) = Known(m)
      /\ \A x : InEnv(w, x) = InEnv(m, x)
      /\ \A u : Slot(w, u) = Slot(m, u) /\ Name(w, u) = Name(m, u) /\ Shut(w, u) = Shut(m, u)
  BY DEF Depth, Opens, Known, InEnv, Slot, Name, Shut
<1>2. \A k : /\ Base(w, k) = Base(m, k) /\ Count(w, k) = Count(m, k) /\ End(w, k) = End(m, k)
             /\ \A r : Reg(w, k, r) = Reg(m, k, r) /\ VarOf(w, k, r) = VarOf(m, k, r)
             /\ \A u : OpenOn(w, k, u) <=> OpenOn(m, k, u)
  BY DEF Base, Count, End, Reg, VarOf, OpenOn
<1>3. Layout(w)
  BY <1>1, <1>2, SoundMachine DEF Layout
<1>4. Variabled(w)
  <2>1. \A k \in 1 .. Depth(w) : Len(w.frames[k].vars) = Count(w, k)
    BY <1>1, <1>2, SoundMachine DEF Variabled
  <2> QED BY <1>1, <1>2, <2>1, SoundMachine DEF Variabled
<1>5. Upvalued(w)
  BY <1>1, <1>2, SoundMachine DEF Upvalued
<1>6. Closed(w)
  BY <1>1, SoundMachine DEF Closed
<1>7. \A h : GoneUpTo(m, h) => GoneUpTo(w, h)
  BY <1>1, <1>2 DEF GoneUpTo
<1> QED BY <1>3, <1>4, <1>5, <1>6, <1>7 DEF Sound

\* A function on 1 .. n is a sequence of length n.
LEMMA FunctionIsSeq ==
  ASSUME NEW n \in Nat, NEW T, NEW q, DOMAIN q = 1 .. n, q = [i \in 1 .. n |-> q[i]], \A i \in 1 .. n : q[i] \in T
  PROVE  q \in Seq(T) /\ Len(q) = n
  OBVIOUS

\* upvalue_close gives an upvalue.
LEMMA ClosedUpvalue ==
  ASSUME NEW n \in Nat, NEW p \in Upvalue(n), NEW v \in Value(n)
  PROVE  [p EXCEPT !.slot = -1, !.closed = v] \in Upvalue(n)
<1> DEFINE d == [p EXCEPT !.slot = -1]
<1>1. -1 \in Int
  OBVIOUS
<1>2. d \in Upvalue(n)
  BY <1>1 DEF Upvalue
<1>3. [p EXCEPT !.slot = -1, !.closed = v] = [d EXCEPT !.closed = v]
  OBVIOUS
<1> HIDE DEF d
<1>4. [d EXCEPT !.closed = v] \in Upvalue(n)
  BY <1>2 DEF Upvalue
<1> QED BY <1>3, <1>4

\* A frame whose list of open upvalues is emptied is a frame.
LEMMA ClosedFrame ==
  ASSUME NEW f \in FrameRecord
  PROVE  [f EXCEPT !.opened = <<>>] \in FrameRecord
<1>1. <<>> \in Seq(Nat)
  BY EmptySeq
<1> QED BY <1>1 DEF FrameRecord

\* close_upvalues.
LEMMA CloseEffect ==
  ASSUME NEW m, Sound(m), NEW h \in Nat
  PROVE  /\ close_upvalues(m, h) \in Machine(Len(m.clos))
         /\ \A k \in 1 .. Depth(m) : k <= h => close_upvalues(m, h).frames[k] = m.frames[k]
         /\ Depth(close_upvalues(m, h)) = Depth(m)
         /\ \A k \in 1 .. Depth(m) : k > h => close_upvalues(m, h).frames[k] = [m.frames[k] EXCEPT !.opened = <<>>]
         /\ Opens(close_upvalues(m, h)) = Opens(m)
         /\ \A u \in 1 .. Opens(m) :
              close_upvalues(m, h).ups[u] =
                IF \E k \in 1 .. Depth(m) : k > h /\ OpenOn(m, k, u) THEN upvalue_close(m, u) ELSE m.ups[u]
         /\ close_upvalues(m, h).stack = m.stack /\ close_upvalues(m, h).clos = m.clos
         /\ close_upvalues(m, h).handlers = m.handlers /\ close_upvalues(m, h).result = m.result
         /\ close_upvalues(m, h).env = m.env /\ close_upvalues(m, h).exited = m.exited
         /\ close_upvalues(m, h).ncalls = m.ncalls /\ close_upvalues(m, h).nsets = m.nsets
<1> DEFINE n == Len(m.clos)
           w == close_upvalues(m, h)
           ups == [u \in DOMAIN m.ups |->
                     IF \E k \in DOMAIN m.frames : k > h /\ u \in Range(m.frames[k].opened)
                     THEN upvalue_close(m, u) ELSE m.ups[u]]
           frames == [k \in DOMAIN m.frames |-> IF k > h THEN [m.frames[k] EXCEPT !.opened = <<>>] ELSE m.frames[k]]
<1>1. m \in Machine(n) /\ n \in Nat
  BY SoundMachine
<1>2. /\ m.frames \in Seq(FrameRecord) /\ DOMAIN m.frames = 1 .. Len(m.frames) /\ Len(m.frames) \in Nat
      /\ \A k \in 1 .. Len(m.frames) : m.frames[k] \in FrameRecord
      /\ m.ups \in Seq(Upvalue(n)) /\ DOMAIN m.ups = 1 .. Len(m.ups) /\ Len(m.ups) \in Nat
      /\ \A u \in 1 .. Len(m.ups) : m.ups[u] \in Upvalue(n)
      /\ m.stack \in [0 .. stack_cap - 1 -> Value(n)]
  BY <1>1, Fields
<1>3. \A k \in 1 .. Len(m.frames) : \A u : u \in Range(m.frames[k].opened) <=> OpenOn(m, k, u)
  <2> SUFFICES ASSUME NEW k \in 1 .. Len(m.frames), NEW u PROVE u \in Range(m.frames[k].opened) <=> OpenOn(m, k, u)
    OBVIOUS
  <2> DEFINE q == m.frames[k].opened
  <2>1. DOMAIN q = 1 .. Len(q)
    BY <1>2, FrameFields
  <2> QED BY <2>1 DEF Range, OpenOn
<1>4. \A u \in 1 .. Len(m.ups) :
        ups[u] = IF \E k \in 1 .. Depth(m) : k > h /\ OpenOn(m, k, u) THEN upvalue_close(m, u) ELSE m.ups[u]
  BY <1>2, <1>3 DEF Depth
<1>5. \A u \in 1 .. Len(m.ups) : ups[u] \in Upvalue(n)
  <2> SUFFICES ASSUME NEW u \in 1 .. Len(m.ups) PROVE upvalue_close(m, u) \in Upvalue(n)
    BY <1>2, <1>4
  <2>1. CASE m.ups[u].slot >= 0
    <3>1. m.stack[m.ups[u].slot] \in Value(n)
      <4>1. Slot(m, u) \in 0 .. stack_cap - 1
        BY <2>1, OpenFacts DEF Slot, Opens
      <4> QED BY <1>2, <4>1 DEF Slot
    <3> DEFINE p == m.ups[u]
               v == m.stack[m.ups[u].slot]
    <3>2. p \in Upvalue(n) /\ v \in Value(n)
      BY <1>2, <3>1
    <3>3. upvalue_close(m, u) = [p EXCEPT !.slot = -1, !.closed = v]
      BY <2>1 DEF upvalue_close
    <3> HIDE DEF p, v
    <3> QED BY ZenonT(60), <1>1, <3>2, <3>3, ClosedUpvalue
  <2>2. CASE ~ (m.ups[u].slot >= 0)
    BY <1>2, <2>2 DEF upvalue_close
  <2> QED BY <2>1, <2>2
<1>6. ups \in Seq(Upvalue(n)) /\ Len(ups) = Len(m.ups)
  <2>1. DOMAIN ups = 1 .. Len(m.ups) /\ ups = [u \in 1 .. Len(m.ups) |-> ups[u]]
    BY <1>2
  <2> HIDE DEF ups
  <2> QED BY <1>2, <1>5, <2>1, FunctionIsSeq
<1>7. \A k \in 1 .. Len(m.frames) :
        /\ frames[k] = IF k > h THEN [m.frames[k] EXCEPT !.opened = <<>>] ELSE m.frames[k]
        /\ frames[k] \in FrameRecord
  BY <1>2, ClosedFrame
<1>8. frames \in Seq(FrameRecord) /\ Len(frames) = Len(m.frames)
  <2>1. DOMAIN frames = 1 .. Len(m.frames) /\ frames = [k \in 1 .. Len(m.frames) |-> frames[k]]
    BY <1>2
  <2> HIDE DEF frames
  <2> QED BY <1>2, <1>7, <2>1, FunctionIsSeq
<1>9. w = [m EXCEPT !.ups = ups, !.frames = frames]
  BY DEF close_upvalues
<1> HIDE DEF ups, frames, w
<1>10. /\ w \in Machine(n) /\ w.ups = ups /\ w.frames = frames /\ w.stack = m.stack /\ w.clos = m.clos
       /\ w.handlers = m.handlers /\ w.result = m.result /\ w.env = m.env /\ w.exited = m.exited
       /\ w.ncalls = m.ncalls /\ w.nsets = m.nsets
  BY <1>1, <1>6, <1>8, <1>9 DEF Machine
<1>11. \A k \in 1 .. Depth(m) : /\ k <= h => w.frames[k] = m.frames[k]
                                /\ k > h => w.frames[k] = [m.frames[k] EXCEPT !.opened = <<>>]
  BY <1>2, <1>7, <1>10 DEF Depth
<1> QED BY <1>4, <1>6, <1>8, <1>10, <1>11 DEF Depth, Opens, w

\* Closing the upvalues of the frames above h leaves the rest as it is.
LEMMA CloseKeeps ==
  ASSUME NEW m, Sound(m), NEW h \in Nat, GoneUpTo(m, h)
  PROVE  /\ Sound(close_upvalues(m, h)) /\ GoneUpTo(close_upvalues(m, h), h)
         /\ \A k \in 1 .. Depth(m) : k > h => \A u \in Nat : ~ OpenOn(close_upvalues(m, h), k, u)
<1> DEFINE w == close_upvalues(m, h)
           Gone(u) == \E k \in 1 .. Depth(m) : k > h /\ OpenOn(m, k, u)
<1>1. /\ m \in Machine(Len(m.clos)) /\ Len(m.clos) \in Nat
      /\ Layout(m) /\ Variabled(m) /\ Upvalued(m) /\ Closed(m) /\ Controlled(m)
  BY SoundMachine
<1>2. /\ w \in Machine(Len(m.clos)) /\ Depth(w) = Depth(m) /\ Opens(w) = Opens(m)
      /\ \A k \in 1 .. Depth(m) : /\ k <= h => w.frames[k] = m.frames[k]
                                  /\ k > h => w.frames[k] = [m.frames[k] EXCEPT !.opened = <<>>]
      /\ \A u \in 1 .. Opens(m) : w.ups[u] = IF Gone(u) THEN upvalue_close(m, u) ELSE m.ups[u]
      /\ w.stack = m.stack /\ w.clos = m.clos /\ w.handlers = m.handlers /\ w.result = m.result /\ w.env = m.env
  BY CloseEffect
<1> HIDE DEF w, Gone
<1>3. /\ Depth(m) \in Nat /\ Opens(m) \in Nat
      /\ \A k \in 1 .. Depth(m) : \A u : OpenOn(m, k, u) => u \in Nat
      /\ \A u \in 1 .. Opens(m) : Slot(m, u) \in Int
  BY <1>1, Observed
<1>4. ASSUME NEW k \in 1 .. Depth(m)
      PROVE  /\ w.frames[k].chunk = m.frames[k].chunk /\ w.frames[k].base = m.frames[k].base
             /\ w.frames[k].vars = m.frames[k].vars /\ w.frames[k].closure = m.frames[k].closure
             /\ w.frames[k].return_reg = m.frames[k].return_reg /\ w.frames[k].wait = m.frames[k].wait
             /\ w.frames[k].reentrant = m.frames[k].reentrant
             /\ w.frames[k].opened = IF k > h THEN <<>> ELSE m.frames[k].opened
  <2> DEFINE f == m.frames[k]
             g == w.frames[k]
  <2>1. f \in FrameRecord
    BY <1>1, Fields DEF Depth
  <2>2. CASE k <= h
    <3>1. w.frames[k] = m.frames[k]
      BY <1>2, <2>2
    <3>2. ~ (k > h)
      BY <1>3, <2>2
    <3> QED BY <3>1, <3>2
  <2>3. CASE k > h
    <3>1. g = [f EXCEPT !.opened = <<>>]
      BY <1>2, <2>3
    <3> HIDE DEF f, g
    <3>2. /\ g.chunk = f.chunk /\ g.base = f.base /\ g.vars = f.vars /\ g.closure = f.closure
          /\ g.return_reg = f.return_reg /\ g.wait = f.wait /\ g.reentrant = f.reentrant /\ g.opened = <<>>
      BY <2>1, <3>1 DEF FrameRecord
    <3> QED BY <2>3, <3>2 DEF f, g
  <2> QED BY <1>3, <2>2, <2>3
<1>5. \A k \in 1 .. Depth(m) :
        /\ Base(w, k) = Base(m, k) /\ Count(w, k) = Count(m, k) /\ End(w, k) = End(m, k)
        /\ \A r : Reg(w, k, r) = Reg(m, k, r) /\ VarOf(w, k, r) = VarOf(m, k, r)
        /\ k > h => \A u : ~ OpenOn(w, k, u)
        /\ k <= h => \A u : OpenOn(w, k, u) <=> OpenOn(m, k, u)
  <2> SUFFICES ASSUME NEW k \in 1 .. Depth(m)
               PROVE  /\ Base(w, k) = Base(m, k) /\ Count(w, k) = Count(m, k) /\ End(w, k) = End(m, k)
                      /\ \A r : Reg(w, k, r) = Reg(m, k, r) /\ VarOf(w, k, r) = VarOf(m, k, r)
                      /\ k > h => \A u : ~ OpenOn(w, k, u)
                      /\ k <= h => \A u : OpenOn(w, k, u) <=> OpenOn(m, k, u)
    OBVIOUS
  <2>1. /\ Base(w, k) = Base(m, k) /\ Count(w, k) = Count(m, k) /\ End(w, k) = End(m, k)
        /\ \A r : Reg(w, k, r) = Reg(m, k, r) /\ VarOf(w, k, r) = VarOf(m, k, r)
    BY <1>4 DEF Base, Count, End, Reg, VarOf
  <2>2. ASSUME k > h, NEW u PROVE ~ OpenOn(w, k, u)
    <3>1. w.frames[k].opened = <<>>
      BY <1>4, <2>2
    <3> QED BY <3>1, EmptySeq DEF OpenOn
  <2>3. ASSUME k <= h, NEW u PROVE OpenOn(w, k, u) <=> OpenOn(m, k, u)
    <3>1. w.frames[k].opened = m.frames[k].opened
      BY <1>3, <1>4, <2>3
    <3> QED BY <3>1 DEF OpenOn
  <2> QED BY <2>1, <2>2, <2>3
<1>6. /\ \A x : OnStack(w, x) = OnStack(m, x) /\ InEnv(w, x) = InEnv(m, x)
      /\ Known(w) = Known(m)
  BY <1>2 DEF OnStack, InEnv, Known
<1>7. ASSUME NEW u \in 1 .. Opens(m)
      PROVE  /\ Name(w, u) = Name(m, u)
             /\ Gone(u) => Slot(w, u) = -1 /\ Shut(w, u) = InEnv(m, Name(m, u)) /\ Slot(m, u) >= 0
             /\ ~ Gone(u) => Slot(w, u) = Slot(m, u) /\ Shut(w, u) = Shut(m, u)
  <2>1. CASE ~ Gone(u)
    BY <1>2, <2>1 DEF Name, Slot, Shut
  <2>2. CASE Gone(u)
    <3>1. Slot(m, u) >= 0 /\ OnStack(m, Slot(m, u)) = InEnv(m, Name(m, u))
      BY <2>2, OpenFacts DEF Gone
    <3> DEFINE p == m.ups[u]
               v == m.stack[m.ups[u].slot]
               q == w.ups[u]
    <3>2. p \in Upvalue(Len(m.clos))
      BY <1>1, Fields DEF Opens
    <3>3. q = [p EXCEPT !.slot = -1, !.closed = v]
      BY <1>2, <2>2, <3>1 DEF upvalue_close, Slot
    <3> HIDE DEF p, q, v
    <3>4. q.slot = -1 /\ q.closed = v /\ q.var = p.var
      BY <3>2, <3>3 DEF Upvalue
    <3> QED BY <2>2, <3>1, <3>4 DEF p, q, v, Name, Slot, Shut, OnStack
  <2> QED BY <2>1, <2>2
<1>8. Layout(w)
  BY <1>1, <1>2, <1>3, <1>5 DEF Layout
<1>9. Variabled(w)
  <2>1. \A k \in 1 .. Depth(w) : Len(w.frames[k].vars) = Count(w, k)
    BY <1>1, <1>2, <1>4, <1>5 DEF Variabled
  <2> QED BY <1>1, <1>2, <1>5, <1>6, <2>1 DEF Variabled
<1>10. ASSUME NEW u \in 1 .. Opens(m), NEW k \in 1 .. Depth(m), OpenOn(w, k, u)
       PROVE  k <= h /\ OpenOn(m, k, u) /\ ~ Gone(u)
  <2>1. k <= h /\ OpenOn(m, k, u)
    BY <1>3, <1>5, <1>10
  <2> QED BY <1>3, <2>1, OpenFacts DEF Gone
<1>11. Upvalued(w)
  <2>1. ASSUME NEW u \in 1 .. Opens(m)
        PROVE  /\ Name(w, u) \in 1 .. Known(m)
               /\ Slot(w, u) >= 0 => \E k \in 1 .. Depth(m) : OpenOn(w, k, u)
               /\ Slot(w, u) < 0 => SharedSetters \/ Shut(w, u) = InEnv(m, Name(w, u))
    <3>1. Slot(m, u) >= 0 => \E k \in 1 .. Depth(m) : OpenOn(m, k, u)
      BY <1>1 DEF Upvalued
    <3>2. /\ Name(m, u) \in 1 .. Known(m)
          /\ Slot(m, u) < 0 => SharedSetters \/ Shut(m, u) = InEnv(m, Name(m, u))
      BY <1>1 DEF Upvalued
    <3>3. CASE Gone(u)
      BY <1>7, <3>2, <3>3
    <3>4. CASE ~ Gone(u)
      <4>1. \A k \in 1 .. Depth(m) : OpenOn(m, k, u) => OpenOn(w, k, u)
        BY <1>3, <1>5, <3>4 DEF Gone
      <4> QED BY <1>7, <3>1, <3>2, <3>4, <4>1
    <3> QED BY <3>3, <3>4
  <2>2. ASSUME NEW k \in 1 .. Depth(m), NEW u \in Nat, OpenOn(w, k, u)
        PROVE  /\ u \in 1 .. Opens(m)
               /\ \E r \in 1 .. Count(w, k) : Slot(w, u) = Reg(w, k, r) /\ Name(w, u) = VarOf(w, k, r)
    <3>1. OpenOn(m, k, u)
      BY <1>3, <1>5, <2>2
    <3>2. /\ u \in 1 .. Opens(m)
          /\ \E r \in 1 .. Count(m, k) : Slot(m, u) = Reg(m, k, r) /\ Name(m, u) = VarOf(m, k, r)
      BY <1>1, <3>1 DEF Upvalued
    <3>3. ~ Gone(u)
      BY <1>10, <2>2, <3>2
    <3> QED BY <1>5, <1>7, <3>2, <3>3
  <2> QED BY <1>2, <1>6, <2>1, <2>2 DEF Upvalued
<1>12. Closed(w)
  BY <1>1, <1>2, <1>4 DEF Closed
<1>13. Controlled(w)
  <2>1. \A k \in 2 .. Depth(w) : ReturnsTo(w, k)
    <3> SUFFICES ASSUME NEW k \in 2 .. Depth(m) PROVE ReturnsTo(w, k)
      BY <1>2
    <3>1. ReturnsTo(m, k)
      BY <1>1 DEF Controlled
    <3>2. k \in 1 .. Depth(m) /\ k - 1 \in 1 .. Depth(m)
      BY <1>3
    <3>3. Count(w, k - 1) = Count(m, k - 1)
      BY <1>5, <3>2
    <3>4. /\ w.frames[k].return_reg = m.frames[k].return_reg /\ w.frames[k].wait = m.frames[k].wait
          /\ w.frames[k].reentrant = m.frames[k].reentrant
      BY <1>4, <3>2
    <3> QED BY <1>2, <3>1, <3>3, <3>4 DEF ReturnsTo
  <2>2. Depth(w) > 0 => w.frames[1].reentrant
    BY <1>1, <1>2, <1>3, <1>4 DEF Controlled
  <2>3. HandlersOK(w)
    BY <1>1, <1>2 DEF Controlled, HandlersOK
  <2>4. ResultOK(w)
    <3>1. Depth(m) > 0 => Count(w, Depth(m)) = Count(m, Depth(m))
      BY <1>3, <1>5
    <3> QED BY <1>1, <1>2, <3>1 DEF Controlled, ResultOK
  <2> QED BY <2>1, <2>2, <2>3, <2>4 DEF Controlled
<1>14. GoneUpTo(w, h)
  <2> SUFFICES ASSUME NEW u \in 1 .. Opens(m), Slot(w, u) < 0, NEW k \in 1 .. Depth(m), k <= h, NEW r \in 1 .. Count(m, k)
               PROVE  VarOf(m, k, r) # Name(m, u)
    BY <1>2, <1>5, <1>7 DEF GoneUpTo
  <2>1. CASE Gone(u)
    <3>1. PICK l \in 1 .. Depth(m) : l > h /\ OpenOn(m, l, u)
      BY <2>1 DEF Gone
    <3>2. PICK s \in 1 .. Count(m, l) : Name(m, u) = VarOf(m, l, s)
      BY <1>1, <1>3, <3>1 DEF Upvalued
    <3> QED BY <1>1, <1>3, <3>1, <3>2 DEF Variabled
  <2>2. CASE ~ Gone(u)
    BY <1>7, <2>2 DEF GoneUpTo
  <2> QED BY <2>1, <2>2
<1>15. \A k \in 1 .. Depth(m) : k > h => \A u \in Nat : ~ OpenOn(w, k, u)
  BY <1>5
<1> QED BY <1>2, <1>8, <1>9, <1>11, <1>12, <1>13, <1>14, <1>15 DEF Sound, w

\* The frames above h, which have no open upvalues left, are gone.
Truncated(m, h) == [m EXCEPT !.frames = SubSeq(@, 1, h)]

LEMMA TruncateKeeps ==
  ASSUME NEW m, Sound(m), NEW h \in 0 .. Depth(m), GoneUpTo(m, h), m.result = <<>>,
         \A k \in 1 .. Depth(m) : k > h => \A u \in Nat : ~ OpenOn(m, k, u),
         \A i \in 1 .. Len(m.handlers) : m.handlers[i] <= h
  PROVE  /\ Well(Truncated(m, h)) /\ Depth(Truncated(m, h)) = h
         /\ \A k \in 1 .. h : Truncated(m, h).frames[k] = m.frames[k]
         /\ Truncated(m, h).stack = m.stack /\ Truncated(m, h).ups = m.ups /\ Truncated(m, h).clos = m.clos
         /\ Truncated(m, h).handlers = m.handlers /\ Truncated(m, h).result = m.result
         /\ Truncated(m, h).env = m.env /\ Truncated(m, h).exited = m.exited
         /\ Truncated(m, h).ncalls = m.ncalls /\ Truncated(m, h).nsets = m.nsets
<1> DEFINE w == Truncated(m, h)
           n == Len(m.clos)
<1>1. /\ m \in Machine(n) /\ n \in Nat
      /\ Layout(m) /\ Variabled(m) /\ Upvalued(m) /\ Closed(m) /\ Controlled(m)
  BY SoundMachine
<1>2. m.frames \in Seq(FrameRecord) /\ Len(m.frames) \in Nat /\ Depth(m) = Len(m.frames)
  BY <1>1, Fields DEF Depth
<1>3. /\ SubSeq(m.frames, 1, h) \in Seq(FrameRecord) /\ Len(SubSeq(m.frames, 1, h)) = h
      /\ \A k \in 1 .. h : SubSeq(m.frames, 1, h)[k] = m.frames[k]
  <2>1. h \in Nat /\ \A k \in 1 .. h : m.frames[k] \in FrameRecord
    BY <1>2, ElementOfSeq
  <2> QED BY <1>2, <2>1, SubSeqProperties
<1>4. /\ w \in Machine(n) /\ w.frames = SubSeq(m.frames, 1, h) /\ w.stack = m.stack /\ w.clos = m.clos /\ w.ups = m.ups
      /\ w.handlers = m.handlers /\ w.result = m.result /\ w.env = m.env /\ w.exited = m.exited
      /\ w.ncalls = m.ncalls /\ w.nsets = m.nsets
  BY <1>1, <1>3 DEF Machine, Truncated
<1>5. Depth(w) = h /\ \A k \in 1 .. h : w.frames[k] = m.frames[k] /\ k \in 1 .. Depth(m)
  BY <1>2, <1>3, <1>4 DEF Depth
<1> HIDE DEF w
<1>6. /\ h \in Nat /\ Depth(m) \in Nat /\ h <= Depth(m)
      /\ \A k \in 1 .. Depth(m) : \A u : OpenOn(m, k, u) => u \in Nat
  BY <1>1, <1>2, Observed
<1>7. \A k \in 1 .. h :
        /\ Base(w, k) = Base(m, k) /\ Count(w, k) = Count(m, k) /\ End(w, k) = End(m, k)
        /\ \A r : Reg(w, k, r) = Reg(m, k, r) /\ VarOf(w, k, r) = VarOf(m, k, r)
        /\ \A u : OpenOn(w, k, u) <=> OpenOn(m, k, u)
  BY <1>5 DEF Base, Count, End, Reg, VarOf, OpenOn
<1>8. /\ \A x : OnStack(w, x) = OnStack(m, x) /\ InEnv(w, x) = InEnv(m, x)
      /\ \A u : Slot(w, u) = Slot(m, u) /\ Name(w, u) = Name(m, u) /\ Shut(w, u) = Shut(m, u)
      /\ Known(w) = Known(m) /\ Opens(w) = Opens(m)
  BY <1>4 DEF OnStack, InEnv, Slot, Name, Shut, Known, Opens
<1>9. Layout(w)
  BY <1>1, <1>5, <1>6, <1>7 DEF Layout
<1>10. Variabled(w)
  <2>1. \A k \in 1 .. Depth(w) : Len(w.frames[k].vars) = Count(w, k)
    BY <1>1, <1>5, <1>7 DEF Variabled
  <2>2. \A k \in 1 .. h : \A r \in 1 .. Count(w, k) :
          VarOf(w, k, r) \in 1 .. Known(w) /\ OnStack(w, Reg(w, k, r)) = InEnv(w, VarOf(w, k, r))
    BY SMTT(30), <1>1, <1>5, <1>7, <1>8 DEF Variabled
  <2>3. \A k, l \in 1 .. h : \A r \in 1 .. Count(w, k) : \A s \in 1 .. Count(w, l) :
          VarOf(w, k, r) = VarOf(w, l, s) => k = l /\ r = s
    BY <1>1, <1>5, <1>7 DEF Variabled
  <2> QED BY <1>5, <2>1, <2>2, <2>3 DEF Variabled
<1>11. Upvalued(w)
  <2>1. ASSUME NEW u \in 1 .. Opens(m), Slot(m, u) >= 0
        PROVE  \E k \in 1 .. h : OpenOn(w, k, u)
    <3>1. PICK k \in 1 .. Depth(m) : OpenOn(m, k, u)
      BY <1>1, <2>1 DEF Upvalued
    <3>2. k \in 1 .. h
      BY <1>6, <3>1
    <3> QED BY <1>7, <3>1, <3>2
  <2> QED BY <1>1, <1>5, <1>7, <1>8, <2>1 DEF Upvalued
<1>12. Closed(w)
  BY <1>1, <1>4, <1>5, <1>8 DEF Closed
<1>13. Controlled(w)
  <2>1. \A k \in 2 .. Depth(w) : ReturnsTo(w, k)
    <3> SUFFICES ASSUME NEW k \in 2 .. h PROVE ReturnsTo(w, k)
      BY <1>5
    <3>1. ReturnsTo(m, k)
      BY <1>1, <1>6 DEF Controlled
    <3>2. w.frames[k] = m.frames[k] /\ Count(w, k - 1) = Count(m, k - 1)
      BY <1>5, <1>6, <1>7
    <3> QED BY <1>4, <3>1, <3>2 DEF ReturnsTo
  <2>2. Depth(w) > 0 => w.frames[1].reentrant
    BY <1>1, <1>5, <1>6 DEF Controlled
  <2>3. HandlersOK(w)
    <3>1. \A i \in 1 .. Len(m.handlers) : m.handlers[i] \in 1 .. h
      BY <1>1, <1>6 DEF Controlled, HandlersOK
    <3> QED BY <1>1, <1>4, <1>5, <3>1 DEF Controlled, HandlersOK
  <2>4. ResultOK(w)
    <3>1. Len(w.result) = 0
      BY <1>4, EmptySeq
    <3> QED BY <3>1 DEF ResultOK
  <2> QED BY <2>1, <2>2, <2>3, <2>4 DEF Controlled
<1>14. GoneUpTo(w, Depth(w))
  BY <1>5, <1>6, <1>7, <1>8 DEF GoneUpTo
<1> QED BY <1>4, <1>5, <1>9, <1>10, <1>11, <1>12, <1>13, <1>14 DEF Sound, Well, w

\* Control depends on frames, guards and results only.
LEMMA SameControl ==
  ASSUME NEW m, Controlled(m), NEW w, w.frames = m.frames, w.handlers = m.handlers, w.result = m.result
  PROVE  Controlled(w)
<1>1. Depth(w) = Depth(m) /\ \A k : Count(w, k) = Count(m, k)
  BY DEF Depth, Count
<1>2. \A k \in 2 .. Depth(m) : ReturnsTo(w, k)
  BY <1>1 DEF Controlled, ReturnsTo
<1>3. HandlersOK(w) /\ ResultOK(w)
  BY <1>1 DEF Controlled, HandlersOK, ResultOK
<1> QED BY <1>1, <1>2, <1>3 DEF Controlled

\* The innermost guard, and what is left when it is taken.
LEMMA HandlerFacts ==
  ASSUME NEW m, Sound(m), m.handlers # <<>>
  PROVE  /\ Len(m.handlers) \in Nat \ {0} /\ Last(m.handlers) = m.handlers[Len(m.handlers)]
         /\ Last(m.handlers) \in 1 .. Depth(m)
         /\ \A i \in 1 .. Len(m.handlers) : m.handlers[i] <= Last(m.handlers)
         /\ Front(m.handlers) \in Seq(Nat) /\ Len(Front(m.handlers)) = Len(m.handlers) - 1
         /\ \A i \in 1 .. Len(m.handlers) - 1 : Front(m.handlers)[i] = m.handlers[i]
<1>1. m.handlers \in Seq(Nat) /\ Len(m.handlers) \in Nat /\ HandlersOK(m)
  BY SoundMachine, Fields DEF Controlled
<1>2. Len(m.handlers) # 0
  BY <1>1, EmptySeq
<1>3. \A i \in 1 .. Len(m.handlers) - 1 : m.handlers[i] \in Nat
  BY <1>1, ElementOfSeq
<1>4. /\ Front(m.handlers) \in Seq(Nat) /\ Len(Front(m.handlers)) = Len(m.handlers) - 1
      /\ \A i \in 1 .. Len(m.handlers) - 1 : Front(m.handlers)[i] = m.handlers[i]
  <2>1. /\ SubSeq(m.handlers, 1, Len(m.handlers) - 1) \in Seq(Nat)
        /\ Len(SubSeq(m.handlers, 1, Len(m.handlers) - 1)) = Len(m.handlers) - 1
        /\ \A i \in 1 .. Len(m.handlers) - 1 : SubSeq(m.handlers, 1, Len(m.handlers) - 1)[i] = m.handlers[i]
    BY <1>1, <1>2, <1>3, SubSeqProperties
  <2> QED BY <2>1 DEF Front
<1>5. Last(m.handlers) = m.handlers[Len(m.handlers)]
  BY DEF Last
<1> QED BY <1>1, <1>2, <1>4, <1>5 DEF HandlersOK

\* The innermost guard is left.
LEMMA DropHandler ==
  ASSUME NEW m, Sound(m), m.handlers # <<>>
  PROVE  /\ Sound([m EXCEPT !.handlers = Front(@)])
         /\ \A h : GoneUpTo(m, h) => GoneUpTo([m EXCEPT !.handlers = Front(@)], h)
         /\ Depth([m EXCEPT !.handlers = Front(@)]) = Depth(m)
<1> DEFINE w == [m EXCEPT !.handlers = Front(@)]
<1>1. m \in Machine(Len(m.clos)) /\ Controlled(m)
  BY SoundMachine
<1>2. /\ Len(m.handlers) \in Nat \ {0} /\ Front(m.handlers) \in Seq(Nat) /\ Len(Front(m.handlers)) = Len(m.handlers) - 1
      /\ \A i \in 1 .. Len(m.handlers) - 1 : Front(m.handlers)[i] = m.handlers[i]
  BY HandlerFacts
<1>3. /\ w \in Machine(Len(m.clos)) /\ w.frames = m.frames /\ w.ups = m.ups /\ w.clos = m.clos /\ w.env = m.env
      /\ w.stack = m.stack /\ w.result = m.result /\ w.handlers = Front(m.handlers)
  BY <1>1, <1>2 DEF Machine
<1> HIDE DEF w
<1>4. Depth(w) = Depth(m) /\ \A k : Count(w, k) = Count(m, k)
  BY <1>3 DEF Depth, Count
<1>5. \A i \in 1 .. Len(w.handlers) : i \in 1 .. Len(m.handlers) /\ w.handlers[i] = m.handlers[i]
  BY <1>2, <1>3
<1>6. Controlled(w)
  <2>1. \A k \in 2 .. Depth(m) : ReturnsTo(w, k)
    BY <1>1, <1>3, <1>4, <1>5 DEF Controlled, ReturnsTo
  <2>2. HandlersOK(w)
    BY <1>1, <1>4, <1>5 DEF Controlled, HandlersOK
  <2>3. ResultOK(w)
    BY <1>1, <1>3, <1>4, <1>5 DEF Controlled, ResultOK
  <2> QED BY <1>1, <1>3, <1>4, <2>1, <2>2, <2>3 DEF Controlled
<1>7. \A x : OnStack(w, x) = OnStack(m, x)
  BY <1>3 DEF OnStack
<1> QED BY <1>3, <1>4, <1>6, <1>7, Bookkeeping DEF w

\* creme_abort.
LEMMA AbortKeeps ==
  ASSUME NEW m, Sound(m), m.result = <<>>, m.handlers # <<>> => GoneUpTo(m, Last(m.handlers))
  PROVE  Kept(creme_abort(m))
<1>1. m \in Machine(Len(m.clos)) /\ Controlled(m)
  BY SoundMachine
<1>2. CASE m.handlers = <<>>
  <2> DEFINE w == [m EXCEPT !.exited = TRUE]
  <2>1. /\ w \in Machine(Len(m.clos)) /\ w.frames = m.frames /\ w.ups = m.ups /\ w.clos = m.clos /\ w.env = m.env
        /\ w.stack = m.stack /\ w.result = m.result /\ w.handlers = m.handlers /\ w.exited = TRUE
    BY <1>1 DEF Machine
  <2>2. creme_abort(m) = w
    BY <1>2 DEF creme_abort
  <2> HIDE DEF w
  <2>3. Controlled(w)
    BY <1>1, <2>1, SameControl
  <2>4. \A x : OnStack(w, x) = OnStack(m, x)
    BY <2>1 DEF OnStack
  <2>5. Sound(w)
    BY <2>1, <2>3, <2>4, Bookkeeping
  <2> QED BY <2>1, <2>2, <2>5 DEF Kept
<1>3. CASE m.handlers # <<>>
  <2> DEFINE h == Last(m.handlers)
             c == close_upvalues(m, h)
             t == Truncated(c, h)
  <2>1. h \in 1 .. Depth(m) /\ \A i \in 1 .. Len(m.handlers) : m.handlers[i] <= h
    BY <1>3, HandlerFacts
  <2>2. Depth(m) \in Nat
    BY SoundMachine, Observed
  <2>3. h \in Nat /\ GoneUpTo(m, h) /\ h \in 0 .. Depth(m)
    BY <1>3, <2>1, <2>2
  <2>4. creme_abort(m) = [t EXCEPT !.handlers = Front(@)]
    BY <1>3 DEF creme_abort, Truncated
  <2> HIDE DEF h, c, t
  <2>5. /\ Sound(c) /\ GoneUpTo(c, h) /\ \A k \in 1 .. Depth(m) : k > h => \A u \in Nat : ~ OpenOn(c, k, u)
        /\ Depth(c) = Depth(m) /\ c.handlers = m.handlers /\ c.result = m.result
    BY <2>3, CloseKeeps, CloseEffect DEF c
  <2>6. Well(t) /\ t.handlers = c.handlers /\ Depth(t) = h
    BY <2>1, <2>3, <2>5, TruncateKeeps DEF t
  <2>7. Sound(t) /\ GoneUpTo(t, Depth(t)) /\ t.handlers # <<>>
    BY <1>3, <2>5, <2>6 DEF Well
  <2> QED BY <2>4, <2>7, DropHandler DEF Kept
<1> QED BY <1>2, <1>3

\* w is m with a frame f on top, whose variables are new and have the values vals.
Entered(m, w, f, vals) ==
  /\ w \in Machine(Len(m.clos)) /\ f \in FrameRecord /\ vals \in Seq(Value(Len(m.clos)))
  /\ w.frames = Append(m.frames, f) /\ w.ups = m.ups /\ w.clos = m.clos /\ w.handlers = m.handlers
  /\ w.result = m.result /\ m.result = <<>> /\ w.env = m.env \o vals
  /\ Len(vals) = nvars(f.chunk) /\ f.opened = <<>>
  /\ f.vars = [i \in 1 .. nvars(f.chunk) |-> Len(m.env) + i]
  /\ f.base + num_registers(f.chunk) <= stack_cap
  /\ IF f.closure = 0 THEN f.chunk = "main"
     ELSE f.closure \in 1 .. Len(m.clos) /\ m.clos[f.closure].chunk = f.chunk
  /\ Depth(m) = 0 => f.reentrant
  /\ Depth(m) > 0 => /\ f.base = End(m, Depth(m))
                     /\ f.return_reg <= Count(m, Depth(m)) /\ f.wait.reg <= Count(m, Depth(m))
                     /\ f.reentrant /\ f.wait.tail => \A i \in 1 .. Len(m.handlers) : m.handlers[i] # Depth(m)
  /\ \A k \in 1 .. Depth(m) : \A r \in 1 .. Count(m, k) : OnStack(w, Reg(m, k, r)) = OnStack(m, Reg(m, k, r))
  /\ \A i \in 1 .. Len(vals) : OnStack(w, f.base + i - 1) = vals[i]

LEMMA EnterKeeps ==
  ASSUME NEW m, Well(m), NEW w, NEW f, NEW vals, Entered(m, w, f, vals)
  PROVE  Well(w) /\ Depth(w) = Depth(m) + 1
<1> DEFINE n == Len(m.clos)
           d == Depth(m) + 1
           N == nvars(f.chunk)
<1>1. /\ m \in Machine(n) /\ n \in Nat /\ GoneUpTo(m, Depth(m))
      /\ Layout(m) /\ Variabled(m) /\ Upvalued(m) /\ Closed(m) /\ Controlled(m)
  BY SoundMachine DEF Well
<1>a. /\ w \in Machine(n) /\ f \in FrameRecord /\ vals \in Seq(Value(n))
      /\ w.frames = Append(m.frames, f) /\ w.ups = m.ups /\ w.clos = m.clos /\ w.handlers = m.handlers
      /\ w.result = m.result /\ m.result = <<>> /\ w.env = m.env \o vals
  BY DEF Entered
<1>b. /\ Len(vals) = N /\ f.opened = <<>>
      /\ f.vars = [i \in 1 .. N |-> Len(m.env) + i]
      /\ f.base + num_registers(f.chunk) <= stack_cap
      /\ IF f.closure = 0 THEN f.chunk = "main"
         ELSE f.closure \in 1 .. Len(m.clos) /\ m.clos[f.closure].chunk = f.chunk
  BY DEF Entered
<1>c. /\ Depth(m) = 0 => f.reentrant
      /\ Depth(m) > 0 => /\ f.base = End(m, Depth(m))
                         /\ f.return_reg <= Count(m, Depth(m)) /\ f.wait.reg <= Count(m, Depth(m))
                         /\ f.reentrant /\ f.wait.tail => \A i \in 1 .. Len(m.handlers) : m.handlers[i] # Depth(m)
  BY DEF Entered
<1>d. /\ \A k \in 1 .. Depth(m) : \A r \in 1 .. Count(m, k) : OnStack(w, Reg(m, k, r)) = OnStack(m, Reg(m, k, r))
      /\ \A i \in 1 .. N : OnStack(w, f.base + i - 1) = vals[i]
  BY DEF Entered
<1>2. /\ stack_cap \in Nat /\ MaxArgs \in Nat /\ Depth(m) \in Nat /\ Known(m) \in Nat /\ Opens(m) \in Nat
      /\ \A k \in 1 .. Depth(m) : Base(m, k) \in Nat /\ Count(m, k) \in Nat /\ End(m, k) = Base(m, k) + Count(m, k) + 1 + MaxArgs
      /\ \A k \in 1 .. Depth(m) : \A u : OpenOn(m, k, u) => u \in Nat
  BY <1>1, Observed
<1>3. N \in Nat /\ f.base \in Nat /\ num_registers(f.chunk) = N + 1 + MaxArgs
  BY <1>a, FrameFields
<1>4. /\ Depth(w) = d /\ w.frames[d] = f
      /\ \A k \in 1 .. Depth(m) : w.frames[k] = m.frames[k]
  <2>1. m.frames \in Seq(FrameRecord)
    BY <1>1, Fields
  <2> QED BY <1>a, <2>1, AppendProperties DEF Depth
<1>5. /\ Known(w) = Known(m) + N /\ \A x \in 1 .. Known(m) : InEnv(w, x) = InEnv(m, x)
      /\ \A i \in 1 .. N : InEnv(w, Known(m) + i) = vals[i]
  <2>1. m.env \in Seq(Value(n)) /\ Len(m.env) = Known(m)
    BY <1>1, Fields DEF Known
  <2> DEFINE e == m.env \o vals
  <2>2. /\ Len(e) = Len(m.env) + Len(vals)
        /\ \A x \in 1 .. Len(m.env) + Len(vals) : e[x] = IF x <= Len(m.env) THEN m.env[x] ELSE vals[x - Len(m.env)]
    BY <1>a, <2>1, ConcatProperties
  <2>3. w.env = e
    BY <1>a
  <2> HIDE DEF e
  <2>4. /\ Known(w) = Known(m) + N
        /\ \A x \in 1 .. Known(m) + N : InEnv(w, x) = IF x <= Known(m) THEN InEnv(m, x) ELSE vals[x - Known(m)]
    BY <1>b, <2>2, <2>3 DEF Known, InEnv
  <2> HIDE DEF N
  <2>5. ASSUME NEW i \in 1 .. N PROVE InEnv(w, Known(m) + i) = vals[i]
    <3> DEFINE x == Known(m) + i
    <3>1. x \in 1 .. Known(m) + N /\ ~ (x <= Known(m)) /\ x - Known(m) = i
      BY <1>2, <1>3
    <3> HIDE DEF x
    <3>2. InEnv(w, x) = vals[i]
      BY <2>4, <3>1
    <3> QED BY <3>2 DEF x
  <2>6. ASSUME NEW x \in 1 .. Known(m) PROVE InEnv(w, x) = InEnv(m, x)
    <3>1. x \in 1 .. Known(m) + N /\ x <= Known(m)
      BY <1>2, <1>3
    <3> QED BY <2>4, <3>1
  <2> QED BY <2>4, <2>5, <2>6
<1>6. /\ \A u : Slot(w, u) = Slot(m, u) /\ Name(w, u) = Name(m, u) /\ Shut(w, u) = Shut(m, u)
      /\ Opens(w) = Opens(m)
  BY <1>a DEF Slot, Name, Shut, Opens
<1>7. \A k \in 1 .. Depth(m) :
        /\ Base(w, k) = Base(m, k) /\ Count(w, k) = Count(m, k) /\ End(w, k) = End(m, k)
        /\ \A r : Reg(w, k, r) = Reg(m, k, r) /\ VarOf(w, k, r) = VarOf(m, k, r)
        /\ \A u : OpenOn(w, k, u) <=> OpenOn(m, k, u)
  BY <1>4 DEF Base, Count, End, Reg, VarOf, OpenOn
<1>8. /\ Base(w, d) = f.base /\ Count(w, d) = N /\ End(w, d) = f.base + num_registers(f.chunk)
      /\ \A r : Reg(w, d, r) = f.base + r - 1
      /\ \A r \in 1 .. N : VarOf(w, d, r) = Known(m) + r
      /\ \A u : ~ OpenOn(w, d, u)
  <2>1. \A u : ~ OpenOn(w, d, u)
    BY <1>4, <1>b, EmptySeq DEF OpenOn
  <2>2. \A r \in 1 .. N : VarOf(w, d, r) = Known(m) + r
    BY <1>4, <1>b DEF VarOf, Known
  <2> QED BY <1>4, <2>1, <2>2 DEF Base, Count, End, Reg
<1> HIDE DEF N
<1>9. d \in Nat /\ \A k \in 1 .. d : k \in 1 .. Depth(m) \/ k = d
  BY <1>2
<1>10. Layout(w)
  <2>1. \A k \in 1 .. d : End(w, k) <= stack_cap
    BY <1>1, <1>7, <1>8, <1>9, <1>b DEF Layout
  <2>2. Depth(m) > 0 => Base(w, d) = End(w, d - 1)
    BY <1>2, <1>7, <1>8, <1>c
  <2>3. \A k \in 2 .. d : Base(w, k) = End(w, k - 1)
    <3> SUFFICES ASSUME NEW k \in 2 .. d PROVE Base(w, k) = End(w, k - 1)
      OBVIOUS
    <3>1. CASE k = d
      BY <1>2, <2>2, <3>1
    <3>2. CASE k # d
      <4>1. k \in 2 .. Depth(m) /\ k \in 1 .. Depth(m) /\ k - 1 \in 1 .. Depth(m)
        BY <1>2, <3>2
      <4> QED BY <1>1, <1>7, <4>1 DEF Layout
    <3> QED BY <3>1, <3>2
  <2>4. \A k \in 1 .. Depth(m) : End(m, k) <= f.base
    <3> SUFFICES ASSUME NEW k \in 1 .. Depth(m) PROVE End(m, k) <= f.base
      OBVIOUS
    <3>1. f.base = End(m, Depth(m)) /\ Depth(m) \in 1 .. Depth(m)
      BY <1>2, <1>c
    <3>2. k < Depth(m) => End(m, k) <= Base(m, Depth(m))
      BY <1>1, <3>1 DEF Layout
    <3>3. /\ End(m, Depth(m)) = Base(m, Depth(m)) + Count(m, Depth(m)) + 1 + MaxArgs
          /\ Base(m, Depth(m)) \in Nat /\ Count(m, Depth(m)) \in Nat /\ MaxArgs \in Nat /\ End(m, k) \in Nat
      BY <1>2, <3>1
    <3>4. Base(m, Depth(m)) <= End(m, Depth(m)) /\ End(m, Depth(m)) \in Nat
      BY <3>3
    <3>5. k < Depth(m) \/ k = Depth(m)
      <4>1. Depth(m) \in Nat
        BY <1>2
      <4> QED BY <4>1
    <3> QED BY <3>1, <3>2, <3>3, <3>4, <3>5
  <2>5. \A k, l \in 1 .. d : k < l => End(w, k) <= Base(w, l)
    <3> SUFFICES ASSUME NEW k \in 1 .. d, NEW l \in 1 .. d, k < l PROVE End(w, k) <= Base(w, l)
      OBVIOUS
    <3>1. k \in 1 .. Depth(m)
      <4>1. k \in Nat /\ l \in Nat /\ 1 <= k /\ l <= Depth(m) + 1
        BY <1>9
      <4> QED BY <1>2, <4>1
    <3>2. CASE l = d
      BY <1>7, <1>8, <2>4, <3>1, <3>2
    <3>3. CASE l # d
      BY <1>1, <1>7, <1>9, <3>1, <3>3 DEF Layout
    <3> QED BY <3>2, <3>3
  <2> QED BY <1>4, <2>1, <2>3, <2>5 DEF Layout
<1>11. \A k \in 1 .. Depth(m) : \A r \in 1 .. Count(m, k) :
         /\ VarOf(m, k, r) \in 1 .. Known(m)
         /\ OnStack(m, Reg(m, k, r)) = InEnv(m, VarOf(m, k, r))
  BY <1>1 DEF Variabled
<1>12. Variabled(w)
  <2>1. \A k \in 1 .. d : Len(w.frames[k].vars) = Count(w, k)
    <3>1. Len(f.vars) = N
      <4>1. f.vars \in Seq(Nat) /\ DOMAIN f.vars = 1 .. N
        BY <1>a, <1>b, FrameFields DEF N
      <4> QED BY <1>3, <4>1, LenProperties
    <3>2. Len(w.frames[d].vars) = Count(w, d)
      BY <1>4, <1>8, <3>1
    <3>3. \A k \in 1 .. Depth(m) : Len(w.frames[k].vars) = Count(w, k)
      BY <1>1, <1>4, <1>7 DEF Variabled
    <3> QED BY <1>9, <3>2, <3>3
  <2>2. ASSUME NEW k \in 1 .. d, NEW r \in 1 .. Count(w, k)
        PROVE  VarOf(w, k, r) \in 1 .. Known(w) /\ OnStack(w, Reg(w, k, r)) = InEnv(w, VarOf(w, k, r))
    <3>1. CASE k = d
      <4>1. r \in 1 .. N /\ VarOf(w, k, r) = Known(m) + r /\ Reg(w, k, r) = f.base + r - 1
        BY <1>8, <2>2, <3>1
      <4>2. OnStack(w, f.base + r - 1) = vals[r] /\ InEnv(w, Known(m) + r) = vals[r]
        BY <1>5, <1>d, <4>1 DEF N
      <4>3. Known(m) + r \in 1 .. Known(m) + N
        BY <1>2, <1>3, <4>1
      <4> QED BY <1>5, <4>1, <4>2, <4>3
    <3>2. CASE k # d
      <4>1. k \in 1 .. Depth(m) /\ r \in 1 .. Count(m, k)
        BY <1>7, <1>9, <2>2, <3>2
      <4>2. VarOf(w, k, r) = VarOf(m, k, r) /\ Reg(w, k, r) = Reg(m, k, r) /\ VarOf(m, k, r) \in 1 .. Known(m)
        BY <1>7, <1>11, <4>1
      <4>3. VarOf(m, k, r) \in 1 .. Known(w)
        BY <1>2, <1>3, <1>5, <4>2
      <4> QED BY <1>5, <1>11, <1>d, <4>1, <4>2, <4>3
    <3> QED BY <3>1, <3>2
  <2>3. ASSUME NEW k \in 1 .. d, NEW l \in 1 .. d, NEW r \in 1 .. Count(w, k), NEW s \in 1 .. Count(w, l),
               VarOf(w, k, r) = VarOf(w, l, s)
        PROVE  k = l /\ r = s
    <3>1. CASE k = d /\ l = d
      BY <1>2, <1>3, <1>8, <2>3, <3>1
    <3>2. CASE k # d /\ l # d
      BY <1>1, <1>7, <1>9, <2>3, <3>2 DEF Variabled
    <3>3. CASE k = d /\ l # d
      <4>1. VarOf(w, k, r) = Known(m) + r /\ r \in 1 .. N
        BY <1>8, <3>3
      <4>2. VarOf(w, l, s) \in 1 .. Known(m)
        BY <1>7, <1>9, <1>11, <3>3
      <4> QED BY <1>2, <1>3, <2>3, <4>1, <4>2
    <3>4. CASE k # d /\ l = d
      <4>1. VarOf(w, l, s) = Known(m) + s /\ s \in 1 .. N
        BY <1>8, <3>4
      <4>2. VarOf(w, k, r) \in 1 .. Known(m)
        BY <1>7, <1>9, <1>11, <3>4
      <4> QED BY <1>2, <1>3, <2>3, <4>1, <4>2
    <3> QED BY <3>1, <3>2, <3>3, <3>4
  <2> QED BY <1>4, <2>1, <2>2, <2>3 DEF Variabled
<1>13. \A u \in 1 .. Opens(m) : Name(m, u) \in 1 .. Known(m) /\ Name(m, u) \in 1 .. Known(w)
  <2>1. \A u \in 1 .. Opens(m) : Name(m, u) \in 1 .. Known(m)
    BY <1>1 DEF Upvalued
  <2> QED BY <1>2, <1>3, <1>5, <2>1
<1>14. Upvalued(w)
  <2>1. ASSUME NEW u \in 1 .. Opens(m)
        PROVE  /\ Slot(m, u) >= 0 => \E k \in 1 .. d : OpenOn(w, k, u)
               /\ Slot(m, u) < 0 => SharedSetters \/ Shut(m, u) = InEnv(w, Name(m, u))
    <3>1. Slot(m, u) >= 0 => \E k \in 1 .. Depth(m) : OpenOn(m, k, u)
      BY <1>1 DEF Upvalued
    <3>2. Slot(m, u) < 0 => SharedSetters \/ Shut(m, u) = InEnv(m, Name(m, u))
      BY <1>1 DEF Upvalued
    <3>3. \A k \in 1 .. Depth(m) : k \in 1 .. d
      BY <1>2
    <3> QED BY <1>5, <1>7, <1>13, <3>1, <3>2, <3>3
  <2>2. ASSUME NEW k \in 1 .. d, NEW u \in Nat, OpenOn(w, k, u)
        PROVE  /\ u \in 1 .. Opens(m)
               /\ \E r \in 1 .. Count(w, k) : Slot(w, u) = Reg(w, k, r) /\ Name(w, u) = VarOf(w, k, r)
    <3>1. k \in 1 .. Depth(m)
      BY <1>8, <1>9, <2>2
    <3>2. OpenOn(m, k, u)
      BY <1>7, <2>2, <3>1
    <3> QED BY <1>1, <1>6, <1>7, <3>1, <3>2 DEF Upvalued
  <2> QED BY <1>4, <1>6, <1>13, <2>1, <2>2 DEF Upvalued
<1>15. Closed(w)
  <2>1. \A i \in 1 .. Len(w.clos) :
          /\ Len(w.clos[i].upvalues) = Len(Code[w.clos[i].chunk].captures)
          /\ \A j \in 1 .. Len(w.clos[i].upvalues) : w.clos[i].upvalues[j] \in 1 .. Opens(w)
    BY <1>1, <1>6, <1>a DEF Closed
  <2>2. ASSUME NEW k \in 1 .. d
        PROVE  IF w.frames[k].closure = 0 THEN w.frames[k].chunk = "main"
               ELSE w.frames[k].closure \in 1 .. Len(w.clos) /\ w.clos[w.frames[k].closure].chunk = w.frames[k].chunk
    <3>1. CASE k = d
      BY <1>4, <1>a, <1>b, <3>1
    <3>2. CASE k # d
      <4>1. k \in 1 .. Depth(m) /\ w.frames[k] = m.frames[k]
        BY <1>4, <1>9, <3>2
      <4> QED BY <1>1, <1>a, <4>1 DEF Closed
    <3> QED BY <3>1, <3>2
  <2> QED BY <1>4, <2>1, <2>2 DEF Closed
<1>16. Controlled(w)
  <2>1. w.frames[1].reentrant
    BY <1>1, <1>2, <1>4, <1>c DEF Controlled
  <2>2. ASSUME NEW k \in 2 .. d PROVE ReturnsTo(w, k)
    <3>1. CASE k = d
      <4>0. d >= 2 /\ Depth(m) \in Nat
        BY <1>2, <3>1
      <4>1. Depth(m) > 0 /\ d - 1 = Depth(m) /\ Depth(m) \in 1 .. Depth(m)
        BY <4>0
      <4>2. Count(w, d - 1) = Count(m, Depth(m))
        BY <1>7, <4>1
      <4> QED BY <1>4, <1>a, <1>c, <3>1, <4>1, <4>2 DEF ReturnsTo
    <3>2. CASE k # d
      <4>1. k \in 2 .. Depth(m) /\ k \in 1 .. Depth(m) /\ k - 1 \in 1 .. Depth(m)
        BY <1>2, <3>2
      <4>2. w.frames[k] = m.frames[k] /\ Count(w, k - 1) = Count(m, k - 1) /\ ReturnsTo(m, k)
        BY <1>1, <1>4, <1>7, <4>1 DEF Controlled
      <4> QED BY <1>a, <4>2 DEF ReturnsTo
    <3> QED BY <3>1, <3>2
  <2>3. HandlersOK(w)
    <3>1. \A i \in 1 .. Len(m.handlers) : m.handlers[i] \in 1 .. d
      BY <1>1, <1>2 DEF Controlled, HandlersOK
    <3> QED BY <1>1, <1>4, <1>a, <3>1 DEF Controlled, HandlersOK
  <2>4. ResultOK(w)
    <3>1. Len(w.result) = 0
      BY <1>a, EmptySeq
    <3> QED BY <3>1 DEF ResultOK
  <2> QED BY <1>4, <2>1, <2>2, <2>3, <2>4 DEF Controlled
<1>17. GoneUpTo(w, d)
  <2> SUFFICES ASSUME NEW u \in 1 .. Opens(m), Slot(m, u) < 0, NEW k \in 1 .. d, NEW r \in 1 .. Count(w, k)
               PROVE  VarOf(w, k, r) # Name(m, u)
    BY <1>4, <1>6 DEF GoneUpTo
  <2>1. CASE k = d
    <3>1. VarOf(w, k, r) = Known(m) + r /\ r \in 1 .. N
      BY <1>8, <2>1
    <3> QED BY <1>2, <1>3, <1>13, <3>1
  <2>2. CASE k # d
    <3>1. k \in 1 .. Depth(m) /\ k <= Depth(m)
      BY <1>2, <2>2
    <3> QED BY <1>1, <1>7, <3>1 DEF GoneUpTo
  <2> QED BY <2>1, <2>2
<1> QED BY <1>4, <1>10, <1>12, <1>14, <1>15, <1>16, <1>17, <1>a DEF Sound, Well

\* w is m after the r-th variable of frame k got the value v.
Assigned(m, w, k, r, v) ==
  /\ w \in Machine(Len(m.clos)) /\ w.clos = m.clos /\ w.frames = m.frames /\ w.ups = m.ups /\ Known(w) = Known(m)
  /\ \A x \in 0 .. stack_cap - 1 : OnStack(w, x) = IF x = Reg(m, k, r) THEN v ELSE OnStack(m, x)
  /\ \A x \in 1 .. Known(m) : InEnv(w, x) = IF x = VarOf(m, k, r) THEN v ELSE InEnv(m, x)

LEMMA AssignKeeps ==
  ASSUME NEW m, Well(m), NEW w, NEW k \in 1 .. Depth(m), NEW r \in 1 .. Count(m, k), NEW v, Assigned(m, w, k, r, v),
         Controlled(w)
  PROVE  Well(w)
<1>1. /\ m \in Machine(Len(m.clos)) /\ Len(m.clos) \in Nat
      /\ Layout(m) /\ Variabled(m) /\ Upvalued(m) /\ Closed(m) /\ GoneUpTo(m, Depth(m))
  BY SoundMachine DEF Well
<1>2. w \in Machine(Len(m.clos)) /\ w.clos = m.clos /\ w.frames = m.frames /\ w.ups = m.ups /\ Known(w) = Known(m)
  BY DEF Assigned
<1>3. /\ \A x \in 0 .. stack_cap - 1 : OnStack(w, x) = IF x = Reg(m, k, r) THEN v ELSE OnStack(m, x)
      /\ \A x \in 1 .. Known(m) : InEnv(w, x) = IF x = VarOf(m, k, r) THEN v ELSE InEnv(m, x)
  BY DEF Assigned
<1>4. /\ Depth(w) = Depth(m) /\ Opens(w) = Opens(m)
      /\ \A u : Slot(w, u) = Slot(m, u) /\ Name(w, u) = Name(m, u) /\ Shut(w, u) = Shut(m, u)
  BY <1>2 DEF Depth, Opens, Slot, Name, Shut
<1>5. \A l : /\ Base(w, l) = Base(m, l) /\ Count(w, l) = Count(m, l) /\ End(w, l) = End(m, l)
             /\ \A s : Reg(w, l, s) = Reg(m, l, s) /\ VarOf(w, l, s) = VarOf(m, l, s)
             /\ \A u : OpenOn(w, l, u) <=> OpenOn(m, l, u)
  BY <1>2 DEF Base, Count, End, Reg, VarOf, OpenOn
<1>6. Layout(w)
  BY <1>1, <1>4, <1>5 DEF Layout
<1>7. Variabled(w)
  <2>1. \A l \in 1 .. Depth(m) : Len(w.frames[l].vars) = Count(w, l)
    BY <1>1, <1>2, <1>5 DEF Variabled
  <2>2. ASSUME NEW l \in 1 .. Depth(m), NEW s \in 1 .. Count(m, l)
        PROVE  VarOf(m, l, s) \in 1 .. Known(m) /\ OnStack(w, Reg(m, l, s)) = InEnv(w, VarOf(m, l, s))
    <3>1. VarOf(m, l, s) \in 1 .. Known(m) /\ OnStack(m, Reg(m, l, s)) = InEnv(m, VarOf(m, l, s))
      BY <1>1 DEF Variabled
    <3>2. Reg(m, l, s) \in 0 .. stack_cap - 1
      BY <1>1, RegsApart
    <3>3. CASE l = k /\ s = r
      BY <1>3, <3>1, <3>2, <3>3
    <3>4. CASE ~ (l = k /\ s = r)
      <4>1. Reg(m, l, s) # Reg(m, k, r)
        BY <1>1, <3>4, RegsApart
      <4>2. VarOf(m, l, s) # VarOf(m, k, r)
        BY <1>1, <3>4 DEF Variabled
      <4> QED BY <1>3, <3>1, <3>2, <4>1, <4>2
    <3> QED BY <3>3, <3>4
  <2>3. \A l, j \in 1 .. Depth(m) : \A s \in 1 .. Count(m, l) : \A t \in 1 .. Count(m, j) :
          VarOf(m, l, s) = VarOf(m, j, t) => l = j /\ s = t
    BY <1>1 DEF Variabled
  <2> QED BY <1>2, <1>4, <1>5, <2>1, <2>2, <2>3 DEF Variabled
<1>8. Upvalued(w)
  <2>1. ASSUME NEW u \in 1 .. Opens(m)
        PROVE  /\ Name(m, u) \in 1 .. Known(m)
               /\ Slot(m, u) >= 0 => \E l \in 1 .. Depth(m) : OpenOn(m, l, u)
               /\ Slot(m, u) < 0 => SharedSetters \/ Shut(m, u) = InEnv(w, Name(m, u))
    <3>1. /\ Name(m, u) \in 1 .. Known(m)
          /\ Slot(m, u) >= 0 => \E l \in 1 .. Depth(m) : OpenOn(m, l, u)
          /\ Slot(m, u) < 0 => SharedSetters \/ Shut(m, u) = InEnv(m, Name(m, u))
      BY <1>1 DEF Upvalued
    <3>2. k <= Depth(m)
      <4>1. Depth(m) \in Nat
        BY <1>1, Observed
      <4> QED BY <4>1
    <3>3. Slot(m, u) < 0 => VarOf(m, k, r) # Name(m, u)
      BY <1>1, <3>2 DEF GoneUpTo
    <3> QED BY <1>3, <3>1, <3>3
  <2>2. \A l \in 1 .. Depth(m) : \A u \in Nat : OpenOn(m, l, u) =>
          /\ u \in 1 .. Opens(m)
          /\ \E s \in 1 .. Count(m, l) : Slot(m, u) = Reg(m, l, s) /\ Name(m, u) = VarOf(m, l, s)
    BY <1>1 DEF Upvalued
  <2> QED BY <1>2, <1>4, <1>5, <2>1, <2>2 DEF Upvalued
<1>9. Closed(w)
  BY <1>1, <1>2, <1>4 DEF Closed
<1>10. GoneUpTo(w, Depth(w))
  BY <1>1, <1>4, <1>5 DEF GoneUpTo
<1> QED BY <1>2, <1>6, <1>7, <1>8, <1>9, <1>10 DEF Sound, Well

\* The frame that runs.
LEMMA TopFrame ==
  ASSUME NEW m, Sound(m), Depth(m) > 0
  PROVE  /\ frame(m) = m.frames[Depth(m)] /\ Depth(m) \in 1 .. Depth(m) /\ frame(m) \in FrameRecord
         /\ frame(m).base = Base(m, Depth(m)) /\ nvars(frame(m).chunk) = Count(m, Depth(m))
         /\ NextBase(m) = End(m, Depth(m))
         /\ m.frames # <<>>
<1>1. m \in Machine(Len(m.clos)) /\ Len(m.clos) \in Nat
  BY SoundMachine
<1>2. Depth(m) \in 1 .. Depth(m)
  BY <1>1, Observed
<1>3. frame(m) = m.frames[Depth(m)]
  BY DEF frame, Last, Depth
<1>4. frame(m) \in FrameRecord
  BY <1>1, <1>2, <1>3, Fields DEF Depth
<1>5. m.frames # <<>>
  BY <1>2, EmptySeq DEF Depth
<1> QED BY <1>2, <1>3, <1>4, <1>5 DEF Base, Count, End, NextBase

\* A result is put into a register of the frame that runs.
LEMMA StoreKeeps ==
  ASSUME NEW m, Well(m), Depth(m) > 0, NEW reg \in Nat, reg <= Count(m, Depth(m)), NEW v \in Value(Len(m.clos))
  PROVE  Well(Store(m, reg, v))
<1> DEFINE w == Store(m, reg, v)
           d == Depth(m)
           f == frame(m)
           n == Len(m.clos)
<1>1. /\ m \in Machine(n) /\ n \in Nat /\ Sound(m) /\ GoneUpTo(m, d)
      /\ Layout(m) /\ Variabled(m) /\ Controlled(m)
  BY SoundMachine DEF Well
<1>2. d \in 1 .. d /\ f.base = Base(m, d) /\ nvars(f.chunk) = Count(m, d) /\ f = m.frames[d]
  BY <1>1, TopFrame
<1>3. /\ Base(m, d) \in Nat /\ Count(m, d) \in Nat /\ MaxArgs \in Nat /\ stack_cap \in Nat
      /\ End(m, d) = Base(m, d) + Count(m, d) + 1 + MaxArgs /\ End(m, d) <= stack_cap
      /\ \A r : Reg(m, d, r) = Base(m, d) + r - 1
      /\ d \in Nat
  BY <1>1, <1>2, Observed DEF Layout
<1>4. m.stack \in [0 .. stack_cap - 1 -> Value(n)] /\ m.env \in Seq(Value(n)) /\ Len(m.env) = Known(m)
  BY <1>1, Fields DEF Known
<1> DEFINE x == f.base + reg
           stack == [m.stack EXCEPT ![x] = v]
           env == IF reg < nvars(f.chunk) THEN [m.env EXCEPT ![f.vars[reg + 1]] = v] ELSE m.env
<1>5. w = [m EXCEPT !.stack = stack, !.env = env]
  BY DEF Store
<1>6. x \in 0 .. stack_cap - 1
  BY <1>2, <1>3
<1>7. stack \in [0 .. stack_cap - 1 -> Value(n)] /\ \A y \in 0 .. stack_cap - 1 : stack[y] = IF y = x THEN v ELSE m.stack[y]
  BY <1>4, <1>6
<1>8. reg < nvars(f.chunk) => reg + 1 \in 1 .. Count(m, d) /\ x = Reg(m, d, reg + 1)
  BY <1>2, <1>3
<1>9. reg < nvars(f.chunk) => f.vars[reg + 1] = VarOf(m, d, reg + 1) /\ VarOf(m, d, reg + 1) \in 1 .. Known(m)
  <2>1. f.vars[reg + 1] = VarOf(m, d, reg + 1)
    BY <1>2 DEF VarOf
  <2>2. reg < nvars(f.chunk) => VarOf(m, d, reg + 1) \in 1 .. Known(m)
    BY <1>1, <1>2, <1>8 DEF Variabled
  <2> QED BY <2>1, <2>2
<1>10. /\ env \in Seq(Value(n)) /\ Len(env) = Known(m)
       /\ reg < nvars(f.chunk) => \A y \in 1 .. Known(m) : env[y] = IF y = VarOf(m, d, reg + 1) THEN v ELSE m.env[y]
       /\ ~ (reg < nvars(f.chunk)) => env = m.env
  <2>1. CASE reg < nvars(f.chunk)
    <3> DEFINE z == VarOf(m, d, reg + 1)
               e == m.env
    <3>1. env = [e EXCEPT ![z] = v] /\ z \in 1 .. Len(e) /\ e \in Seq(Value(n)) /\ Len(e) = Known(m)
      BY <1>4, <1>9, <2>1
    <3> HIDE DEF env, z, e
    <3>2. /\ env \in Seq(Value(n)) /\ Len(env) = Known(m)
          /\ \A y \in 1 .. Known(m) : env[y] = IF y = z THEN v ELSE e[y]
      BY <3>1, ExceptSeq
    <3> QED BY <2>1, <3>2 DEF z, e
  <2>2. CASE ~ (reg < nvars(f.chunk))
    BY <1>4, <2>2
  <2> QED BY <2>1, <2>2
<1> HIDE DEF stack, env, w
<1>11. /\ w \in Machine(n) /\ w.stack = stack /\ w.env = env /\ w.frames = m.frames /\ w.ups = m.ups /\ w.clos = m.clos
       /\ w.handlers = m.handlers /\ w.result = m.result
  BY <1>1, <1>5, <1>7, <1>10 DEF Machine
<1>12. Controlled(w)
  BY <1>1, <1>11, SameControl
<1>13. CASE reg < nvars(f.chunk)
  <2>1. Assigned(m, w, d, reg + 1, v)
    BY <1>7, <1>8, <1>10, <1>11, <1>13 DEF Assigned, OnStack, InEnv, Known
  <2> QED BY <1>2, <1>8, <1>12, <1>13, <2>1, AssignKeeps DEF w
<1>14. CASE ~ (reg < nvars(f.chunk))
  <2>1. ASSUME NEW k \in 1 .. d, NEW r \in 1 .. Count(m, k) PROVE OnStack(w, Reg(m, k, r)) = OnStack(m, Reg(m, k, r))
    <3>1. /\ Reg(m, k, r) \in 0 .. stack_cap - 1 /\ Reg(m, k, r) \in Nat
          /\ Reg(m, k, r) >= Base(m, k) /\ Reg(m, k, r) < Base(m, k) + Count(m, k)
      BY <1>1, RegsApart
    <3>2. Reg(m, k, r) # x
      <4>1. x >= Base(m, d) + Count(m, d) /\ x \in Nat
        BY <1>2, <1>3, <1>14
      <4>2. CASE k = d
        BY <1>3, <3>1, <4>1, <4>2
      <4>3. CASE k # d
        <5>1. k < d
          BY <1>3, <4>3
        <5>2. End(m, k) <= Base(m, d)
          BY <1>1, <1>2, <5>1 DEF Layout
        <5>3. Base(m, k) \in Nat /\ Count(m, k) \in Nat /\ End(m, k) = Base(m, k) + Count(m, k) + 1 + MaxArgs
          BY <1>1, Observed
        <5> QED BY SMTT(60), <1>3, <3>1, <4>1, <5>2, <5>3
      <4> QED BY <4>2, <4>3
    <3> QED BY <1>7, <1>11, <3>1, <3>2 DEF OnStack
  <2>2. Sound(w) /\ GoneUpTo(w, d)
    BY <1>1, <1>10, <1>11, <1>12, <1>14, <2>1, Bookkeeping
  <2>3. Depth(w) = d
    BY <1>11 DEF Depth
  <2> QED BY <2>2, <2>3 DEF Well, w
<1> QED BY <1>13, <1>14

LEMMA SmallMod ==
  ASSUME NEW a \in Nat, NEW b \in Nat, a < b
  PROVE  a % b = a
  OBVIOUS

\* An item is a number or a closure.
LEMMA ItemFacts ==
  ASSUME NEW n \in Nat, NEW x \in Item(n)
  PROVE  /\ x \in Value(n) /\ x[1] # 3 /\ x # bi_first
         /\ x[1] = 1 => x[2] \in 1 .. n
<1>1. CASE x \in {number(i) : i \in Int}
  BY <1>1 DEF number, Value, Item, bi_first
<1>2. CASE x \in {v_closure(id) : id \in 1 .. n}
  BY <1>2 DEF v_closure, Value, Item, bi_first
<1> QED BY <1>1, <1>2 DEF Item

\* The parameters and what they mean.
LEMMA MeantFacts ==
  ASSUME NEW n \in Nat, NEW c \in DOMAIN Code, NEW args \in Seq(Item(n)), accepts(c, Len(args))
  PROVE  /\ Meant(c, args) \in Seq(Value(n)) /\ Len(Meant(c, args)) = nvars(c)
         /\ Code[c].params \in Nat /\ Code[c].params <= Len(args) /\ nvars(c) = Code[c].params + (IF Code[c].rest THEN 1 ELSE 0)
         /\ Code[c].rest \in BOOLEAN
         /\ \A i \in 1 .. Code[c].params : Meant(c, args)[i] = args[i]
         /\ Code[c].rest => Meant(c, args)[Code[c].params + 1] = v_list(SubSeq(args, Code[c].params + 1, Len(args)))
<1> DEFINE p == Code[c].params
           r == Code[c].rest
           q == SubSeq(args, 1, p)
           l == SubSeq(args, p + 1, Len(args))
           z == IF r THEN <<v_list(l)>> ELSE <<>>
<1>1. p \in Nat /\ r \in BOOLEAN /\ Len(args) \in Nat /\ \A i \in 1 .. Len(args) : args[i] \in Item(n) /\ args[i] \in Value(n)
  <2>1. Code[c] \in [params : Nat, rest : BOOLEAN, captures : Seq(BOOLEAN \X Nat), protos : Seq(DOMAIN Code)]
    BY CodeAssumption
  <2> QED BY <2>1, SeqFacts, ItemFacts
<1>2. p <= Len(args)
  BY <1>1 DEF accepts
<1>3. nvars(c) = p + (IF r THEN 1 ELSE 0)
  BY DEF nvars
<1>4. /\ q \in Seq(Value(n)) /\ Len(q) = p /\ \A i \in 1 .. p : q[i] = args[i]
  <2>1. \A i \in 1 .. p : args[i] \in Value(n)
    BY <1>1, <1>2
  <2> HIDE DEF p
  <2> QED BY <1>1, <2>1, SubSeqProperties
<1>5. l \in Seq(Item(n))
  <2>1. \A i \in p + 1 .. Len(args) : args[i] \in Item(n)
    BY <1>1
  <2>2. p + 1 \in Int /\ Len(args) \in Int
    BY <1>1
  <2> HIDE DEF p
  <2> QED BY <2>1, <2>2, SubSeqProperties
<1>6. v_list(l) \in Value(n)
  BY <1>5 DEF Value
<1>7. z \in Seq(Value(n)) /\ Len(z) = (IF r THEN 1 ELSE 0) /\ (r => z[1] = v_list(l))
  <2>1. CASE r
    BY <1>6, <2>1
  <2>2. CASE ~ r
    BY <2>2, EmptySeq
  <2> QED BY <2>1, <2>2
<1>8. Meant(c, args) = q \o z
  BY DEF Meant
<1> HIDE DEF p, r, q, l, z
<1>9. /\ q \o z \in Seq(Value(n)) /\ Len(q \o z) = Len(q) + Len(z)
      /\ \A i \in 1 .. Len(q) + Len(z) : (q \o z)[i] = IF i <= Len(q) THEN q[i] ELSE z[i - Len(q)]
  BY <1>4, <1>7, ConcatProperties
<1>10. \A i \in 1 .. p : (q \o z)[i] = args[i]
  <2> SUFFICES ASSUME NEW i \in 1 .. p PROVE (q \o z)[i] = args[i]
    OBVIOUS
  <2>1. i \in 1 .. Len(q) + Len(z) /\ i <= Len(q)
    BY <1>1, <1>4, <1>7
  <2> QED BY <1>4, <1>9, <2>1
<1>11. r => (q \o z)[p + 1] = v_list(l)
  <2> SUFFICES ASSUME r PROVE (q \o z)[p + 1] = v_list(l)
    OBVIOUS
  <2> DEFINE i == p + 1
  <2>1. i \in 1 .. Len(q) + Len(z) /\ ~ (i <= Len(q)) /\ i - Len(q) = 1
    BY <1>1, <1>4, <1>7
  <2> HIDE DEF i
  <2>2. (q \o z)[i] = z[1]
    BY <1>9, <2>1
  <2> QED BY <1>7, <2>2 DEF i
<1>12. Len(Meant(c, args)) = nvars(c)
  BY <1>3, <1>4, <1>7, <1>8, <1>9
<1> QED BY <1>1, <1>2, <1>3, <1>8, <1>9, <1>10, <1>11, <1>12 DEF p, r, l

\* The arguments are in the registers from `from` on, and the new window
\* begins where the running one does, or behind them.
Loaded(n, stack, args, from) ==
  /\ stack \in [0 .. stack_cap - 1 -> Value(n)] /\ args \in Seq(Item(n)) /\ from \in Nat
  /\ from + Len(args) <= stack_cap
  /\ \A i \in 1 .. Len(args) : stack[from + i - 1] = args[i]

\* bind_args binds every parameter to what it means.
LEMMA BindFacts ==
  ASSUME NEW n \in Nat, NEW stack, NEW args, NEW from, Loaded(n, stack, args, from),
         NEW c \in DOMAIN Code, accepts(c, Len(args)),
         NEW to \in Nat, to + num_registers(c) <= stack_cap, to <= from \/ from + Len(args) <= to
  PROVE  /\ bind_args(stack, c, Len(args), to, from) \in [0 .. stack_cap - 1 -> Value(n)]
         /\ \A x \in 0 .. stack_cap - 1 : x < to \/ x >= to + nvars(c) =>
              bind_args(stack, c, Len(args), to, from)[x] = stack[x]
         /\ \A i \in 1 .. nvars(c) : bind_args(stack, c, Len(args), to, from)[to + i - 1] = Meant(c, args)[i]
<1> DEFINE p == Code[c].params
           len == Len(args)
           s == CopyUp(stack, to, from, p)
           rest == [i \in 1 .. (len - p) |-> s[from + p + i - 1]]
           b == bind_args(stack, c, len, to, from)
<1>1. /\ stack \in [0 .. stack_cap - 1 -> Value(n)] /\ args \in Seq(Item(n)) /\ from \in Nat
      /\ from + len <= stack_cap
      /\ \A i \in 1 .. len : stack[from + i - 1] = args[i]
  BY DEF Loaded
<1>2. /\ len \in Nat /\ \A i \in 1 .. len : args[i] \in Item(n)
  BY <1>1, SeqFacts
<1>3. /\ p \in Nat /\ p <= len /\ nvars(c) = p + (IF Code[c].rest THEN 1 ELSE 0) /\ Code[c].rest \in BOOLEAN
      /\ Meant(c, args) \in Seq(Value(n)) /\ Len(Meant(c, args)) = nvars(c)
      /\ \A i \in 1 .. p : Meant(c, args)[i] = args[i]
      /\ Code[c].rest => Meant(c, args)[p + 1] = v_list(SubSeq(args, p + 1, len))
  BY <1>1, MeantFacts
<1>4. /\ stack_cap \in Nat /\ MaxArgs \in Nat /\ num_registers(c) = nvars(c) + 1 + MaxArgs /\ to + nvars(c) < stack_cap
      /\ nvars(c) \in Nat /\ to + p <= to + nvars(c)
  <2>1. stack_cap \in Nat
    BY BoundsAssumption
  <2>2. nvars(c) \in Nat /\ MaxArgs \in Nat /\ num_registers(c) = nvars(c) + 1 + MaxArgs
    BY Sizes
  <2> HIDE DEF p
  <2> QED BY <1>3, <2>1, <2>2
<1>5. s = [r \in 0 .. stack_cap - 1 |->
             IF r - to \notin 0 .. (p - 1) THEN stack[r]
             ELSE IF to <= from THEN stack[from + (r - to)] ELSE stack[from + ((r - to) % (to - from))]]
  BY <1>1 DEF CopyUp
<1> HIDE DEF s, p, len
<1>a. /\ p \in Nat /\ len \in Nat /\ p <= len /\ to + p < stack_cap /\ stack_cap \in Nat
      /\ from \in Nat /\ from + len <= stack_cap
  <2>1. p \in Nat /\ len \in Nat /\ p <= len
    BY <1>2, <1>3
  <2>2. to + p < stack_cap
    <3>1. /\ to + nvars(c) < stack_cap /\ nvars(c) \in Nat /\ to + p <= to + nvars(c) /\ stack_cap \in Nat
      BY <1>4
    <3> QED BY <2>1, <3>1
  <2> QED BY <1>1, <1>4, <2>1, <2>2
<1>6. ASSUME NEW x \in 0 .. stack_cap - 1, x < to \/ x >= to + p PROVE s[x] = stack[x]
  <2>1. x - to \notin 0 .. (p - 1)
    BY <1>3, <1>6
  <2> QED BY <1>5, <2>1
<1>7. ASSUME NEW i \in 1 .. p PROVE to + i - 1 \in 0 .. stack_cap - 1 /\ s[to + i - 1] = args[i]
  <2> DEFINE x == to + i - 1
  <2>1. x \in 0 .. stack_cap - 1 /\ x - to \in 0 .. (p - 1) /\ x - to = i - 1 /\ i \in Nat
    BY <1>a
  <2>2. i \in 1 .. len
    BY <1>2, <1>3
  <2> HIDE DEF x
  <2>3. CASE to <= from
    <3>1. s[x] = stack[from + (x - to)]
      BY <1>5, <2>1, <2>3
    <3>2. from + (x - to) = from + i - 1
      BY <1>1, <2>1
    <3> QED BY <1>1, <2>1, <2>2, <3>1, <3>2 DEF x
  <2>4. CASE ~ (to <= from)
    <3>1. s[x] = stack[from + ((x - to) % (to - from))]
      BY <1>5, <2>1, <2>4
    <3>2. x - to \in Nat /\ to - from \in Nat /\ x - to < to - from
      BY <1>1, <1>2, <1>3, <2>1, <2>4 DEF len
    <3>3. (x - to) % (to - from) = x - to
      BY <3>2, SmallMod
    <3>4. from + (x - to) = from + i - 1
      BY <1>1, <2>1
    <3> QED BY <1>1, <2>1, <2>2, <3>1, <3>3, <3>4 DEF x
  <2> QED BY <2>3, <2>4
<1>8. s \in [0 .. stack_cap - 1 -> Value(n)]
  <2>1. ASSUME NEW x \in 0 .. stack_cap - 1 PROVE s[x] \in Value(n)
    <3>1. CASE x < to \/ x >= to + p
      BY <1>1, <1>6, <3>1
    <3>2. CASE ~ (x < to \/ x >= to + p)
      <4> DEFINE i == x - to + 1
      <4>1. i \in 1 .. p /\ to + i - 1 = x /\ i \in 1 .. len
        BY <1>2, <1>3, <3>2
      <4> HIDE DEF i
      <4> QED BY <1>2, <1>7, <4>1, ItemFacts
    <3> QED BY <3>1, <3>2
  <2>2. DOMAIN s = 0 .. stack_cap - 1 /\ s = [x \in 0 .. stack_cap - 1 |-> s[x]]
    BY <1>5
  <2> QED BY <2>1, <2>2
<1>9. CASE ~ Code[c].rest
  <2>1. b = s
    BY <1>9 DEF bind_args, s, p, len
  <2>2. nvars(c) = p
    BY <1>3, <1>9
  <2> QED BY <1>3, <1>6, <1>7, <1>8, <2>1, <2>2 DEF len
<1>10. CASE Code[c].rest
  <2>1. b = [s EXCEPT ![to + p] = v_list(rest)]
    BY <1>10 DEF bind_args, s, p, len
  <2>2. nvars(c) = p + 1
    BY <1>3, <1>10
  <2>3. ASSUME NEW i \in 1 .. (len - p) PROVE s[from + p + i - 1] = args[p + i] /\ p + i \in 1 .. len
    <3> DEFINE x == from + p + i - 1
               j == p + i
    <3>1. x \in 0 .. stack_cap - 1 /\ j \in 1 .. len /\ from + j - 1 = x
      BY <1>1, <1>2, <1>3, <1>4
    <3>2. x < to \/ x >= to + p
      BY <1>1, <1>2, <1>3 DEF len
    <3> HIDE DEF x, j
    <3>3. s[x] = args[j]
      BY <1>1, <1>6, <3>1, <3>2
    <3> QED BY <3>1, <3>3 DEF x, j
  <2>4. rest = SubSeq(args, p + 1, len) /\ rest \in Seq(Item(n))
    <3>1. \A i \in p + 1 .. len : args[i] \in Item(n)
      BY <1>2, <1>3
    <3>2. p + 1 \in Int /\ len \in Int /\ len - p \in Nat
      BY <1>2, <1>3
    <3>3. /\ SubSeq(args, p + 1, len) \in Seq(Item(n))
          /\ Len(SubSeq(args, p + 1, len)) = IF p + 1 <= len THEN len - (p + 1) + 1 ELSE 0
          /\ \A i \in 1 .. len - (p + 1) + 1 : SubSeq(args, p + 1, len)[i] = args[p + 1 + i - 1]
      BY <3>1, <3>2, SubSeqProperties
    <3> DEFINE q == SubSeq(args, p + 1, len)
               m == len - p
    <3>4. Len(q) = m /\ m \in Nat /\ q \in Seq(Item(n)) /\ \A i \in 1 .. m : q[i] = args[p + i]
      BY <1>2, <1>3, <3>2, <3>3
    <3> HIDE DEF q, m
    <3>5. rest = [i \in 1 .. m |-> args[p + i]]
      BY <2>3 DEF m
    <3>6. q = [i \in 1 .. m |-> q[i]]
      BY <3>4, LenProperties
    <3>7. rest = q
      BY <3>4, <3>5, <3>6
    <3> QED BY <3>4, <3>7 DEF q
  <2>5. v_list(rest) \in Value(n) /\ v_list(rest) = Meant(c, args)[p + 1]
    BY <1>3, <1>10, <2>4 DEF Value
  <2> DEFINE t == to + p
             v == v_list(rest)
  <2>6. t \in 0 .. stack_cap - 1
    BY <1>a
  <2> HIDE DEF rest, v, b
  <2>7. b = [s EXCEPT ![t] = v]
    BY <2>1 DEF v
  <2>8. /\ b \in [0 .. stack_cap - 1 -> Value(n)]
        /\ \A x \in 0 .. stack_cap - 1 : b[x] = IF x = t THEN v ELSE s[x]
    BY <1>8, <2>5, <2>6, <2>7 DEF v
  <2>9. ASSUME NEW x \in 0 .. stack_cap - 1, x < to \/ x >= to + nvars(c) PROVE b[x] = stack[x]
    <3>1. x # t /\ (x < to \/ x >= to + p)
      BY <1>3, <1>4, <2>2, <2>9
    <3> QED BY <1>6, <2>8, <3>1
  <2>10. ASSUME NEW i \in 1 .. nvars(c) PROVE b[to + i - 1] = Meant(c, args)[i]
    <3>1. CASE i = p + 1
      <4>1. to + i - 1 = t
        BY <1>3, <3>1
      <4> QED BY <2>5, <2>6, <2>8, <3>1, <4>1 DEF v
    <3>2. CASE i # p + 1
      <4>1. i \in 1 .. p
        BY <1>3, <2>2, <3>2
      <4>2. to + i - 1 # t /\ to + i - 1 \in 0 .. stack_cap - 1
        BY <1>a, <4>1
      <4> QED BY <1>3, <1>7, <2>8, <4>1, <4>2
    <3> QED BY <3>1, <3>2
  <2> QED BY <2>8, <2>9, <2>10 DEF b, len
<1> QED BY <1>9, <1>10

\* A call that can be made: the closure cl, or the main chunk, has room and
\* takes args, which the stack s holds in its parameters.
Callable(m, c, cl, args, s) ==
  /\ c \in DOMAIN Code /\ IF cl = 0 THEN c = "main" ELSE cl \in 1 .. Len(m.clos) /\ m.clos[cl].chunk = c
  /\ args \in Seq(Item(Len(m.clos))) /\ accepts(c, Len(args))
  /\ ~ Full(m, c, NextBase(m))
  /\ s \in [0 .. stack_cap - 1 -> Value(Len(m.clos))]
  /\ \A x \in 0 .. stack_cap - 1 : x < NextBase(m) => s[x] = m.stack[x]
  /\ \A i \in 1 .. nvars(c) : s[NextBase(m) + i - 1] = Meant(c, args)[i]

\* Where the result goes: to a register of the frame that calls, and a
\* builtin in tail position is in no guard of it.
Waits(m, reg, reentrant, wait) ==
  /\ reg \in Nat /\ reentrant \in BOOLEAN /\ wait \in Wait
  /\ reg <= Count(m, Depth(m)) /\ wait.reg <= Count(m, Depth(m))
  /\ reentrant /\ wait.tail => \A i \in 1 .. Len(m.handlers) : m.handlers[i] # Depth(m)

\* Variables are below the next window.
LEMMA BelowNext ==
  ASSUME NEW m, Sound(m), Depth(m) > 0
  PROVE  /\ NextBase(m) \in Nat /\ stack_cap \in Nat
         /\ \A k \in 1 .. Depth(m) : \A r \in 1 .. Count(m, k) :
              /\ Reg(m, k, r) \in 0 .. stack_cap - 1 /\ Reg(m, k, r) < NextBase(m)
              /\ Reg(m, k, r) < Base(m, Depth(m)) + Count(m, Depth(m))
<1> DEFINE d == Depth(m)
<1>1. /\ m \in Machine(Len(m.clos)) /\ Len(m.clos) \in Nat /\ Layout(m)
  BY SoundMachine
<1>2. d \in 1 .. d /\ NextBase(m) = End(m, d)
  BY TopFrame
<1>3. /\ d \in Nat /\ MaxArgs \in Nat /\ stack_cap \in Nat
      /\ \A k \in 1 .. d : Base(m, k) \in Nat /\ Count(m, k) \in Nat /\ End(m, k) = Base(m, k) + Count(m, k) + 1 + MaxArgs
  BY <1>1, Observed
<1>4. NextBase(m) \in Nat
  BY <1>2, <1>3
<1>5. ASSUME NEW k \in 1 .. d, NEW r \in 1 .. Count(m, k)
      PROVE  /\ Reg(m, k, r) \in 0 .. stack_cap - 1 /\ Reg(m, k, r) < NextBase(m)
             /\ Reg(m, k, r) < Base(m, d) + Count(m, d)
  <2>1. /\ Reg(m, k, r) \in 0 .. stack_cap - 1 /\ Reg(m, k, r) \in Nat /\ Reg(m, k, r) < Base(m, k) + Count(m, k)
    BY <1>1, RegsApart
  <2>2. k < d => End(m, k) <= Base(m, d)
    BY <1>1, <1>2 DEF Layout
  <2>3. k = d \/ k < d
    BY <1>3
  <2>4. Base(m, k) + Count(m, k) <= End(m, k) /\ Base(m, d) <= End(m, d)
    BY <1>2, <1>3
  <2> QED BY <1>2, <1>3, <2>1, <2>2, <2>3, <2>4
<1> QED BY <1>3, <1>4, <1>5

\* Push of a frame for a closure that accepts the arguments.
LEMMA PushKeeps ==
  ASSUME NEW m, Well(m), Depth(m) > 0, m.result = <<>>, NEW c, NEW cl, NEW args, NEW s, Callable(m, c, cl, args, s),
         NEW reg, NEW reentrant, NEW wait, Waits(m, reg, reentrant, wait)
  PROVE  Well(Push([m EXCEPT !.stack = s], c, cl, NextBase(m), reg, args, reentrant, wait))
<1> DEFINE n == Len(m.clos)
           d == Depth(m)
           v == [m EXCEPT !.stack = s]
           vals == Meant(c, args)
           f == [chunk |-> c, base |-> NextBase(m), closure |-> cl, return_reg |-> reg,
                 opened |-> <<>>, vars |-> NewVars(v, c), reentrant |-> reentrant, wait |-> wait]
           w == Push(v, c, cl, NextBase(m), reg, args, reentrant, wait)
<1>1. m \in Machine(n) /\ n \in Nat /\ Sound(m) /\ Layout(m)
  BY SoundMachine DEF Well
<1>2. /\ c \in DOMAIN Code /\ (IF cl = 0 THEN c = "main" ELSE cl \in 1 .. n /\ m.clos[cl].chunk = c)
      /\ args \in Seq(Item(n)) /\ accepts(c, Len(args))
      /\ NextBase(m) + num_registers(c) <= stack_cap
      /\ s \in [0 .. stack_cap - 1 -> Value(n)]
      /\ \A x \in 0 .. stack_cap - 1 : x < NextBase(m) => s[x] = m.stack[x]
      /\ \A i \in 1 .. nvars(c) : s[NextBase(m) + i - 1] = vals[i]
  <2>1. NextBase(m) + num_registers(c) <= stack_cap
    <3>1. ~ (NextBase(m) + num_registers(c) > stack_cap) /\ c \in DOMAIN Code
      BY DEF Callable, Full
    <3>2. NextBase(m) \in Nat /\ num_registers(c) \in Nat /\ stack_cap \in Nat
      BY <1>1, <3>1, BelowNext, Sizes
    <3> QED BY <3>1, <3>2
  <2> QED BY <2>1 DEF Callable
<1>3. /\ reg \in Nat /\ reentrant \in BOOLEAN /\ wait \in Wait
      /\ reg <= Count(m, d) /\ wait.reg <= Count(m, d)
      /\ reentrant /\ wait.tail => \A i \in 1 .. Len(m.handlers) : m.handlers[i] # d
  BY DEF Waits
<1>4. NextBase(m) \in Nat /\ NextBase(m) = End(m, d)
  BY <1>1, BelowNext, TopFrame
<1>5. vals \in Seq(Value(n)) /\ Len(vals) = nvars(c) /\ nvars(c) \in Nat
  BY <1>1, <1>2, MeantFacts, Sizes
<1>6. /\ v \in Machine(n) /\ v.stack = s /\ v.frames = m.frames /\ v.ups = m.ups /\ v.clos = m.clos
      /\ v.handlers = m.handlers /\ v.result = m.result /\ v.env = m.env
  BY <1>1, <1>2 DEF Machine
<1>7. m.frames \in Seq(FrameRecord) /\ m.env \in Seq(Value(n)) /\ Len(m.env) \in Nat
  BY <1>1, Fields
<1>8. NewVars(v, c) = [i \in 1 .. nvars(c) |-> Len(m.env) + i] /\ NewVars(v, c) \in Seq(Nat)
  <2>1. NewVars(v, c) = [i \in 1 .. nvars(c) |-> Len(m.env) + i]
    BY <1>6 DEF NewVars
  <2> DEFINE q == NewVars(v, c)
             N == nvars(c)
             L == Len(m.env)
  <2>2. N \in Nat /\ L \in Nat /\ q = [i \in 1 .. N |-> L + i]
    BY <1>5, <1>7, <2>1
  <2> HIDE DEF q, N, L
  <2>3. DOMAIN q = 1 .. N /\ q = [i \in 1 .. N |-> q[i]] /\ \A i \in 1 .. N : q[i] \in Nat
    BY <2>2
  <2>4. q \in Seq(Nat)
    BY <2>2, <2>3, FunctionIsSeq
  <2> QED BY <2>1, <2>4 DEF q
<1> HIDE DEF v, vals
<1>9. f \in FrameRecord
  <2>1. <<>> \in Seq(Nat)
    BY EmptySeq
  <2>2. cl \in Nat
    BY <1>1, <1>2
  <2> QED BY <1>2, <1>3, <1>4, <1>8, <2>1, <2>2 DEF FrameRecord
<1>10. w = [[v EXCEPT !.env = v.env \o vals] EXCEPT !.frames = Append(v.frames, f)]
  <2>1. WithVariables(v, c, args) = [v EXCEPT !.env = v.env \o vals]
    BY DEF WithVariables, vals
  <2>2. v \in Machine(n) => [v EXCEPT !.env = v.env \o vals].frames = v.frames
    BY DEF Machine
  <2> QED BY <1>6, <2>1, <2>2 DEF Push
<1>11. m.env \o vals \in Seq(Value(n)) /\ Append(m.frames, f) \in Seq(FrameRecord)
  BY <1>5, <1>7, <1>9, ConcatProperties, AppendProperties
<1>12. /\ f.chunk = c /\ f.base = NextBase(m) /\ f.closure = cl /\ f.return_reg = reg /\ f.opened = <<>>
       /\ f.vars = NewVars(v, c) /\ f.reentrant = reentrant /\ f.wait = wait
  OBVIOUS
<1> HIDE DEF f, w
<1>13. /\ w \in Machine(n) /\ w.stack = s /\ w.frames = Append(m.frames, f) /\ w.ups = m.ups /\ w.clos = m.clos
       /\ w.handlers = m.handlers /\ w.result = m.result /\ w.env = m.env \o vals
  <2> DEFINE e == m.env \o vals
             g == Append(m.frames, f)
             v1 == [v EXCEPT !.env = e]
  <2>1. w = [v1 EXCEPT !.frames = g] /\ e \in Seq(Value(n)) /\ g \in Seq(FrameRecord)
    BY <1>6, <1>10, <1>11
  <2> HIDE DEF e, g
  <2>2. /\ v1 \in Machine(n) /\ v1.stack = s /\ v1.ups = m.ups /\ v1.clos = m.clos
        /\ v1.handlers = m.handlers /\ v1.result = m.result /\ v1.env = e
    BY <1>6, <2>1 DEF Machine
  <2> HIDE DEF v1
  <2>3. /\ w \in Machine(n) /\ w.stack = s /\ w.frames = g /\ w.ups = m.ups /\ w.clos = m.clos
        /\ w.handlers = m.handlers /\ w.result = m.result /\ w.env = e
    BY <2>1, <2>2 DEF Machine
  <2> QED BY <2>3 DEF e, g
<1>14. \A k \in 1 .. d : \A r \in 1 .. Count(m, k) : OnStack(w, Reg(m, k, r)) = OnStack(m, Reg(m, k, r))
  <2>1. \A k \in 1 .. d : \A r \in 1 .. Count(m, k) : Reg(m, k, r) \in 0 .. stack_cap - 1 /\ Reg(m, k, r) < NextBase(m)
    BY <1>1, BelowNext
  <2> QED BY <1>2, <1>13, <2>1 DEF OnStack
<1>15. \A i \in 1 .. Len(vals) : OnStack(w, f.base + i - 1) = vals[i]
  BY <1>2, <1>5, <1>12, <1>13 DEF OnStack, vals
<1>16. Entered(m, w, f, vals)
  <2>1. /\ w \in Machine(n) /\ f \in FrameRecord /\ vals \in Seq(Value(n))
        /\ w.frames = Append(m.frames, f) /\ w.ups = m.ups /\ w.clos = m.clos /\ w.handlers = m.handlers
        /\ w.result = m.result /\ m.result = <<>> /\ w.env = m.env \o vals
    BY <1>5, <1>9, <1>13
  <2>2. /\ Len(vals) = nvars(f.chunk) /\ f.opened = <<>>
        /\ f.vars = [i \in 1 .. nvars(f.chunk) |-> Len(m.env) + i]
        /\ f.base + num_registers(f.chunk) <= stack_cap
        /\ IF f.closure = 0 THEN f.chunk = "main"
           ELSE f.closure \in 1 .. Len(m.clos) /\ m.clos[f.closure].chunk = f.chunk
    BY <1>2, <1>5, <1>8, <1>12
  <2>3. /\ Depth(m) = 0 => f.reentrant
        /\ Depth(m) > 0 => /\ f.base = End(m, Depth(m))
                           /\ f.return_reg <= Count(m, Depth(m)) /\ f.wait.reg <= Count(m, Depth(m))
                           /\ f.reentrant /\ f.wait.tail => \A i \in 1 .. Len(m.handlers) : m.handlers[i] # Depth(m)
    BY <1>3, <1>4, <1>12
  <2> QED BY <1>14, <1>15, <2>1, <2>2, <2>3 DEF Entered
<1>17. Well(w)
  BY <1>16, EnterKeeps
<1> QED BY <1>17 DEF w, v

\* creme_abort, from a machine no frame of which has lost a variable.
LEMMA WellAborts ==
  ASSUME NEW m, Well(m), m.result = <<>>
  PROVE  Kept(creme_abort(m))
<1>1. Sound(m) /\ GoneUpTo(m, Depth(m))
  BY DEF Well
<1>2. Depth(m) \in Nat
  BY <1>1, SoundMachine, Observed
<1>3. m.handlers # <<>> => GoneUpTo(m, Last(m.handlers))
  BY <1>1, <1>2 DEF GoneUpTo
<1> QED BY <1>1, <1>3, AbortKeeps

\* What is on the stack above the variables of all frames may change.
LEMMA StackKeeps ==
  ASSUME NEW m, Well(m), Depth(m) > 0, NEW s \in [0 .. stack_cap - 1 -> Value(Len(m.clos))],
         \A x \in 0 .. stack_cap - 1 : x < Base(m, Depth(m)) + Count(m, Depth(m)) => s[x] = m.stack[x],
         NEW w, w \in Machine(Len(m.clos)), w.stack = s, w.frames = m.frames, w.ups = m.ups, w.clos = m.clos, w.env = m.env,
         w.handlers = m.handlers, w.result = m.result
  PROVE  Well(w) /\ Depth(w) = Depth(m)
<1>1. Sound(m) /\ GoneUpTo(m, Depth(m)) /\ Controlled(m)
  BY SoundMachine DEF Well
<1>2. Controlled(w)
  BY <1>1, SameControl
<1>3. \A k \in 1 .. Depth(m) : \A r \in 1 .. Count(m, k) : OnStack(w, Reg(m, k, r)) = OnStack(m, Reg(m, k, r))
  BY <1>1, BelowNext DEF OnStack
<1>4. Depth(w) = Depth(m)
  BY DEF Depth
<1> QED BY <1>1, <1>2, <1>3, <1>4, Bookkeeping DEF Well

\* A machine that runs, with the arguments of a call in their registers.
ArgBase(m) == frame(m).base + nvars(frame(m).chunk) + 1
Ready(m, args) ==
  /\ Well(m) /\ Depth(m) > 0 /\ m.result = <<>>
  /\ Len(args) <= MaxArgs /\ Loaded(Len(m.clos), m.stack, args, ArgBase(m))

\* Where the arguments of a call of the frame on top are put.
LEMMA ArgFacts ==
  ASSUME NEW m, Sound(m), Depth(m) > 0
  PROVE  /\ ArgBase(m) = Base(m, Depth(m)) + Count(m, Depth(m)) + 1
         /\ frame(m).base = Base(m, Depth(m)) /\ nvars(frame(m).chunk) = Count(m, Depth(m))
         /\ Base(m, Depth(m)) \in Nat /\ Count(m, Depth(m)) \in Nat /\ MaxArgs \in Nat /\ stack_cap \in Nat
         /\ NextBase(m) = ArgBase(m) + MaxArgs /\ NextBase(m) <= stack_cap /\ ArgBase(m) \in Nat
<1>1. m \in Machine(Len(m.clos)) /\ Len(m.clos) \in Nat /\ Layout(m)
  BY SoundMachine
<1>2. /\ frame(m).base = Base(m, Depth(m)) /\ nvars(frame(m).chunk) = Count(m, Depth(m)) /\ Depth(m) \in 1 .. Depth(m)
      /\ NextBase(m) = End(m, Depth(m))
  BY TopFrame
<1>3. /\ Base(m, Depth(m)) \in Nat /\ Count(m, Depth(m)) \in Nat /\ MaxArgs \in Nat /\ stack_cap \in Nat
      /\ End(m, Depth(m)) = Base(m, Depth(m)) + Count(m, Depth(m)) + 1 + MaxArgs
      /\ End(m, Depth(m)) <= stack_cap
  BY <1>1, <1>2, Observed DEF Layout
<1>4. ArgBase(m) = Base(m, Depth(m)) + Count(m, Depth(m)) + 1
  BY <1>2 DEF ArgBase
<1> QED BY <1>2, <1>3, <1>4

\* LoadArgs leaves the variables alone.
LEMMA LoadKeeps ==
  ASSUME NEW m, Well(m), Depth(m) > 0, m.result = <<>>, NEW args \in Seq(Item(Len(m.clos))), Len(args) <= MaxArgs
  PROVE  /\ Ready(LoadArgs(m, args), args) /\ Depth(LoadArgs(m, args)) = Depth(m)
         /\ LoadArgs(m, args).frames = m.frames /\ LoadArgs(m, args).clos = m.clos
         /\ LoadArgs(m, args).handlers = m.handlers
<1> DEFINE n == Len(m.clos)
           w == LoadArgs(m, args)
           a == frame(m).base + nvars(frame(m).chunk)
           s == [r \in DOMAIN m.stack |-> IF r - a \in DOMAIN args THEN args[r - a] ELSE m.stack[r]]
<1>1. m \in Machine(n) /\ n \in Nat /\ Sound(m)
  BY SoundMachine DEF Well
<1>2. m.stack \in [0 .. stack_cap - 1 -> Value(n)] /\ m.ncalls \in Nat
  BY <1>1, Fields
<1>3. /\ DOMAIN args = 1 .. Len(args) /\ Len(args) \in Nat /\ \A i \in 1 .. Len(args) : args[i] \in Item(n) /\ args[i] \in Value(n)
  BY <1>1, SeqFacts, ItemFacts
<1>4. /\ a = Base(m, Depth(m)) + Count(m, Depth(m)) /\ a \in Nat /\ a + 1 = ArgBase(m) /\ a + 1 + MaxArgs <= stack_cap
      /\ stack_cap \in Nat /\ MaxArgs \in Nat
  BY <1>1, ArgFacts
<1>5. w = [m EXCEPT !.stack = s, !.ncalls = m.ncalls + 1]
  BY DEF LoadArgs
<1> HIDE DEF a
<1>6. s \in [0 .. stack_cap - 1 -> Value(n)]
  BY <1>2, <1>3
<1>7. /\ \A x \in 0 .. stack_cap - 1 : x < a + 1 => s[x] = m.stack[x]
      /\ \A i \in 1 .. Len(args) : s[a + 1 + i - 1] = args[i]
  <2>1. ASSUME NEW x \in 0 .. stack_cap - 1, x < a + 1 PROVE s[x] = m.stack[x]
    <3>1. x - a \notin 1 .. Len(args)
      BY <1>3, <1>4, <2>1
    <3> QED BY <1>2, <1>3, <3>1
  <2>2. ASSUME NEW i \in 1 .. Len(args) PROVE s[a + 1 + i - 1] = args[i]
    <3> DEFINE x == a + 1 + i - 1
    <3>1. x \in 0 .. stack_cap - 1 /\ x - a = i
      BY <1>3, <1>4
    <3> HIDE DEF x
    <3> QED BY <1>2, <1>3, <3>1 DEF x
  <2> QED BY <2>1, <2>2
<1> HIDE DEF s, w
<1>8. /\ w \in Machine(n) /\ w.stack = s /\ w.frames = m.frames /\ w.ups = m.ups /\ w.clos = m.clos /\ w.env = m.env
      /\ w.handlers = m.handlers /\ w.result = m.result
  <2> DEFINE v == [m EXCEPT !.stack = s]
  <2>1. /\ v \in Machine(n) /\ v.stack = s /\ v.frames = m.frames /\ v.ups = m.ups /\ v.clos = m.clos /\ v.env = m.env
        /\ v.handlers = m.handlers /\ v.result = m.result
    BY <1>1, <1>6 DEF Machine
  <2>2. w = [v EXCEPT !.ncalls = m.ncalls + 1] /\ m.ncalls + 1 \in Nat
    BY <1>2, <1>5
  <2> HIDE DEF v
  <2> QED BY <2>1, <2>2 DEF Machine
<1>9. Well(w) /\ Depth(w) = Depth(m)
  <2>1. \A x \in 0 .. stack_cap - 1 : x < Base(m, Depth(m)) + Count(m, Depth(m)) => s[x] = m.stack[x]
    BY <1>4, <1>7
  <2> QED BY <1>6, <1>8, <2>1, StackKeeps
<1>10. ArgBase(w) = a + 1
  <2>1. ArgBase(w) = ArgBase(m)
    BY <1>8 DEF ArgBase, frame
  <2> QED BY <1>4, <2>1
<1>11. Loaded(n, s, args, a + 1)
  BY <1>3, <1>4, <1>6, <1>7 DEF Loaded
<1> QED BY <1>8, <1>9, <1>10, <1>11 DEF Ready, w

LEMMA StackUpdate ==
  ASSUME NEW m, Sound(m), NEW s \in [0 .. stack_cap - 1 -> Value(Len(m.clos))]
  PROVE  /\ [m EXCEPT !.stack = s] \in Machine(Len(m.clos))
         /\ [m EXCEPT !.stack = s].stack = s /\ [m EXCEPT !.stack = s].frames = m.frames
         /\ [m EXCEPT !.stack = s].ups = m.ups /\ [m EXCEPT !.stack = s].clos = m.clos
         /\ [m EXCEPT !.stack = s].env = m.env /\ [m EXCEPT !.stack = s].handlers = m.handlers
         /\ [m EXCEPT !.stack = s].result = m.result
<1> DEFINE n == Len(m.clos)
<1>1. m \in Machine(n)
  BY SoundMachine
<1> HIDE DEF n
<1>2. s \in [0 .. stack_cap - 1 -> Value(n)]
  BY DEF n
<1>3. /\ [m EXCEPT !.stack = s] \in Machine(n)
      /\ [m EXCEPT !.stack = s].stack = s /\ [m EXCEPT !.stack = s].frames = m.frames
      /\ [m EXCEPT !.stack = s].ups = m.ups /\ [m EXCEPT !.stack = s].clos = m.clos
      /\ [m EXCEPT !.stack = s].env = m.env /\ [m EXCEPT !.stack = s].handlers = m.handlers
      /\ [m EXCEPT !.stack = s].result = m.result
  BY <1>1, <1>2 DEF Machine
<1> QED BY <1>3 DEF n

\* The chunk of a closure.
LEMMA ChunkOfClosure ==
  ASSUME NEW m, Sound(m), NEW cl \in 1 .. Len(m.clos)
  PROVE  m.clos[cl].chunk \in DOMAIN Code
<1>1. m.clos[cl] \in Closure
  BY SoundMachine, Fields
<1> QED BY <1>1 DEF Closure

\* The half of dispatch_call that is not a tail call.
LEMMA CallKeeps ==
  ASSUME NEW m, NEW args, Ready(m, args), NEW cl \in 1 .. Len(m.clos), NEW reg \in Nat, reg <= Count(m, Depth(m))
  PROVE  Kept(CallClosure(m, cl, args, reg, ArgBase(m)))
<1> DEFINE n == Len(m.clos)
           c == m.clos[cl].chunk
           s == bind_args(m.stack, c, Len(args), NextBase(m), ArgBase(m))
           w == [m EXCEPT !.stack = s]
<1>1. /\ Well(m) /\ Sound(m) /\ Depth(m) > 0 /\ m.result = <<>> /\ Len(args) <= MaxArgs
      /\ Loaded(n, m.stack, args, ArgBase(m)) /\ n \in Nat /\ m \in Machine(n)
  BY SoundMachine DEF Ready, Well
<1>2. CASE Full(m, c, NextBase(m)) \/ ~ accepts(c, Len(args))
  <2>1. CallClosure(m, cl, args, reg, ArgBase(m)) = creme_abort(m)
    BY <1>2 DEF CallClosure
  <2> QED BY <1>1, <2>1, WellAborts
<1>3. CASE ~ (Full(m, c, NextBase(m)) \/ ~ accepts(c, Len(args)))
  <2>1. c \in DOMAIN Code
    BY <1>1, ChunkOfClosure
  <2>2. /\ NextBase(m) \in Nat /\ NextBase(m) = ArgBase(m) + MaxArgs /\ ArgBase(m) \in Nat /\ MaxArgs \in Nat
        /\ ArgBase(m) = Base(m, Depth(m)) + Count(m, Depth(m)) + 1
        /\ Base(m, Depth(m)) \in Nat /\ Count(m, Depth(m)) \in Nat
    BY <1>1, ArgFacts
  <2>3. args \in Seq(Item(n)) /\ Len(args) \in Nat
    BY <1>1, LenProperties DEF Loaded
  <2>4. ArgBase(m) + Len(args) <= NextBase(m)
    BY <1>1, <2>2, <2>3
  <2>5. NextBase(m) + num_registers(c) <= stack_cap
    <3>1. num_registers(c) \in Nat /\ stack_cap \in Nat
      BY <2>1, Sizes, BoundsAssumption
    <3> QED BY <1>3, <2>2, <3>1 DEF Full
  <2> HIDE DEF n, c
  <2>6. /\ s \in [0 .. stack_cap - 1 -> Value(n)]
        /\ \A x \in 0 .. stack_cap - 1 : x < NextBase(m) \/ x >= NextBase(m) + nvars(c) => s[x] = m.stack[x]
        /\ \A i \in 1 .. nvars(c) : s[NextBase(m) + i - 1] = Meant(c, args)[i]
    BY SMTT(30), <1>1, <1>3, <2>1, <2>2, <2>4, <2>5, BindFacts
  <2> HIDE DEF s, w
  <2>7. Callable(m, c, cl, args, s)
    <3>1. cl # 0
      BY <1>1
    <3> QED BY <1>3, <2>1, <2>3, <2>6, <3>1 DEF Callable, n, c
  <2>8. CASE Len(m.frames) >= frames_cap
    <3>1. CallClosure(m, cl, args, reg, ArgBase(m)) = creme_abort(w)
      BY <1>3, <2>8 DEF CallClosure, w, s, c
    <3>2. \A x \in 0 .. stack_cap - 1 : x < Base(m, Depth(m)) + Count(m, Depth(m)) => s[x] = m.stack[x]
      BY <2>2, <2>6
    <3>3. /\ w \in Machine(n) /\ w.stack = s /\ w.frames = m.frames /\ w.ups = m.ups /\ w.clos = m.clos
          /\ w.env = m.env /\ w.handlers = m.handlers /\ w.result = m.result
      BY <1>1, <2>6, StackUpdate DEF n, w
    <3>4. Well(w) /\ w.result = <<>>
      BY <1>1, <2>6, <3>2, <3>3, StackKeeps DEF n
    <3> QED BY <3>1, <3>4, WellAborts
  <2>9. CASE ~ (Len(m.frames) >= frames_cap)
    <3>1. CallClosure(m, cl, args, reg, ArgBase(m)) = Push(w, c, cl, NextBase(m), reg, args, FALSE, NoWait)
      BY <1>3, <2>9 DEF CallClosure, w, s, c
    <3>2. Waits(m, reg, FALSE, NoWait)
      <4>1. NoWait \in Wait /\ NoWait.reg = 0
        BY DEF NoWait, Wait
      <4> QED BY <2>2, <4>1 DEF Waits
    <3>3. Well(Push(w, c, cl, NextBase(m), reg, args, FALSE, NoWait))
      BY <1>1, <2>7, <3>2, PushKeeps DEF w
    <3> QED BY <3>1, <3>3 DEF Kept, Well
  <2> QED BY <2>8, <2>9
<1> QED BY <1>2, <1>3

\* A builtin is done, and what it does next is not.
LEMMA ResultKeeps ==
  ASSUME NEW m, Well(m), m.result = <<>>, NEW v \in Value(Len(m.clos)), NEW wait \in Wait,
         Depth(m) > 0 => wait.reg <= Count(m, Depth(m)),
         Depth(m) > 0 /\ wait.tail => \A i \in 1 .. Len(m.handlers) : m.handlers[i] # Depth(m)
  PROVE  Well([m EXCEPT !.result = Append(@, [value |-> v, wait |-> wait])])
<1> DEFINE n == Len(m.clos)
           x == [value |-> v, wait |-> wait]
           q == Append(m.result, x)
           w == [m EXCEPT !.result = q]
<1>1. m \in Machine(n) /\ n \in Nat /\ Sound(m) /\ GoneUpTo(m, Depth(m)) /\ Controlled(m)
  BY SoundMachine DEF Well
<1>2. x \in Result(n)
  BY DEF Result
<1>3. q \in Seq(Result(n)) /\ Len(q) = 1 /\ q[1] = x
  <2>1. m.result \in Seq(Result(n)) /\ Len(m.result) = 0
    BY <1>1, Fields, EmptySeq
  <2> HIDE DEF x
  <2>2. q \in Seq(Result(n)) /\ Len(q) = Len(m.result) + 1 /\ q[Len(m.result) + 1] = x
    BY <1>2, <2>1, AppendProperties
  <2> QED BY <2>1, <2>2
<1>4. x.wait = wait
  OBVIOUS
<1> HIDE DEF x, q, w
<1>5. /\ w \in Machine(n) /\ w.result = q /\ w.frames = m.frames /\ w.ups = m.ups /\ w.clos = m.clos /\ w.env = m.env
      /\ w.stack = m.stack /\ w.handlers = m.handlers
  BY <1>1, <1>3 DEF Machine, w
<1>6. Depth(w) = Depth(m) /\ \A k : Count(w, k) = Count(m, k)
  BY <1>5 DEF Depth, Count
<1>7. Controlled(w)
  <2>1. \A k \in 2 .. Depth(m) : ReturnsTo(w, k)
    BY <1>1, <1>5, <1>6 DEF Controlled, ReturnsTo
  <2>2. HandlersOK(w)
    BY <1>1, <1>5, <1>6 DEF Controlled, HandlersOK
  <2>3. ResultOK(w)
    <3>1. Len(w.result) = 1 /\ w.result[1].wait = wait
      BY <1>3, <1>4, <1>5
    <3> QED BY <1>5, <1>6, <3>1 DEF ResultOK
  <2> QED BY <1>1, <1>5, <1>6, <2>1, <2>2, <2>3 DEF Controlled
<1>8. \A y : OnStack(w, y) = OnStack(m, y)
  BY <1>5 DEF OnStack
<1>9. Well(w)
  BY <1>1, <1>5, <1>6, <1>7, <1>8, Bookkeeping DEF Well
<1> QED BY <1>9 DEF w, q, x

\* deliver_return.
LEMMA ReturnKeeps ==
  ASSUME NEW m, Well(m), Depth(m) > 0, m.result = <<>>, NEW v \in Value(Len(m.clos)),
         \A i \in 1 .. Len(m.handlers) : m.handlers[i] # Depth(m)
  PROVE  Well(deliver_return(m, v))
<1> DEFINE d == Depth(m)
           h == Depth(m) - 1
           n == Len(m.clos)
           f == frame(m)
           c == close_upvalues(m, Len(m.frames) - 1)
           t == Truncated(c, h)
<1>1. m \in Machine(n) /\ n \in Nat /\ Sound(m) /\ GoneUpTo(m, d) /\ Controlled(m)
  BY SoundMachine DEF Well
<1>2. d \in Nat /\ d \in 1 .. d /\ f = m.frames[d] /\ f \in FrameRecord
  BY <1>1, Observed, TopFrame
<1>3. h \in Nat /\ h \in 0 .. d /\ h < d
  BY <1>2
<1>4. GoneUpTo(m, h)
  BY <1>1, <1>2, <1>3 DEF GoneUpTo
<1>5. c = close_upvalues(m, h)
  BY DEF Depth
<1> HIDE DEF c, h
<1>6. /\ Sound(c) /\ GoneUpTo(c, h) /\ \A k \in 1 .. d : k > h => \A u \in Nat : ~ OpenOn(c, k, u)
      /\ Depth(c) = d /\ c.handlers = m.handlers /\ c.result = m.result /\ c.clos = m.clos
      /\ \A k \in 1 .. d : k <= h => c.frames[k] = m.frames[k]
  BY <1>1, <1>3, <1>4, <1>5, CloseKeeps, CloseEffect
<1>7. \A i \in 1 .. Len(m.handlers) : m.handlers[i] <= h
  <2>1. \A i \in 1 .. Len(m.handlers) : m.handlers[i] \in 1 .. d
    BY <1>1 DEF Controlled, HandlersOK
  <2> QED BY <1>2, <2>1 DEF h
<1>8. /\ Well(t) /\ Depth(t) = h /\ t.handlers = m.handlers /\ t.result = <<>> /\ t.clos = m.clos
      /\ \A k \in 1 .. h : t.frames[k] = m.frames[k]
  <2>1. /\ Well(t) /\ Depth(t) = h /\ t.handlers = c.handlers /\ t.result = c.result /\ t.clos = c.clos
        /\ \A k \in 1 .. h : t.frames[k] = c.frames[k]
    BY <1>3, <1>6, <1>7, TruncateKeeps
  <2>2. \A k \in 1 .. h : k \in 1 .. d /\ k <= h
    BY <1>2, <1>3
  <2> QED BY <1>6, <2>1, <2>2
<1>9. [c EXCEPT !.frames = Front(@)] = t
  <2>1. Len(c.frames) - 1 = h
    BY <1>6 DEF Depth, h
  <2> QED BY <2>1 DEF Truncated, Front
<1> HIDE DEF t
<1>10. deliver_return(m, v) = IF f.reentrant THEN [t EXCEPT !.result = Append(@, [value |-> v, wait |-> f.wait])]
                              ELSE Store(t, f.return_reg, v)
  BY <1>9 DEF deliver_return, c
<1>11. h > 0 => /\ f.return_reg <= Count(t, h) /\ f.wait.reg <= Count(t, h)
                /\ f.reentrant /\ f.wait.tail => \A i \in 1 .. Len(m.handlers) : m.handlers[i] # h
  <2> SUFFICES ASSUME h > 0
               PROVE  /\ f.return_reg <= Count(t, h) /\ f.wait.reg <= Count(t, h)
                      /\ f.reentrant /\ f.wait.tail => \A i \in 1 .. Len(m.handlers) : m.handlers[i] # h
    OBVIOUS
  <2>1. d \in 2 .. d /\ d - 1 = h /\ h \in 1 .. h
    BY <1>2, <1>3 DEF h
  <2>2. ReturnsTo(m, d)
    BY <1>1, <2>1 DEF Controlled
  <2>3. Count(t, h) = Count(m, h)
    BY <1>8, <2>1 DEF Count
  <2> QED BY <1>2, <2>1, <2>2, <2>3 DEF ReturnsTo
<1>12. f.wait \in Wait /\ f.return_reg \in Nat
  BY <1>2, FrameFields
<1>13. CASE f.reentrant
  <2>1. deliver_return(m, v) = [t EXCEPT !.result = Append(@, [value |-> v, wait |-> f.wait])]
    BY <1>10, <1>13
  <2> DEFINE wt == f.wait
  <2>2. /\ wt \in Wait /\ Depth(t) > 0 => wt.reg <= Count(t, Depth(t))
        /\ Depth(t) > 0 /\ wt.tail => \A i \in 1 .. Len(t.handlers) : t.handlers[i] # Depth(t)
    BY <1>8, <1>11, <1>12, <1>13
  <2> HIDE DEF wt
  <2>3. Well([t EXCEPT !.result = Append(@, [value |-> v, wait |-> wt])])
    BY <1>8, <1>12, <2>2, ResultKeeps DEF wt
  <2> QED BY <2>1, <2>3 DEF wt
<1>14. CASE ~ f.reentrant
  <2>1. h > 0
    <3>1. d # 1
      BY <1>1, <1>2, <1>14 DEF Controlled
    <3> QED BY <1>2, <3>1 DEF h
  <2>2. deliver_return(m, v) = Store(t, f.return_reg, v)
    BY <1>10, <1>14
  <2> DEFINE reg == f.return_reg
  <2>3. reg \in Nat /\ reg <= Count(t, Depth(t))
    BY <1>8, <1>11, <1>12, <2>1
  <2> HIDE DEF reg
  <2>4. Well(Store(t, reg, v))
    BY <1>8, <2>1, <2>3, StoreKeeps
  <2> QED BY <2>2, <2>4 DEF reg
<1> QED BY <1>13, <1>14

\* A builtin's callback: the arguments come from C.
LEMMA CallbackKeeps ==
  ASSUME NEW m, Well(m), Depth(m) > 0, m.result = <<>>, NEW cl \in 1 .. Len(m.clos),
         NEW args \in Seq(Item(Len(m.clos))), accepts(m.clos[cl].chunk, Len(args)),
         ~ Full(m, m.clos[cl].chunk, NextBase(m)),
         NEW s, s = [r \in DOMAIN m.stack |->
                       IF r - NextBase(m) \in 0 .. (nvars(m.clos[cl].chunk) - 1)
                       THEN Meant(m.clos[cl].chunk, args)[r - NextBase(m) + 1] ELSE m.stack[r]]
  PROVE  Callable(m, m.clos[cl].chunk, cl, args, s)
<1> DEFINE n == Len(m.clos)
           c == m.clos[cl].chunk
           b == NextBase(m)
           vals == Meant(c, args)
<1>1. /\ Sound(m) /\ n \in Nat /\ m \in Machine(n) /\ m.stack \in [0 .. stack_cap - 1 -> Value(n)]
  BY SoundMachine, Fields DEF Well
<1>2. c \in DOMAIN Code
  BY <1>1, ChunkOfClosure
<1>3. b \in Nat /\ stack_cap \in Nat
  BY <1>1, ArgFacts
<1>4. nvars(c) \in Nat /\ num_registers(c) = nvars(c) + 1 + MaxArgs /\ MaxArgs \in Nat
  BY <1>2, Sizes
<1>5. b + num_registers(c) <= stack_cap
  BY <1>3, <1>4 DEF Full
<1>6. vals \in Seq(Value(n)) /\ Len(vals) = nvars(c)
  BY <1>1, <1>2, MeantFacts
<1> DEFINE k == nvars(c)
<1>7. k \in Nat /\ b + k <= stack_cap /\ \A i \in 1 .. k : vals[i] \in Value(n)
  BY <1>3, <1>4, <1>5, <1>6, SeqFacts
<1>8. s = [r \in 0 .. stack_cap - 1 |-> IF r - b \in 0 .. k - 1 THEN vals[r - b + 1] ELSE m.stack[r]]
  BY <1>1
<1> HIDE DEF b, k, vals, c, n
<1>9. s \in [0 .. stack_cap - 1 -> Value(n)]
  <2>1. ASSUME NEW r \in 0 .. stack_cap - 1 PROVE (IF r - b \in 0 .. k - 1 THEN vals[r - b + 1] ELSE m.stack[r]) \in Value(n)
    <3>1. r - b \in 0 .. k - 1 => r - b + 1 \in 1 .. k
      BY <1>3, <1>7
    <3> QED BY <1>1, <1>7, <3>1
  <2> QED BY <1>8, <2>1
<1>10. \A x \in 0 .. stack_cap - 1 : x < b => s[x] = m.stack[x]
  BY <1>3, <1>7, <1>8
<1>11. \A i \in 1 .. k : s[b + i - 1] = vals[i]
  <2>1. ASSUME NEW i \in 1 .. k PROVE s[b + i - 1] = vals[i]
    <3> DEFINE x == b + i - 1
    <3>1. x \in 0 .. stack_cap - 1 /\ x - b \in 0 .. k - 1 /\ x - b + 1 = i
      BY <1>3, <1>7
    <3> HIDE DEF x
    <3>2. s[x] = vals[i]
      BY <1>8, <3>1
    <3> QED BY <3>2 DEF x
  <2> QED BY <2>1
<1>12. cl # 0
  BY <1>1
<1> QED BY <1>2, <1>9, <1>10, <1>11, <1>12 DEF Callable, b, k, vals, c, n

\* creme_apply, of a procedure that is no case-lambda.
LEMMA ApplyKeeps ==
  ASSUME NEW m, Well(m), Depth(m) > 0, m.result = <<>>,
         NEW args \in Seq(Item(Len(m.clos))), NEW fn, fn = bi_first \/ fn \in Item(Len(m.clos)),
         NEW wait \in Wait, Waits(m, 0, TRUE, wait)
  PROVE  Kept(creme_apply(m, fn, args, wait))
<1> DEFINE n == Len(m.clos)
<1>1. Sound(m) /\ n \in Nat /\ m \in Machine(n)
  BY SoundMachine DEF Well
<1>2. CASE fn = bi_first
  <2> DEFINE v == IF args = <<>> THEN number(0) ELSE args[1]
  <2>1. creme_apply(m, fn, args, wait) = [m EXCEPT !.result = Append(@, [value |-> v, wait |-> wait])]
    <3> DEFINE cl == CASE fn[1] = 1 -> fn[2]
                       [] fn[1] = 3 -> select_clause(m, Tail(fn), Len(args))
                       [] OTHER -> 0
               c == m.clos[cl].chunk
               vals == Meant(c, args)
               w == [m EXCEPT !.stack = [r \in DOMAIN @ |->
                       IF r - NextBase(m) \in 0..(nvars(c) - 1) THEN vals[r - NextBase(m) + 1] ELSE @[r]]]
               x == [m EXCEPT !.result = Append(@, [value |-> v, wait |-> wait])]
    <3>1. fn[1] = 4
      BY <1>2 DEF bi_first
    <3>2. cl = 0
      BY <3>1
    <3> HIDE DEF cl
    <3>3. creme_apply(m, fn, args, wait) =
            CASE fn = bi_first -> x
              [] fn # bi_first /\ cl = 0 -> creme_abort(m)
              [] cl > 0 /\ (Full(m, c, NextBase(m)) \/ ~accepts(c, Len(args))) -> creme_abort(m)
              [] OTHER -> IF Len(m.frames) >= frames_cap THEN creme_abort(w)
                          ELSE Push(w, c, cl, NextBase(m), 0, args, TRUE, wait)
      BY DEF creme_apply, cl
    <3> HIDE DEF w, x, c
    <3>4. creme_apply(m, fn, args, wait) = x
      BY <1>2, <3>2, <3>3
    <3> QED BY <3>4 DEF x
  <2>2. v \in Value(n)
    <3>1. number(0) \in Item(n)
      BY DEF Item
    <3>2. args # <<>> => args[1] \in Item(n)
      <4>1. args # <<>> => Len(args) \in Nat /\ Len(args) # 0
        BY EmptySeq, LenProperties
      <4> QED BY <4>1, SeqFacts
    <3> QED BY <1>1, <3>1, <3>2, ItemFacts
  <2> HIDE DEF v
  <2>3. Well([m EXCEPT !.result = Append(@, [value |-> v, wait |-> wait])])
    BY <2>2, ResultKeeps DEF Waits
  <2> QED BY <2>1, <2>3 DEF Kept, Well
<1>3. CASE fn # bi_first
  <2>1. fn \in Item(n) /\ fn[1] # 3 /\ (fn[1] = 1 => fn[2] \in 1 .. n)
    BY <1>1, <1>3, ItemFacts
  <2> DEFINE cl == CASE fn[1] = 1 -> fn[2]
                     [] fn[1] = 3 -> select_clause(m, Tail(fn), Len(args))
                     [] OTHER -> 0
             c == m.clos[cl].chunk
             s == [r \in DOMAIN m.stack |->
                     IF r - NextBase(m) \in 0 .. (nvars(c) - 1) THEN Meant(c, args)[r - NextBase(m) + 1] ELSE m.stack[r]]
             w == [m EXCEPT !.stack = s]
  <2>2. cl = 0 \/ cl \in 1 .. n
    BY <2>1
  <2>3. cl \in Nat
    BY <1>1, <2>2
  <2>4. creme_apply(m, fn, args, wait) =
          IF cl = 0 THEN creme_abort(m)
          ELSE IF Full(m, c, NextBase(m)) \/ ~ accepts(c, Len(args)) THEN creme_abort(m)
          ELSE IF Len(m.frames) >= frames_cap THEN creme_abort(w)
          ELSE Push(w, c, cl, NextBase(m), 0, args, TRUE, wait)
    <3> HIDE DEF cl
    <3>1. cl > 0 <=> cl # 0
      BY <2>3
    <3> HIDE DEF c
    <3>2. creme_apply(m, fn, args, wait) =
            CASE fn = bi_first -> [m EXCEPT !.result = Append(@, [value |-> IF args = <<>> THEN number(0) ELSE args[1],
                                                                  wait |-> wait])]
              [] fn # bi_first /\ cl = 0 -> creme_abort(m)
              [] cl > 0 /\ (Full(m, c, NextBase(m)) \/ ~accepts(c, Len(args))) -> creme_abort(m)
              [] OTHER -> IF Len(m.frames) >= frames_cap THEN creme_abort(w)
                          ELSE Push(w, c, cl, NextBase(m), 0, args, TRUE, wait)
      BY DEF creme_apply, cl, c
    <3> HIDE DEF w
    <3> QED BY <1>3, <3>1, <3>2
  <2>5. CASE cl = 0
    BY <2>4, <2>5, WellAborts
  <2>6. CASE cl # 0 /\ (Full(m, c, NextBase(m)) \/ ~ accepts(c, Len(args)))
    BY <2>4, <2>6, WellAborts
  <2>7. CASE cl # 0 /\ ~ (Full(m, c, NextBase(m)) \/ ~ accepts(c, Len(args)))
    <3> HIDE DEF cl
    <3>1. cl \in 1 .. n
      BY <2>2, <2>7
    <3>2. Callable(m, c, cl, args, s)
      BY <2>7, <3>1, CallbackKeeps
    <3> HIDE DEF c, s, w
    <3>3. CASE Len(m.frames) >= frames_cap
      <4>1. creme_apply(m, fn, args, wait) = creme_abort(w)
        BY <2>4, <2>7, <3>3
      <4>2. /\ s \in [0 .. stack_cap - 1 -> Value(n)]
            /\ \A x \in 0 .. stack_cap - 1 : x < NextBase(m) => s[x] = m.stack[x]
        BY <3>2 DEF Callable
      <4>3. Base(m, Depth(m)) + Count(m, Depth(m)) <= NextBase(m) /\ NextBase(m) \in Nat
            /\ Base(m, Depth(m)) + Count(m, Depth(m)) \in Nat
        <5>1. /\ ArgBase(m) = Base(m, Depth(m)) + Count(m, Depth(m)) + 1
              /\ Base(m, Depth(m)) \in Nat /\ Count(m, Depth(m)) \in Nat /\ MaxArgs \in Nat
              /\ NextBase(m) = ArgBase(m) + MaxArgs
          BY <1>1, ArgFacts
        <5> QED BY <5>1
      <4>4. \A x \in 0 .. stack_cap - 1 : x < Base(m, Depth(m)) + Count(m, Depth(m)) => s[x] = m.stack[x]
        BY <4>2, <4>3
      <4>5. /\ w \in Machine(n) /\ w.stack = s /\ w.frames = m.frames /\ w.ups = m.ups /\ w.clos = m.clos
            /\ w.env = m.env /\ w.handlers = m.handlers /\ w.result = m.result
        BY <1>1, <4>2, StackUpdate DEF n, w
      <4>6. Well(w) /\ w.result = <<>>
        BY <4>2, <4>4, <4>5, StackKeeps DEF n
      <4> QED BY <4>1, <4>6, WellAborts
    <3>4. CASE ~ (Len(m.frames) >= frames_cap)
      <4>1. creme_apply(m, fn, args, wait) = Push(w, c, cl, NextBase(m), 0, args, TRUE, wait)
        BY <2>4, <2>7, <3>4
      <4>2. Well(Push(w, c, cl, NextBase(m), 0, args, TRUE, wait))
        BY <3>2, PushKeeps DEF w
      <4> QED BY <4>1, <4>2 DEF Kept, Well
    <3> QED BY <3>3, <3>4
  <2> QED BY <2>5, <2>6, <2>7
<1> QED BY <1>2, <1>3

\* creme_run_loaded_chunk.
LEMMA RunChunkKeeps ==
  ASSUME NEW m, Well(m), Depth(m) > 0, m.result = <<>>, NEW wait \in Wait, Waits(m, 0, TRUE, wait)
  PROVE  Kept(creme_run_loaded_chunk(m, wait))
<1> DEFINE n == Len(m.clos)
           s == m.stack
<1>1. Sound(m) /\ n \in Nat /\ m \in Machine(n) /\ s \in [0 .. stack_cap - 1 -> Value(n)]
  BY SoundMachine, Fields DEF Well
<1>2. CASE Full(m, "main", NextBase(m)) \/ Len(m.frames) >= frames_cap
  BY <1>2, WellAborts DEF creme_run_loaded_chunk
<1>3. CASE ~ (Full(m, "main", NextBase(m)) \/ Len(m.frames) >= frames_cap)
  <2>1. creme_run_loaded_chunk(m, wait) = Push(m, "main", 0, NextBase(m), 0, <<>>, TRUE, wait)
    BY <1>3 DEF creme_run_loaded_chunk
  <2>2. [m EXCEPT !.stack = s] = m
    BY <1>1 DEF Machine
  <2>3. /\ "main" \in DOMAIN Code /\ nvars("main") = 0
    BY CodeAssumption
  <2>4. accepts("main", 0)
    <3>1. Code["main"].params \in Nat /\ nvars("main") = Code["main"].params + (IF Code["main"].rest THEN 1 ELSE 0)
      BY <2>3, Sizes
    <3>2. Code["main"].params = 0 /\ ~ Code["main"].rest
      BY <2>3, <3>1
    <3> QED BY <3>2 DEF accepts
  <2> DEFINE args == <<>>
  <2>5. args \in Seq(Item(n)) /\ Len(args) = 0
    BY EmptySeq
  <2> HIDE DEF args
  <2>6. Callable(m, "main", 0, args, s)
    BY <1>1, <1>3, <2>3, <2>4, <2>5 DEF Callable
  <2>7. Well(Push([m EXCEPT !.stack = s], "main", 0, NextBase(m), 0, args, TRUE, wait))
    BY <2>6, PushKeeps
  <2> QED BY <2>1, <2>2, <2>7 DEF Kept, Well, args
<1> QED BY <1>2, <1>3

\* The last item of a sequence is replaced.
LEMMA ReplacedLast ==
  ASSUME NEW T, NEW q \in Seq(T), Len(q) > 0, NEW x \in T
  PROVE  [q EXCEPT ![Len(q)] = x] = Append(SubSeq(q, 1, Len(q) - 1), x)
<1> DEFINE k == Len(q)
           p == [q EXCEPT ![k] = x]
           t == SubSeq(q, 1, k - 1)
           s == Append(t, x)
<1>1. k \in Nat /\ k > 0 /\ DOMAIN q = 1 .. k
  BY LenProperties
<1>2. k - 1 \in Nat /\ 1 .. (k - 1) \subseteq 1 .. k
  BY <1>1
<1>3. t \in Seq(T) /\ Len(t) = k - 1 /\ \A i \in 1 .. k - 1 : t[i] = q[i]
  <2>1. \A i \in 1 .. k - 1 : q[i] \in T
    BY <1>1, <1>2, SeqFacts
  <2>2. /\ t \in Seq(T) /\ Len(t) = IF 1 <= k - 1 THEN k - 1 - 1 + 1 ELSE 0
        /\ \A i \in 1 .. k - 1 - 1 + 1 : t[i] = q[1 + i - 1]
    BY <1>1, <1>2, <2>1, SubSeqProperties
  <2> HIDE DEF t, k
  <2>3. k - 1 - 1 + 1 = k - 1 /\ \A i \in 1 .. k - 1 : 1 + i - 1 = i
    BY <1>2
  <2> QED BY <1>1, <1>2, <2>2, <2>3
<1> HIDE DEF t
<1>4. /\ s \in Seq(T) /\ Len(s) = k /\ s[k] = x /\ \A i \in 1 .. k - 1 : s[i] = q[i]
  <2>1. s \in Seq(T) /\ Len(s) = Len(t) + 1 /\ s[Len(t) + 1] = x /\ \A i \in 1 .. Len(t) : s[i] = t[i]
    BY <1>3, AppendProperties
  <2> QED BY <1>1, <1>3, <2>1
<1> HIDE DEF s
<1>5. /\ p \in Seq(T) /\ Len(p) = k /\ p[k] = x /\ \A i \in 1 .. k - 1 : p[i] = q[i]
  <2>1. k \in 1 .. k /\ \A i \in 1 .. k - 1 : i \in 1 .. k /\ i # k
    <3> HIDE DEF k
    <3> QED BY <1>1
  <2>2. p \in Seq(T) /\ Len(p) = Len(q) /\ \A i \in 1 .. Len(q) : p[i] = IF i = k THEN x ELSE q[i]
    BY <2>1, ExceptSeq
  <2> HIDE DEF p
  <2> QED BY <2>1, <2>2
<1> HIDE DEF p
<1>6. p = s
  <2> HIDE DEF k
  <2>1. \A i \in 1 .. k : i = k \/ i \in 1 .. k - 1
    BY <1>1
  <2>2. \A i \in 1 .. k : p[i] = s[i]
    BY <1>4, <1>5, <2>1
  <2> QED BY <1>4, <1>5, <2>2, SeqEqual
<1> QED BY <1>6 DEF p, s, t, k

\* The tail-call half of dispatch_call.
LEMMA TailKeeps ==
  ASSUME NEW m, NEW args, Ready(m, args), NEW cl \in 1 .. Len(m.clos), NEW reg,
         \A i \in 1 .. Len(m.handlers) : m.handlers[i] # Depth(m)
  PROVE  Kept(TailClosure(m, cl, args, reg, ArgBase(m)))
<1> DEFINE n == Len(m.clos)
           c == m.clos[cl].chunk
           d == Depth(m)
           h == Depth(m) - 1
           b == frame(m).base
           closed == close_upvalues(m, Len(m.frames) - 1)
           s == bind_args(closed.stack, c, Len(args), b, ArgBase(m))
           vals == Meant(c, args)
           t == Truncated(closed, h)
           f == [closed.frames[d] EXCEPT !.chunk = c, !.closure = cl, !.vars = NewVars(m, c)]
           w == [closed EXCEPT !.stack = s, !.env = @ \o vals, !.frames = [@ EXCEPT ![d] = f]]
<1>1. /\ Well(m) /\ Sound(m) /\ d > 0 /\ m.result = <<>> /\ Len(args) <= MaxArgs
      /\ Loaded(n, m.stack, args, ArgBase(m)) /\ n \in Nat /\ m \in Machine(n) /\ GoneUpTo(m, d) /\ Controlled(m)
  BY SoundMachine DEF Ready, Well
<1>2. d \in Nat /\ d \in 1 .. d /\ h \in Nat /\ h \in 0 .. d /\ h < d /\ h = d - 1
  BY SMTT(30), <1>1, Observed
<1>3. GoneUpTo(m, h)
  BY <1>1, <1>2 DEF GoneUpTo
<1>4. closed = close_upvalues(m, h) /\ Len(m.frames) = d
  BY DEF Depth
<1>5. \A i \in 1 .. Len(m.handlers) : m.handlers[i] <= h
  <2>1. \A i \in 1 .. Len(m.handlers) : m.handlers[i] \in 1 .. d
    BY <1>1 DEF Controlled, HandlersOK
  <2> QED BY <1>2, <2>1
<1> HIDE DEF closed, h
<1>6. /\ Sound(closed) /\ GoneUpTo(closed, h) /\ \A k \in 1 .. d : k > h => \A u \in Nat : ~ OpenOn(closed, k, u)
      /\ Depth(closed) = d /\ closed.handlers = m.handlers /\ closed.result = m.result /\ closed.clos = m.clos
      /\ closed.stack = m.stack /\ closed.env = m.env
      /\ closed.frames[d] = [m.frames[d] EXCEPT !.opened = <<>>]
      /\ \A k \in 1 .. d : k <= h => closed.frames[k] = m.frames[k]
  BY <1>1, <1>2, <1>3, <1>4, CloseKeeps, CloseEffect
<1>7. CASE Full(m, c, b)
  <2>1. TailClosure(m, cl, args, reg, ArgBase(m)) = creme_abort(m)
    BY <1>7 DEF TailClosure
  <2> QED BY <1>1, <2>1, WellAborts
<1>8. CASE ~ Full(m, c, b) /\ ~ accepts(c, Len(args))
  <2>1. TailClosure(m, cl, args, reg, ArgBase(m)) = creme_abort(closed)
    BY <1>8 DEF TailClosure, closed
  <2>2. closed.handlers # <<>> => GoneUpTo(closed, Last(closed.handlers))
    <3> SUFFICES ASSUME closed.handlers # <<>> PROVE GoneUpTo(closed, Last(closed.handlers))
      OBVIOUS
    <3> DEFINE l == Last(closed.handlers)
    <3>1. l \in 1 .. d /\ l = m.handlers[Len(m.handlers)] /\ Len(m.handlers) \in Nat \ {0}
      BY <1>6, HandlerFacts
    <3>2. l <= h
      BY <1>5, <3>1
    <3> HIDE DEF l
    <3>3. \A k \in 1 .. d : k <= l => k <= h
      BY <1>2, <3>1, <3>2
    <3>4. GoneUpTo(closed, l)
      BY <1>6, <3>3 DEF GoneUpTo
    <3> QED BY <3>4 DEF l
  <2> QED BY <1>1, <1>6, <2>1, <2>2, AbortKeeps
<1>9. CASE ~ Full(m, c, b) /\ accepts(c, Len(args))
  <2>1. c \in DOMAIN Code
    BY <1>1, ChunkOfClosure
  <2>2. /\ ArgBase(m) = Base(m, d) + Count(m, d) + 1 /\ b = Base(m, d) /\ Base(m, d) \in Nat /\ Count(m, d) \in Nat
        /\ stack_cap \in Nat
    BY <1>1, ArgFacts
  <2>3. args \in Seq(Item(n))
    BY <1>1 DEF Loaded
  <2>4. b + num_registers(c) <= stack_cap
    <3>1. num_registers(c) \in Nat
      BY <2>1, Sizes
    <3> QED BY <1>9, <2>2, <3>1 DEF Full
  <2>5. b \in Nat /\ b <= ArgBase(m)
    BY <2>2
  <2>6. vals \in Seq(Value(n)) /\ Len(vals) = nvars(c) /\ nvars(c) \in Nat
    BY <1>1, <1>9, <2>1, <2>3, MeantFacts, Sizes
  <2> HIDE DEF n, c, b
  <2>7. /\ s \in [0 .. stack_cap - 1 -> Value(n)]
        /\ \A x \in 0 .. stack_cap - 1 : x < b => s[x] = m.stack[x]
        /\ \A i \in 1 .. nvars(c) : s[b + i - 1] = vals[i]
    BY <1>1, <1>6, <1>9, <2>1, <2>4, <2>5, BindFacts
  <2> HIDE DEF s, vals
  <2>8. /\ closed \in Machine(n) /\ Layout(closed) /\ Controlled(closed)
    BY <1>6, SoundMachine DEF n
  <2>9. /\ closed.frames \in Seq(FrameRecord) /\ Len(closed.frames) = d /\ closed.frames[d] \in FrameRecord
        /\ closed.frames[d].opened = <<>>
        /\ closed.frames[d].base = b /\ closed.env \in Seq(Value(n)) /\ Len(m.env) \in Nat
    <3>1. /\ closed.frames \in Seq(FrameRecord) /\ Len(closed.frames) = d /\ closed.frames[d] \in FrameRecord
          /\ closed.env \in Seq(Value(n)) /\ Len(m.env) \in Nat
      BY <1>1, <1>2, <1>6, <2>8, Fields DEF Depth
    <3>2. m.frames[d] \in FrameRecord /\ m.frames[d].base = b
      BY <1>1, <1>2, TopFrame DEF b
    <3> QED BY <1>6, <3>1, <3>2 DEF FrameRecord
  <2>10. NewVars(m, c) \in Seq(Nat) /\ NewVars(m, c) = [i \in 1 .. nvars(c) |-> Len(m.env) + i]
    <3>1. \A i \in 1 .. nvars(c) : Len(m.env) + i \in Nat
      BY <2>6, <2>9
    <3> QED BY <2>6, <3>1 DEF NewVars
  <2>11. cl \in Nat /\ cl # 0 /\ cl \in 1 .. Len(m.clos)
    BY <1>1
  <2>12. /\ f \in FrameRecord /\ f.chunk = c /\ f.closure = cl /\ f.vars = NewVars(m, c) /\ f.base = b
         /\ f.return_reg = closed.frames[d].return_reg /\ f.opened = <<>>
         /\ f.reentrant = closed.frames[d].reentrant /\ f.wait = closed.frames[d].wait
    <3> DEFINE g == closed.frames[d]
               vars == NewVars(m, c)
    <3>1. g \in FrameRecord /\ g.opened = <<>> /\ g.base = b /\ vars \in Seq(Nat)
      BY <2>9, <2>10
    <3>2. f = [g EXCEPT !.chunk = c, !.closure = cl, !.vars = vars]
      OBVIOUS
    <3> HIDE DEF g, vars, f
    <3>3. /\ f \in FrameRecord /\ f.chunk = c /\ f.closure = cl /\ f.vars = vars /\ f.base = b
          /\ f.return_reg = g.return_reg /\ f.opened = <<>> /\ f.reentrant = g.reentrant /\ f.wait = g.wait
      BY <2>1, <2>11, <3>1, <3>2 DEF FrameRecord
    <3> QED BY <3>3 DEF g, vars
  <2> HIDE DEF f
  <2>13. [closed.frames EXCEPT ![d] = f] = Append(SubSeq(closed.frames, 1, h), f)
    BY <1>1, <1>2, <2>9, <2>12, ReplacedLast
  <2>14. /\ Well(t) /\ Depth(t) = h /\ t.handlers = m.handlers /\ t.result = <<>> /\ t.clos = m.clos /\ t.ups = closed.ups
         /\ t.env = m.env /\ t.stack = m.stack
         /\ \A k \in 1 .. h : t.frames[k] = closed.frames[k]
    BY <1>1, <1>2, <1>5, <1>6, TruncateKeeps
  <2>15. t.frames = SubSeq(closed.frames, 1, h)
    BY <2>8 DEF Truncated, Machine
  <2>16. /\ closed.frames \in Seq(FrameRecord) /\ [closed.frames EXCEPT ![d] = f] \in Seq(FrameRecord)
         /\ closed.env \o vals \in Seq(Value(n))
    <3>1. [closed.frames EXCEPT ![d] = f] \in Seq(FrameRecord)
      BY <1>1, <1>2, <2>9, <2>12, ExceptSeq
    <3> QED BY <2>6, <2>9, <3>1, ConcatProperties
  <2>17. /\ w \in Machine(n) /\ w.stack = s /\ w.frames = [closed.frames EXCEPT ![d] = f] /\ w.ups = closed.ups
         /\ w.clos = closed.clos /\ w.handlers = closed.handlers /\ w.result = closed.result /\ w.env = closed.env \o vals
    <3> DEFINE fs == [closed.frames EXCEPT ![d] = f]
               e == closed.env \o vals
               v == [closed EXCEPT !.stack = s, !.env = e, !.frames = fs]
    <3>1. fs \in Seq(FrameRecord) /\ e \in Seq(Value(n))
      BY <2>16
    <3> HIDE DEF fs, e
    <3>2. /\ v \in Machine(n) /\ v.stack = s /\ v.frames = fs /\ v.ups = closed.ups
          /\ v.clos = closed.clos /\ v.handlers = closed.handlers /\ v.result = closed.result /\ v.env = e
      BY <2>7, <2>8, <3>1 DEF Machine
    <3>3. v = w
      BY DEF fs, e
    <3> HIDE DEF v, w
    <3> QED BY <3>2, <3>3 DEF fs, e
  <2> HIDE DEF w, t
  <2>18. TailClosure(m, cl, args, reg, ArgBase(m)) = w
    <3> DEFINE v == [closed EXCEPT !.stack = bind_args(@, c, Len(args), frame(m).base, ArgBase(m))]
               g == WithVariables(v, c, args)
               x == [g EXCEPT !.frames[d] = [@ EXCEPT !.chunk = c, !.closure = cl, !.vars = NewVars(m, c)]]
    <3>1. v = [closed EXCEPT !.stack = s]
      BY <2>8 DEF s, b
    <3>2. g = [closed EXCEPT !.stack = s, !.env = closed.env \o vals]
      BY <2>8, <3>1 DEF WithVariables, vals, Machine
    <3>3. TailClosure(m, cl, args, reg, ArgBase(m)) = x
      BY <1>4, <1>9 DEF TailClosure, closed, c, b
    <3>4. x = [g EXCEPT !.frames = [g.frames EXCEPT ![d] = [g.frames[d] EXCEPT !.chunk = c, !.closure = cl, !.vars = NewVars(m, c)]]]
      OBVIOUS
    <3>5. g.frames = closed.frames
      BY <2>8, <3>2 DEF Machine
    <3> HIDE DEF x, g, v
    <3>6. x = [g EXCEPT !.frames = [closed.frames EXCEPT ![d] = f]]
      BY <3>4, <3>5 DEF f
    <3>7. x = w
      BY <2>8, <3>2, <3>6 DEF w, Machine
    <3> QED BY <3>3, <3>7
  <2>19. Entered(t, w, f, vals)
    <3>1. /\ Depth(t) = 0 => f.reentrant
          /\ Depth(t) > 0 => /\ f.base = End(t, Depth(t))
                             /\ f.return_reg <= Count(t, Depth(t)) /\ f.wait.reg <= Count(t, Depth(t))
                             /\ f.reentrant /\ f.wait.tail => \A i \in 1 .. Len(t.handlers) : t.handlers[i] # Depth(t)
      <4>1. Depth(t) = 0 => f.reentrant
        <5>1. h = 0 => d = 1
          BY <1>2
        <5> QED BY <1>1, <1>6, <2>8, <2>12, <2>14, <5>1 DEF Controlled
      <4>2. ASSUME h > 0
            PROVE  /\ f.base = End(t, h)
                   /\ f.return_reg <= Count(t, h) /\ f.wait.reg <= Count(t, h)
                   /\ f.reentrant /\ f.wait.tail => \A i \in 1 .. Len(t.handlers) : t.handlers[i] # h
        <5>1. d \in 2 .. d /\ d - 1 = h /\ h \in 1 .. h
          BY <1>2, <4>2
        <5>2. ReturnsTo(closed, d) /\ Base(closed, d) = End(closed, h)
          BY <1>6, <2>8, <5>1 DEF Controlled, Layout
        <5>3. Count(t, h) = Count(closed, h) /\ End(t, h) = End(closed, h)
          BY <2>14, <5>1, SameFrame
        <5>4. f.base = Base(closed, d)
          BY <2>9, <2>12 DEF Base
        <5>5. /\ closed.frames[d].return_reg <= Count(closed, h) /\ closed.frames[d].wait.reg <= Count(closed, h)
              /\ closed.frames[d].reentrant /\ closed.frames[d].wait.tail =>
                   \A i \in 1 .. Len(closed.handlers) : closed.handlers[i] # h
          BY <5>1, <5>2 DEF ReturnsTo
        <5> QED BY <1>6, <2>12, <2>14, <5>2, <5>3, <5>4, <5>5
      <4> QED BY <1>2, <2>14, <4>1, <4>2
    <3>2. \A k \in 1 .. Depth(t) : \A r \in 1 .. Count(t, k) : OnStack(w, Reg(t, k, r)) = OnStack(t, Reg(t, k, r))
      <4> SUFFICES ASSUME NEW k \in 1 .. Depth(t), NEW r \in 1 .. Count(t, k)
                   PROVE  OnStack(w, Reg(t, k, r)) = OnStack(t, Reg(t, k, r))
        OBVIOUS
      <4>1. /\ Sound(t) /\ Layout(t) /\ t \in Machine(n)
        BY <2>14, SoundMachine DEF Well, n
      <4>2. k \in 1 .. d /\ k < d /\ d \in 1 .. d
        BY <1>2, <2>14
      <4>3. /\ Reg(t, k, r) \in 0 .. stack_cap - 1 /\ Reg(t, k, r) \in Nat /\ Reg(t, k, r) < Base(t, k) + Count(t, k)
            /\ Base(t, k) \in Nat /\ Count(t, k) \in Nat /\ MaxArgs \in Nat
            /\ End(t, k) = Base(t, k) + Count(t, k) + 1 + MaxArgs
        <5>1. n \in Nat
          BY <1>1 DEF n
        <5> QED BY <4>1, <5>1, RegsApart, Observed
      <4>4. End(closed, k) <= Base(closed, d) /\ End(t, k) = End(closed, k) /\ Base(closed, d) = b
        <5>1. End(closed, k) <= Base(closed, d)
          BY <1>6, <2>8, <4>2 DEF Layout
        <5>2. End(t, k) = End(closed, k)
          BY <2>14, SameFrame
        <5>3. Base(closed, d) = b
          BY <2>9 DEF Base
        <5> QED BY <5>1, <5>2, <5>3
      <4>5. Reg(t, k, r) < b
        BY <2>5, <4>3, <4>4
      <4> QED BY <2>7, <2>14, <2>17, <4>3, <4>5 DEF OnStack
    <3>3. \A i \in 1 .. Len(vals) : OnStack(w, f.base + i - 1) = vals[i]
      BY <2>6, <2>7, <2>12, <2>17 DEF OnStack
    <3>4. IF f.closure = 0 THEN f.chunk = "main" ELSE f.closure \in 1 .. Len(t.clos) /\ t.clos[f.closure].chunk = f.chunk
      BY <2>11, <2>12, <2>14 DEF c
    <3>5. /\ w \in Machine(Len(t.clos)) /\ vals \in Seq(Value(Len(t.clos))) /\ w.frames = Append(t.frames, f)
          /\ w.ups = t.ups /\ w.clos = t.clos /\ w.handlers = t.handlers /\ w.result = t.result /\ t.result = <<>>
          /\ w.env = t.env \o vals
      BY <1>1, <1>6, <2>6, <2>13, <2>14, <2>15, <2>17 DEF n
    <3>6. /\ Len(vals) = nvars(f.chunk) /\ f.opened = <<>> /\ f.vars = [i \in 1 .. nvars(f.chunk) |-> Len(t.env) + i]
          /\ f.base + num_registers(f.chunk) <= stack_cap
      BY <2>4, <2>6, <2>10, <2>12, <2>14
    <3> QED BY <2>12, <3>1, <3>2, <3>3, <3>4, <3>5, <3>6 DEF Entered
  <2>20. Well(w)
    BY <2>14, <2>19, EnterKeeps
  <2> QED BY <2>18, <2>20 DEF Kept, Well
<1> QED BY <1>7, <1>8, <1>9

\* What can be called: what a register or an upvalue holds, a builtin, or a
\* case-lambda of two closures.
Callee(n, callee) ==
  \/ callee \in Value(n)
  \/ callee \in {bi_first, bi_call}
  \/ \E k \in 2 .. n : callee = v_case_closure(<<1, k>>)

LEMMA CalleeFacts ==
  ASSUME NEW n \in Nat, NEW callee, Callee(n, callee)
  PROVE  /\ callee[1] = 1 => callee[2] \in 1 .. n /\ callee # bi_first /\ callee # bi_call
         /\ callee[1] = 3 => /\ callee # bi_first /\ callee # bi_call
                             /\ \E k \in 2 .. n : Tail(callee) = <<1, k>>
         /\ bi_first # bi_call
<1>1. bi_first[1] = 4 /\ bi_call[1] = 4 /\ bi_first # bi_call
  BY DEF bi_first, bi_call
<1>2. CASE callee \in Item(n)
  BY <1>1, <1>2, ItemFacts
<1>3. CASE \E q \in Seq(Item(n)) : callee = v_list(q)
  <2>1. PICK q \in Seq(Item(n)) : callee = v_list(q)
    BY <1>3
  <2>2. callee[1] = 2
    BY <2>1 DEF v_list
  <2> QED BY <1>1, <2>2
<1>4. CASE callee \in {bi_first, bi_call}
  BY <1>1, <1>4
<1>5. CASE \E k \in 2 .. n : callee = v_case_closure(<<1, k>>)
  <2>1. PICK k \in 2 .. n : callee = v_case_closure(<<1, k>>)
    BY <1>5
  <2> DEFINE a == <<3>>
             ids == <<1, k>>
  <2>2. a \in Seq(Nat) /\ Len(a) = 1 /\ a[1] = 3 /\ ids \in Seq(Nat) /\ Len(ids) = 2
    OBVIOUS
  <2> HIDE DEF a, ids
  <2>3. callee = a \o ids
    BY <2>1 DEF v_case_closure, a, ids
  <2>4. /\ callee \in Seq(Nat) /\ Len(callee) = 3 /\ callee[1] = 3
        /\ callee[2] = ids[1] /\ callee[3] = ids[2]
    <3>1. /\ callee \in Seq(Nat) /\ Len(callee) = Len(a) + Len(ids)
          /\ \A i \in 1 .. Len(a) + Len(ids) : callee[i] = IF i <= Len(a) THEN a[i] ELSE ids[i - Len(a)]
      BY <2>2, <2>3, ConcatProperties
    <3>2. Len(callee) = 3 /\ \A i \in 1 .. 3 : callee[i] = IF i <= 1 THEN a[i] ELSE ids[i - 1]
      BY <2>2, <3>1
    <3>3. callee[1] = 3
      BY <2>2, <3>2
    <3>4. callee[2] = ids[1]
      BY <3>2
    <3>5. callee[3] = ids[2]
      BY <3>2
    <3> QED BY <3>1, <3>2, <3>3, <3>4, <3>5
  <2>5. Tail(callee) = ids
    <3> DEFINE t == Tail(callee)
    <3>1. callee # <<>>
      BY <2>4
    <3>2. t \in Seq(Nat) /\ Len(t) = Len(callee) - 1 /\ \A i \in 1 .. Len(t) : t[i] = callee[i + 1]
      BY <2>4, <3>1, HeadTailProperties
    <3> HIDE DEF t
    <3>3. \A i \in 1 .. Len(t) : t[i] = ids[i]
      <4>1. Len(t) = 2 /\ t[1] = callee[1 + 1] /\ t[2] = callee[2 + 1]
        BY <2>4, <3>2
      <4>2. t[1] = ids[1] /\ t[2] = ids[2]
        BY <2>4, <4>1
      <4>3. \A i \in 1 .. 2 : i = 1 \/ i = 2
        OBVIOUS
      <4> QED BY <4>1, <4>2, <4>3
    <3>4. t = ids
      <4>1. Len(t) = Len(ids)
        BY <2>2, <2>4, <3>2
      <4> QED BY <2>2, <3>2, <3>3, <4>1, SeqEqual
    <3> QED BY <3>4 DEF t
  <2>6. Tail(callee) = <<1, k>> /\ callee[1] = 3
    BY <2>4, <2>5 DEF ids
  <2> QED BY <1>1, <2>6
<1> QED BY <1>2, <1>3, <1>4, <1>5 DEF Callee, Value

\* A case-lambda's clause is one of its closures.
LEMMA SelectFacts ==
  ASSUME NEW m, NEW k \in Nat, k > 1, NEW nargs
  PROVE  select_clause(m, <<1, k>>, nargs) \in {0, 1, k}
<1> DEFINE ids == <<1, k>>
           I == {i \in 1 .. Len(ids) : accepts(m.clos[ids[i]].chunk, nargs)}
           p == SelectInSeq(ids, LAMBDA id : accepts(m.clos[id].chunk, nargs))
<1>1. p = IF I # {} THEN Min(I) ELSE 0
  BY DEF SelectInSeq
<1>2. I \subseteq {1, 2}
  OBVIOUS
<1> HIDE DEF I
<1>3. I # {} => Min(I) \in {1, 2}
  <2>1. I # {} => \E x \in I : \A y \in I : x <= y
    <3>1. 1 \in I => \A y \in I : 1 <= y
      BY <1>2
    <3>2. 1 \notin I => \A y \in I : y = 2
      BY <1>2
    <3> QED BY <3>1, <3>2
  <2> QED BY <1>2, <2>1 DEF Min
<1>4. p \in {0, 1, 2}
  BY <1>1, <1>3
<1>5. select_clause(m, ids, nargs) = IF p = 0 THEN 0 ELSE ids[p]
  BY DEF select_clause
<1> HIDE DEF p
<1> QED BY <1>4, <1>5

\* dispatch_call.
LEMMA DispatchKeeps ==
  ASSUME NEW m, NEW args, Ready(m, args), NEW callee, Callee(Len(m.clos), callee),
         NEW reg \in Nat, reg <= Count(m, Depth(m)), NEW tail \in BOOLEAN,
         tail => \A i \in 1 .. Len(m.handlers) : m.handlers[i] # Depth(m)
  PROVE  Kept(dispatch_call(m, callee, args, reg, tail))
<1> DEFINE n == Len(m.clos)
           ab == frame(m).base + nvars(frame(m).chunk) + 1
           Run(cl) == IF tail THEN TailClosure(m, cl, args, reg, ab) ELSE CallClosure(m, cl, args, reg, ab)
           wait == [reg |-> reg, tail |-> tail]
           clause == select_clause(m, Tail(callee), Len(args))
<1>1. /\ Well(m) /\ Sound(m) /\ Depth(m) > 0 /\ m.result = <<>> /\ n \in Nat /\ args \in Seq(Item(n))
  BY SoundMachine DEF Ready, Well, Loaded
<1>2. dispatch_call(m, callee, args, reg, tail) =
        CASE callee[1] = 1 -> Run(callee[2])
          [] callee = bi_first -> creme_apply(m, bi_first, args, wait)
          [] callee = bi_call -> IF args = <<>> THEN creme_abort(m) ELSE creme_apply(m, args[1], Tail(args), wait)
          [] callee[1] = 3 -> IF clause = 0 THEN creme_abort(m) ELSE Run(clause)
          [] OTHER -> creme_abort(m)
  BY DEF dispatch_call
<1>3. \A cl \in 1 .. n : Kept(Run(cl))
  <2>1. ab = ArgBase(m)
    BY DEF ArgBase
  <2>2. ASSUME NEW cl \in 1 .. n PROVE Kept(Run(cl))
    <3>1. tail => Kept(TailClosure(m, cl, args, reg, ArgBase(m)))
      BY <2>2, TailKeeps
    <3>2. ~ tail => Kept(CallClosure(m, cl, args, reg, ArgBase(m)))
      BY <2>2, CallKeeps
    <3> HIDE DEF ab
    <3> QED BY <2>1, <3>1, <3>2
  <2> QED BY <2>2
<1>4. wait \in Wait /\ Waits(m, 0, TRUE, wait)
  <2>1. wait \in Wait /\ wait.reg = reg /\ wait.tail = tail
    BY DEF Wait
  <2>2. Count(m, Depth(m)) \in Nat
    BY <1>1, ArgFacts
  <2> HIDE DEF wait
  <2> QED BY <2>1, <2>2 DEF Waits
<1> HIDE DEF Run, wait, clause
<1>5. /\ callee[1] = 1 => callee[2] \in 1 .. n /\ callee # bi_first /\ callee # bi_call
      /\ callee[1] = 3 => callee # bi_first /\ callee # bi_call /\ \E k \in 2 .. n : Tail(callee) = <<1, k>>
      /\ bi_first # bi_call
  BY <1>1, CalleeFacts
<1>6. CASE callee[1] = 1
  <2>1. dispatch_call(m, callee, args, reg, tail) = Run(callee[2])
    BY <1>2, <1>5, <1>6
  <2> QED BY <1>3, <1>5, <1>6, <2>1
<1>7. CASE callee = bi_first
  <2>1. dispatch_call(m, callee, args, reg, tail) = creme_apply(m, bi_first, args, wait)
    BY <1>2, <1>5, <1>7
  <2> QED BY <1>1, <1>4, <2>1, ApplyKeeps
<1>8. CASE callee = bi_call
  <2>1. dispatch_call(m, callee, args, reg, tail) =
          IF args = <<>> THEN creme_abort(m) ELSE creme_apply(m, args[1], Tail(args), wait)
    BY <1>2, <1>5, <1>8
  <2>2. CASE args = <<>>
    BY <1>1, <2>1, <2>2, WellAborts
  <2>3. CASE args # <<>>
    <3>1. args[1] \in Item(n) /\ Tail(args) \in Seq(Item(n))
      BY <1>1, <2>3, HeadTailProperties
    <3>2. Kept(creme_apply(m, args[1], Tail(args), wait))
      BY <1>1, <1>4, <3>1, ApplyKeeps
    <3> QED BY <2>1, <2>3, <3>2
  <2> QED BY <2>2, <2>3
<1>9. CASE callee[1] = 3
  <2>1. dispatch_call(m, callee, args, reg, tail) = IF clause = 0 THEN creme_abort(m) ELSE Run(clause)
    BY <1>2, <1>5, <1>9
  <2>2. clause = 0 \/ clause \in 1 .. n
    <3>1. PICK k \in 2 .. n : Tail(callee) = <<1, k>>
      BY <1>5, <1>9
    <3>2. k \in Nat /\ k > 1 /\ 1 \in 1 .. n /\ k \in 1 .. n
      BY <1>1, <3>1
    <3>3. clause \in {0, 1, k}
      BY <3>1, <3>2, SelectFacts DEF clause
    <3> QED BY <3>2, <3>3
  <2>3. Kept(creme_abort(m))
    BY <1>1, WellAborts
  <2> QED BY <1>3, <2>1, <2>2, <2>3
<1>10. CASE callee[1] # 1 /\ callee # bi_first /\ callee # bi_call /\ callee[1] # 3
  <2>1. dispatch_call(m, callee, args, reg, tail) = creme_abort(m)
    BY <1>2, <1>10
  <2> QED BY <1>1, <2>1, WellAborts
<1> QED BY <1>6, <1>7, <1>8, <1>9, <1>10

\* w is m with one more closure, for which the frame on top opened n upvalues.
SameButOpened(f, g) ==
  /\ g.chunk = f.chunk /\ g.base = f.base /\ g.closure = f.closure /\ g.return_reg = f.return_reg
  /\ g.vars = f.vars /\ g.reentrant = f.reentrant /\ g.wait = f.wait

Captured(m, w, n) ==
  /\ w \in Machine(Len(w.clos)) /\ n \in Nat
  /\ w.stack = m.stack /\ w.env = m.env /\ w.handlers = m.handlers /\ w.result = m.result
  /\ Depth(w) = Depth(m) /\ Opens(w) = Opens(m) + n
  /\ \A u \in 1 .. Opens(m) : Slot(w, u) = Slot(m, u) /\ Name(w, u) = Name(m, u) /\ Shut(w, u) = Shut(m, u)
  /\ \A u \in Opens(m) + 1 .. Opens(m) + n : \E r \in 1 .. Count(m, Depth(m)) :
       Slot(w, u) = Reg(m, Depth(m), r) /\ Name(w, u) = VarOf(m, Depth(m), r)
  /\ \A k \in 1 .. Depth(m) :
       /\ SameButOpened(m.frames[k], w.frames[k])
       /\ \A u : OpenOn(w, k, u) <=> OpenOn(m, k, u) \/ (k = Depth(m) /\ u \in Opens(m) + 1 .. Opens(m) + n)
  /\ Len(w.clos) = Len(m.clos) + 1
  /\ \A i \in 1 .. Len(m.clos) : w.clos[i] = m.clos[i]
  /\ Len(w.clos[Len(w.clos)].upvalues) = Len(Code[w.clos[Len(w.clos)].chunk].captures)
  /\ \A j \in 1 .. Len(w.clos[Len(w.clos)].upvalues) : w.clos[Len(w.clos)].upvalues[j] \in 1 .. Opens(w)

LEMMA CaptureKeeps ==
  ASSUME NEW m, Well(m), Depth(m) > 0, NEW w, NEW n, Captured(m, w, n)
  PROVE  Well(w)
<1> DEFINE d == Depth(m)
           o == Opens(m)
           N == Len(m.clos)
<1>1. /\ m \in Machine(N) /\ N \in Nat /\ GoneUpTo(m, d) /\ Sound(m)
      /\ Layout(m) /\ Variabled(m) /\ Upvalued(m) /\ Closed(m) /\ Controlled(m)
  BY SoundMachine DEF Well
<1>2. /\ w \in Machine(Len(w.clos)) /\ n \in Nat
      /\ w.stack = m.stack /\ w.env = m.env /\ w.handlers = m.handlers /\ w.result = m.result
      /\ Depth(w) = d /\ Opens(w) = o + n
  BY DEF Captured
<1>3. \A u \in 1 .. o : Slot(w, u) = Slot(m, u) /\ Name(w, u) = Name(m, u) /\ Shut(w, u) = Shut(m, u)
  BY DEF Captured
<1>4. \A u \in o + 1 .. o + n : \E r \in 1 .. Count(m, d) : Slot(w, u) = Reg(m, d, r) /\ Name(w, u) = VarOf(m, d, r)
  BY DEF Captured
<1>5. \A k \in 1 .. d : SameButOpened(m.frames[k], w.frames[k])
  BY DEF Captured
<1>6. \A k \in 1 .. d : \A u : OpenOn(w, k, u) <=> OpenOn(m, k, u) \/ (k = d /\ u \in o + 1 .. o + n)
  BY DEF Captured
<1>7. /\ d \in Nat /\ d \in 1 .. d /\ o \in Nat
      /\ \A k \in 1 .. d : Base(m, k) \in Nat /\ Count(m, k) \in Nat
  BY <1>1, Observed
<1>8. \A u \in 1 .. o + n : u \in 1 .. o \/ u \in o + 1 .. o + n
  BY <1>2, <1>7
<1> HIDE DEF o
<1>9. \A k \in 1 .. d :
        /\ Base(w, k) = Base(m, k) /\ Count(w, k) = Count(m, k) /\ End(w, k) = End(m, k)
        /\ \A r : Reg(w, k, r) = Reg(m, k, r) /\ VarOf(w, k, r) = VarOf(m, k, r)
  BY <1>5 DEF SameButOpened, Base, Count, End, Reg, VarOf
<1>10. /\ Known(w) = Known(m) /\ \A x : InEnv(w, x) = InEnv(m, x) /\ OnStack(w, x) = OnStack(m, x)
  BY <1>2 DEF Known, InEnv, OnStack
<1>11. Layout(w)
  <2>1. \A k \in 2 .. d : k \in 1 .. d /\ k - 1 \in 1 .. d
    BY <1>7
  <2> QED BY <1>1, <1>2, <1>9, <2>1 DEF Layout
<1>12. Variabled(w)
  <2>1. \A k \in 1 .. d : Len(w.frames[k].vars) = Count(w, k)
    BY <1>1, <1>5, <1>9 DEF Variabled, SameButOpened
  <2> QED BY <1>1, <1>2, <1>9, <1>10, <2>1 DEF Variabled
<1>13. \A u \in o + 1 .. o + n : Slot(w, u) >= 0 /\ Name(w, u) \in 1 .. Known(m)
  <2> SUFFICES ASSUME NEW u \in o + 1 .. o + n PROVE Slot(w, u) >= 0 /\ Name(w, u) \in 1 .. Known(m)
    OBVIOUS
  <2>1. PICK r \in 1 .. Count(m, d) : Slot(w, u) = Reg(m, d, r) /\ Name(w, u) = VarOf(m, d, r)
    BY <1>4
  <2>2. Reg(m, d, r) \in Nat
    BY <1>1, <1>7, RegsApart
  <2>3. VarOf(m, d, r) \in 1 .. Known(m)
    BY <1>1, <1>7 DEF Variabled
  <2> QED BY <2>1, <2>2, <2>3
<1>14. Upvalued(w)
  <2>1. ASSUME NEW u \in 1 .. o + n
        PROVE  /\ Name(w, u) \in 1 .. Known(w)
               /\ Slot(w, u) >= 0 => \E k \in 1 .. d : OpenOn(w, k, u)
               /\ Slot(w, u) < 0 => SharedSetters \/ Shut(w, u) = InEnv(w, Name(w, u))
    <3>1. CASE u \in 1 .. o
      <4>1. /\ Name(m, u) \in 1 .. Known(m)
            /\ Slot(m, u) >= 0 => \E k \in 1 .. d : OpenOn(m, k, u)
            /\ Slot(m, u) < 0 => SharedSetters \/ Shut(m, u) = InEnv(m, Name(m, u))
        BY <1>1, <3>1 DEF Upvalued, o
      <4> QED BY <1>3, <1>6, <1>10, <3>1, <4>1
    <3>2. CASE u \in o + 1 .. o + n
      <4>1. Slot(w, u) >= 0 /\ Name(w, u) \in 1 .. Known(w)
        BY <1>10, <1>13, <3>2
      <4>2. OpenOn(w, d, u)
        BY <1>6, <1>7, <3>2
      <4>3. ~ (Slot(w, u) < 0)
        <5>1. \E r \in 1 .. Count(m, d) : Slot(w, u) = Reg(m, d, r)
          BY <1>4, <3>2
        <5>2. Slot(w, u) \in Nat
          BY <1>1, <1>7, <5>1, RegsApart
        <5> QED BY <5>2
      <4> QED BY <1>7, <4>1, <4>2, <4>3
    <3> QED BY <1>8, <3>1, <3>2
  <2>2. ASSUME NEW k \in 1 .. d, NEW u \in Nat, OpenOn(w, k, u)
        PROVE  /\ u \in 1 .. o + n
               /\ \E r \in 1 .. Count(w, k) : Slot(w, u) = Reg(w, k, r) /\ Name(w, u) = VarOf(w, k, r)
    <3>1. CASE OpenOn(m, k, u)
      <4>1. /\ u \in 1 .. o
            /\ \E r \in 1 .. Count(m, k) : Slot(m, u) = Reg(m, k, r) /\ Name(m, u) = VarOf(m, k, r)
        BY <1>1, <3>1 DEF Upvalued, o
      <4>2. u \in 1 .. o + n
        BY <1>2, <1>7, <4>1
      <4> QED BY <1>3, <1>9, <4>1, <4>2
    <3>2. CASE ~ OpenOn(m, k, u)
      <4>1. k = d /\ u \in o + 1 .. o + n
        BY <1>6, <2>2, <3>2
      <4>2. u \in 1 .. o + n
        BY <1>2, <1>7, <4>1
      <4> QED BY <1>4, <1>9, <4>1, <4>2
    <3> QED BY <3>1, <3>2
  <2> QED BY <1>2, <2>1, <2>2 DEF Upvalued
<1>15. Closed(w)
  <2>1. Len(w.clos) = N + 1 /\ \A i \in 1 .. N : w.clos[i] = m.clos[i]
    BY DEF Captured
  <2>2. ASSUME NEW i \in 1 .. Len(w.clos)
        PROVE  /\ Len(w.clos[i].upvalues) = Len(Code[w.clos[i].chunk].captures)
               /\ \A j \in 1 .. Len(w.clos[i].upvalues) : w.clos[i].upvalues[j] \in 1 .. Opens(w)
    <3>1. CASE i \in 1 .. N
      <4>1. 1 .. o \subseteq 1 .. o + n
        BY <1>2, <1>7
      <4>2. /\ Len(m.clos[i].upvalues) = Len(Code[m.clos[i].chunk].captures)
            /\ \A j \in 1 .. Len(m.clos[i].upvalues) : m.clos[i].upvalues[j] \in 1 .. o
        BY <1>1, <3>1 DEF Closed, o
      <4> QED BY <1>2, <2>1, <3>1, <4>1, <4>2
    <3>2. CASE i = Len(w.clos)
      BY <3>2 DEF Captured
    <3> QED BY <1>1, <2>1, <2>2, <3>1, <3>2
  <2>3. \A k \in 1 .. d :
          IF w.frames[k].closure = 0 THEN w.frames[k].chunk = "main"
          ELSE w.frames[k].closure \in 1 .. Len(w.clos) /\ w.clos[w.frames[k].closure].chunk = w.frames[k].chunk
    <3> SUFFICES ASSUME NEW k \in 1 .. d
                 PROVE  IF w.frames[k].closure = 0 THEN w.frames[k].chunk = "main"
                        ELSE w.frames[k].closure \in 1 .. Len(w.clos) /\ w.clos[w.frames[k].closure].chunk = w.frames[k].chunk
      OBVIOUS
    <3>1. w.frames[k].closure = m.frames[k].closure /\ w.frames[k].chunk = m.frames[k].chunk
      BY <1>5 DEF SameButOpened
    <3>2. IF m.frames[k].closure = 0 THEN m.frames[k].chunk = "main"
          ELSE m.frames[k].closure \in 1 .. N /\ m.clos[m.frames[k].closure].chunk = m.frames[k].chunk
      BY <1>1 DEF Closed
    <3>3. 1 .. N \subseteq 1 .. Len(w.clos)
      BY <1>1, <2>1
    <3> QED BY <2>1, <3>1, <3>2, <3>3
  <2> QED BY <1>2, <2>2, <2>3 DEF Closed
<1>16. Controlled(w)
  <2>1. \A k \in 2 .. d : k \in 1 .. d /\ k - 1 \in 1 .. d
    BY <1>7
  <2>2. \A k \in 2 .. d : ReturnsTo(w, k)
    BY <1>1, <1>2, <1>5, <1>9, <2>1 DEF Controlled, ReturnsTo, SameButOpened
  <2>3. w.frames[1].reentrant
    <3>1. 1 \in 1 .. d
      BY <1>7
    <3> QED BY <1>1, <1>5, <3>1 DEF Controlled, SameButOpened
  <2>4. HandlersOK(w)
    BY <1>1, <1>2 DEF Controlled, HandlersOK
  <2>5. ResultOK(w)
    BY <1>1, <1>2, <1>7, <1>9 DEF Controlled, ResultOK
  <2> QED BY <1>2, <2>2, <2>3, <2>4, <2>5 DEF Controlled
<1>17. GoneUpTo(w, d)
  <2> SUFFICES ASSUME NEW u \in 1 .. o + n, Slot(w, u) < 0, NEW k \in 1 .. d, NEW r \in 1 .. Count(w, k)
               PROVE  VarOf(w, k, r) # Name(w, u)
    BY <1>2 DEF GoneUpTo
  <2>1. u \in 1 .. o
    <3>1. u \in o + 1 .. o + n => Slot(w, u) \in Nat
      BY <1>1, <1>4, <1>7, RegsApart
    <3> QED BY <1>8, <3>1
  <2>2. k <= d
    BY <1>7
  <2> QED BY <1>1, <1>3, <1>9, <2>1, <2>2 DEF GoneUpTo, o
<1> QED BY <1>2, <1>11, <1>12, <1>14, <1>15, <1>16, <1>17 DEF Sound, Well

\* What make_closure builds.
Opening(m, p) == [j \in 1 .. Cardinality(Own(p)) |-> Opened(frame(m), Sublist(Code[p].captures, Own(p))[j])]
NumberOf(p, i) == CHOOSE j \in 1 .. Cardinality(Own(p)) : InOrder(Own(p))[j] = i
Chosen(m, p) ==
  [i \in DOMAIN Code[p].captures |->
     IF Code[p].captures[i][1] THEN Len(m.ups) + NumberOf(p, i)
     ELSE m.clos[frame(m).closure].upvalues[Code[p].captures[i][2] + 1]]
Numbers(m, n) == [j \in 1 .. n |-> Len(m.ups) + j]

\* What the compiler resolved of a procedure nested in that of the frame on top.
LEMMA CaptureFacts ==
  ASSUME NEW m, Sound(m), Depth(m) > 0, NEW p \in Range(Code[frame(m).chunk].protos)
  PROVE  /\ p \in DOMAIN Code /\ Code[p].captures \in Seq(BOOLEAN \X Nat)
         /\ \A i \in 1 .. Len(Code[p].captures) :
              /\ Code[p].captures[i][1] \in BOOLEAN /\ Code[p].captures[i][2] \in Nat
              /\ Code[p].captures[i][1] => Code[p].captures[i][2] < Count(m, Depth(m))
              /\ ~ Code[p].captures[i][1] => Code[p].captures[i][2] < Len(Code[frame(m).chunk].captures)
<1> DEFINE c == frame(m).chunk
           captures == Code[p].captures
<1>1. c \in DOMAIN Code /\ nvars(c) = Count(m, Depth(m))
  BY TopFrame, FrameFields
<1>2. Code[c].protos \in Seq(DOMAIN Code)
  BY <1>1, CodeAssumption
<1>3. p \in DOMAIN Code
  <2>1. PICK i \in DOMAIN Code[c].protos : p = Code[c].protos[i]
    BY DEF Range
  <2>2. DOMAIN Code[c].protos = 1 .. Len(Code[c].protos)
    BY <1>2, SeqFacts
  <2> QED BY <1>2, <2>1, <2>2, SeqFacts
<1>4. captures \in Seq(BOOLEAN \X Nat)
  BY <1>3, CodeAssumption
<1>5. DOMAIN captures = 1 .. Len(captures) /\ \A i \in 1 .. Len(captures) : captures[i] \in BOOLEAN \X Nat
  BY <1>4, SeqFacts
<1>6. \A i \in DOMAIN captures : captures[i][2] < (IF captures[i][1] THEN nvars(c) ELSE Len(Code[c].captures))
  BY <1>1, CodeAssumption
<1> HIDE DEF captures
<1>7. \A i \in 1 .. Len(captures) : captures[i][1] \in BOOLEAN /\ captures[i][2] \in Nat
  BY <1>5
<1>8. \A i \in 1 .. Len(captures) :
        /\ captures[i][1] => captures[i][2] < Count(m, Depth(m))
        /\ ~ captures[i][1] => captures[i][2] < Len(Code[c].captures)
  BY <1>1, <1>5, <1>6
<1> QED BY <1>3, <1>4, <1>7, <1>8 DEF captures

\* The upvalues that are opened.
LEMMA OpeningFacts ==
  ASSUME NEW m, Sound(m), Depth(m) > 0, NEW p \in Range(Code[frame(m).chunk].protos), NEW n, n = Cardinality(Own(p))
  PROVE  /\ n \in Nat
         /\ Opening(m, p) \in Seq(Upvalue(Len(m.clos))) /\ Len(Opening(m, p)) = n
         /\ \A j \in 1 .. n : \E r \in 1 .. Count(m, Depth(m)) :
              Opening(m, p)[j].slot = Reg(m, Depth(m), r) /\ Opening(m, p)[j].var = VarOf(m, Depth(m), r)
         /\ \A i \in DOMAIN Code[p].captures : Code[p].captures[i][1] => NumberOf(p, i) \in 1 .. n
<1> DEFINE N == Len(m.clos)
           captures == Code[p].captures
           f == frame(m)
           S == Own(p)
           L == Sublist(captures, S)
           q == Opening(m, p)
<1>1. /\ captures \in Seq(BOOLEAN \X Nat)
      /\ \A i \in 1 .. Len(captures) :
           captures[i][2] \in Nat /\ (captures[i][1] => captures[i][2] < Count(m, Depth(m)))
  BY CaptureFacts
<1>2. DOMAIN captures = 1 .. Len(captures) /\ Len(captures) \in Nat
  BY <1>1, SeqFacts
<1> HIDE DEF captures
<1>3. S \in SUBSET (1 .. Len(captures)) /\ \A i \in S : captures[i][1]
  BY <1>2 DEF Own, captures
<1>4. \A i \in DOMAIN captures : captures[i][1] => i \in S
  BY DEF Own, captures
<1> HIDE DEF S
<1>5. /\ n \in Nat /\ Len(L) = n
      /\ \A j \in 1 .. n : InOrder(S)[j] \in S /\ L[j] = captures[InOrder(S)[j]]
  BY SMTT(60), <1>1, <1>3, SublistFacts DEF S
<1>6. \A i \in S : \E j \in 1 .. n : InOrder(S)[j] = i
  BY <1>2, <1>3, OrderFacts DEF S
<1> HIDE DEF L
<1>7. \A j \in 1 .. n : L[j][2] \in Nat /\ L[j][2] < Count(m, Depth(m))
  BY <1>1, <1>3, <1>5
<1>8. /\ m \in Machine(N) /\ N \in Nat /\ Layout(m) /\ Variabled(m)
      /\ f = m.frames[Depth(m)] /\ Depth(m) \in 1 .. Depth(m) /\ f \in FrameRecord
      /\ f.base = Base(m, Depth(m)) /\ nvars(f.chunk) = Count(m, Depth(m))
  BY SoundMachine, TopFrame
<1>9. /\ f.base \in Nat /\ Count(m, Depth(m)) \in Nat
      /\ f.vars \in Seq(Nat) /\ Len(f.vars) = Count(m, Depth(m))
      /\ \A r : Reg(m, Depth(m), r) = f.base + r - 1 /\ VarOf(m, Depth(m), r) = f.vars[r]
  BY <1>8, FrameFields DEF Variabled, Reg, Base, VarOf
<1>10. \A r \in 1 .. Count(m, Depth(m)) : f.vars[r] \in Nat
  BY <1>9, SeqFacts
<1> HIDE DEF f
<1>11. <<2>> \in Value(N)
  <2>1. <<>> \in Seq(Item(N))
    BY EmptySeq
  <2>2. v_list(<<>>) = <<2>>
    BY DEF v_list
  <2> QED BY <2>1, <2>2 DEF Value
<1>12. q = [j \in 1 .. n |-> Opened(f, L[j])]
  BY DEF Opening, f, L, S, captures
<1>13. ASSUME NEW j \in 1 .. n
       PROVE  /\ q[j] \in Upvalue(N)
              /\ \E r \in 1 .. Count(m, Depth(m)) : q[j].slot = Reg(m, Depth(m), r) /\ q[j].var = VarOf(m, Depth(m), r)
  <2> DEFINE x == L[j][2]
             r == x + 1
  <2>1. x \in Nat /\ r \in 1 .. Count(m, Depth(m))
    BY <1>7, <1>9
  <2>2. q[j] = [slot |-> f.base + x, closed |-> <<2>>, var |-> f.vars[r]]
    BY <1>12 DEF Opened
  <2>3. f.vars[r] \in Nat /\ f.base + x \in Int
    BY SMTT(60), <1>9, <1>10, <2>1
  <2>4. Reg(m, Depth(m), r) = f.base + x /\ VarOf(m, Depth(m), r) = f.vars[r]
    BY <1>9, <2>1
  <2> HIDE DEF q, x, r
  <2>5. q[j] \in Upvalue(N)
    BY <1>11, <2>2, <2>3 DEF Upvalue
  <2>6. q[j].slot = f.base + x /\ q[j].var = f.vars[r]
    BY <2>2
  <2> QED BY <2>1, <2>4, <2>5, <2>6
<1>14. DOMAIN q = 1 .. n /\ q = [j \in 1 .. n |-> q[j]]
  BY <1>12
<1> HIDE DEF q
<1>15. q \in Seq(Upvalue(N)) /\ Len(q) = n
  BY <1>5, <1>13, <1>14, FunctionIsSeq
<1>16. \A i \in DOMAIN captures : captures[i][1] => NumberOf(p, i) \in 1 .. n
  BY <1>4, <1>6 DEF NumberOf, S
<1> QED BY <1>5, <1>13, <1>15, <1>16 DEF q, N, captures

\* The upvalues of the closure.
LEMMA ChosenFacts ==
  ASSUME NEW m, Sound(m), Depth(m) > 0, NEW p \in Range(Code[frame(m).chunk].protos), NEW n, n = Cardinality(Own(p))
  PROVE  /\ Chosen(m, p) \in Seq(Nat) /\ Len(Chosen(m, p)) = Len(Code[p].captures)
         /\ \A i \in 1 .. Len(Chosen(m, p)) : Chosen(m, p)[i] \in 1 .. Opens(m) + n
<1> DEFINE N == Len(m.clos)
           captures == Code[p].captures
           f == frame(m)
           q == Chosen(m, p)
           l == Len(captures)
<1>1. /\ captures \in Seq(BOOLEAN \X Nat)
      /\ \A i \in 1 .. l :
           /\ captures[i][1] \in BOOLEAN /\ captures[i][2] \in Nat
           /\ ~ captures[i][1] => captures[i][2] < Len(Code[f.chunk].captures)
  BY CaptureFacts
<1>2. DOMAIN captures = 1 .. l /\ l \in Nat
  BY <1>1, SeqFacts
<1>3. n \in Nat /\ \A i \in DOMAIN captures : captures[i][1] => NumberOf(p, i) \in 1 .. n
  BY OpeningFacts
<1>4. /\ m \in Machine(N) /\ N \in Nat /\ Closed(m)
      /\ f = m.frames[Depth(m)] /\ Depth(m) \in 1 .. Depth(m) /\ f \in FrameRecord
  BY SoundMachine, TopFrame
<1>5. Opens(m) \in Nat /\ Len(m.ups) = Opens(m)
  BY <1>4, Observed DEF Opens
<1>6. ASSUME NEW i \in 1 .. l, ~ captures[i][1]
      PROVE  m.clos[f.closure].upvalues[captures[i][2] + 1] \in 1 .. Opens(m)
  <2>1. IF f.closure = 0 THEN f.chunk = "main" ELSE f.closure \in 1 .. N /\ m.clos[f.closure].chunk = f.chunk
    BY <1>4 DEF Closed
  <2>2. captures[i][2] \in Nat /\ captures[i][2] < Len(Code[f.chunk].captures)
    BY <1>1, <1>6
  <2>3. f.chunk # "main"
    <3>1. Code["main"].captures = <<>>
      BY CodeAssumption
    <3>2. Len(Code["main"].captures) = 0
      BY <3>1, EmptySeq
    <3> HIDE DEF captures
    <3> QED BY <2>2, <3>2
  <2>4. f.closure \in 1 .. N /\ m.clos[f.closure].chunk = f.chunk
    BY <2>1, <2>3
  <2>5. /\ Len(m.clos[f.closure].upvalues) = Len(Code[f.chunk].captures)
        /\ \A j \in 1 .. Len(m.clos[f.closure].upvalues) : m.clos[f.closure].upvalues[j] \in 1 .. Opens(m)
    BY <1>4, <2>4 DEF Closed
  <2> DEFINE x == captures[i][2]
             k == Len(Code[f.chunk].captures)
  <2>6. x + 1 \in 1 .. k
    <3>1. k \in Nat
      <4>1. f.chunk \in DOMAIN Code
        BY <1>4, FrameFields
      <4>2. Code[f.chunk].captures \in Seq(BOOLEAN \X Nat)
        BY <4>1, CodeAssumption
      <4> QED BY <4>2, SeqFacts
    <3>2. x \in Nat /\ x < k
      BY <2>2
    <3> HIDE DEF x, k
    <3> QED BY <3>1, <3>2
  <2> QED BY <2>5, <2>6
<1>7. q = [i \in 1 .. l |-> IF captures[i][1] THEN Len(m.ups) + NumberOf(p, i)
                            ELSE m.clos[f.closure].upvalues[captures[i][2] + 1]]
  BY <1>2 DEF Chosen
<1> HIDE DEF captures, f, l
<1>8. ASSUME NEW i \in 1 .. l PROVE q[i] \in 1 .. Opens(m) + n
  <2>1. q[i] = IF captures[i][1] THEN Len(m.ups) + NumberOf(p, i) ELSE m.clos[f.closure].upvalues[captures[i][2] + 1]
    BY <1>7
  <2> HIDE DEF q
  <2>2. CASE captures[i][1]
    <3>1. NumberOf(p, i) \in 1 .. n
      BY <1>2, <1>3, <2>2
    <3>2. q[i] = Opens(m) + NumberOf(p, i)
      BY <1>5, <2>1, <2>2
    <3> QED BY <1>3, <1>5, <3>1, <3>2
  <2>3. CASE ~ captures[i][1]
    <3>1. q[i] \in 1 .. Opens(m)
      BY <1>6, <2>1, <2>3
    <3> QED BY <1>3, <1>5, <3>1
  <2> QED BY <1>1, <2>2, <2>3
<1>9. DOMAIN q = 1 .. l /\ q = [i \in 1 .. l |-> q[i]]
  BY <1>7
<1> HIDE DEF q
<1>10. \A i \in 1 .. l : q[i] \in Nat
  BY <1>3, <1>5, <1>8
<1>11. q \in Seq(Nat) /\ Len(q) = l
  BY <1>2, <1>9, <1>10, FunctionIsSeq
<1> QED BY <1>8, <1>11 DEF q, l, captures

\* The numbers of the new upvalues.
LEMMA NumbersFacts ==
  ASSUME NEW m, NEW n \in Nat, Len(m.ups) \in Nat
  PROVE  /\ Numbers(m, n) \in Seq(Nat) /\ Len(Numbers(m, n)) = n
         /\ \A j \in 1 .. n : Numbers(m, n)[j] = Len(m.ups) + j
<1> DEFINE q == Numbers(m, n)
           o == Len(m.ups)
<1>1. q = [j \in 1 .. n |-> o + j] /\ o \in Nat
  BY DEF Numbers
<1> HIDE DEF q, o
<1>2. DOMAIN q = 1 .. n /\ q = [j \in 1 .. n |-> q[j]] /\ \A j \in 1 .. n : q[j] = o + j /\ q[j] \in Nat
  BY <1>1
<1>3. q \in Seq(Nat) /\ Len(q) = n
  BY <1>2, FunctionIsSeq
<1> QED BY <1>2, <1>3 DEF q, o

\* A frame with more on its list.
LEMMA MoreOpened ==
  ASSUME NEW f \in FrameRecord, NEW us \in Seq(Nat), NEW g, g = [f EXCEPT !.opened = @ \o us]
  PROVE  g \in FrameRecord /\ SameButOpened(f, g) /\ g.opened = f.opened \o us
<1> DEFINE q == f.opened \o us
<1>1. f.opened \in Seq(Nat) /\ q \in Seq(Nat)
  BY FrameFields, ConcatProperties
<1>2. g = [f EXCEPT !.opened = q]
  OBVIOUS
<1> HIDE DEF q
<1>3. g \in FrameRecord /\ SameButOpened(f, g) /\ g.opened = q
  BY <1>1, <1>2 DEF FrameRecord, SameButOpened
<1> QED BY <1>3 DEF q

\* What is in either of two sequences.
In(q, x) == \E i \in 1 .. Len(q) : q[i] = x

LEMMA InConcat ==
  ASSUME NEW T, NEW s \in Seq(T), NEW t \in Seq(T), NEW q, q = s \o t, NEW x
  PROVE  In(q, x) <=> In(s, x) \/ In(t, x)
<1> DEFINE a == Len(s)
           b == Len(t)
<1>1. /\ Len(q) = a + b /\ a \in Nat /\ b \in Nat
      /\ \A i \in 1 .. a + b : q[i] = IF i <= a THEN s[i] ELSE t[i - a]
  BY ConcatProperties, LenProperties
<1> HIDE DEF a, b
<1>2. ASSUME NEW i \in 1 .. Len(q), q[i] = x PROVE (\E j \in 1 .. a : s[j] = x) \/ (\E j \in 1 .. b : t[j] = x)
  <2>1. CASE i <= a
    <3>1. i \in 1 .. a /\ s[i] = x
      BY <1>1, <1>2, <2>1
    <3> QED BY <3>1
  <2>2. CASE ~ (i <= a)
    <3>1. i - a \in 1 .. b /\ t[i - a] = x
      BY <1>1, <1>2, <2>2
    <3> QED BY <3>1
  <2> QED BY <2>1, <2>2
<1>3. ASSUME NEW i \in 1 .. a, s[i] = x PROVE \E j \in 1 .. Len(q) : q[j] = x
  <2>1. i \in 1 .. a + b /\ i <= a
    BY <1>1
  <2> QED BY <1>1, <1>3, <2>1
<1>4. ASSUME NEW i \in 1 .. b, t[i] = x PROVE \E j \in 1 .. Len(q) : q[j] = x
  <2> DEFINE j == a + i
  <2>1. j \in 1 .. a + b /\ ~ (j <= a) /\ j - a = i
    BY <1>1
  <2> HIDE DEF j
  <2>2. q[j] = x
    BY <1>1, <1>4, <2>1
  <2> QED BY <1>1, <2>1, <2>2
<1> QED BY <1>2, <1>3, <1>4 DEF In, a, b

\* make_closure.
LEMMA MakeKeeps ==
  ASSUME NEW m, Well(m), Depth(m) > 0, NEW p \in Range(Code[frame(m).chunk].protos)
  PROVE  /\ Captured(m, make_closure(m, p), Cardinality(Own(p)))
         /\ make_closure(m, p).nsets = m.nsets /\ make_closure(m, p).ncalls = m.ncalls
<1> DEFINE N == Len(m.clos)
           d == Depth(m)
           o == Opens(m)
           n == Cardinality(Own(p))
           us == Numbers(m, n)
           opening == Opening(m, p)
           chosen == Chosen(m, p)
           x == [chunk |-> p, upvalues |-> chosen]
           f == m.frames[d]
           g == [f EXCEPT !.opened = @ \o us]
           ups == m.ups \o opening
           clos == Append(m.clos, x)
           frames == [m.frames EXCEPT ![d] = g]
           w == [m EXCEPT !.ups = ups, !.clos = clos, !.frames = frames]
<1>1. Sound(m) /\ m \in Machine(N) /\ N \in Nat
  BY SoundMachine DEF Well
<1>2. make_closure(m, p) = w
  <2> DEFINE v == [m EXCEPT !.ups = @ \o opening, !.clos = Append(@, x)]
  <2>1. make_closure(m, p) = frame_add_opened(v, us)
    BY DEF make_closure, Opening, Chosen, NumberOf, Numbers
  <2>2. v = [m EXCEPT !.ups = ups, !.clos = clos]
    OBVIOUS
  <2> HIDE DEF ups, clos
  <2>3. v.frames = m.frames
    BY <2>2
  <2>4. frame_add_opened(v, us) = [v EXCEPT !.frames = [v.frames EXCEPT ![Len(v.frames)] = [v.frames[Len(v.frames)] EXCEPT !.opened = @ \o us]]]
    BY DEF frame_add_opened
  <2> HIDE DEF v
  <2>5. frame_add_opened(v, us) = [v EXCEPT !.frames = frames]
    BY <2>3, <2>4 DEF Depth
  <2> HIDE DEF frames
  <2> QED BY <1>1, <2>1, <2>2, <2>5 DEF Machine
<1>3. /\ n \in Nat /\ opening \in Seq(Upvalue(N)) /\ Len(opening) = n
      /\ \A j \in 1 .. n : \E r \in 1 .. Count(m, d) : opening[j].slot = Reg(m, d, r) /\ opening[j].var = VarOf(m, d, r)
  BY <1>1, OpeningFacts
<1>4. chosen \in Seq(Nat) /\ Len(chosen) = Len(Code[p].captures) /\ \A i \in 1 .. Len(chosen) : chosen[i] \in 1 .. o + n
  BY <1>1, ChosenFacts
<1>5. p \in DOMAIN Code
  BY <1>1, CaptureFacts
<1> HIDE DEF opening, chosen, n
<1>6. x \in Closure /\ x.chunk = p /\ x.upvalues = chosen
  BY <1>4, <1>5 DEF Closure
<1> HIDE DEF x
<1>7. /\ o \in Nat /\ o = Len(m.ups) /\ d \in Nat /\ d \in 1 .. d /\ d = Len(m.frames) /\ f \in FrameRecord
  BY <1>1, Observed, TopFrame DEF Opens, Depth
<1>8. us \in Seq(Nat) /\ Len(us) = n /\ \A j \in 1 .. n : us[j] = o + j
  BY <1>3, <1>7, NumbersFacts
<1> HIDE DEF us, d, f
<1>9. g \in FrameRecord /\ SameButOpened(f, g) /\ g.opened = f.opened \o us
  BY <1>7, <1>8, MoreOpened
<1> HIDE DEF g
<1>10. m.frames \in Seq(FrameRecord) /\ m.ups \in Seq(Upvalue(N)) /\ m.clos \in Seq(Closure)
  BY <1>1 DEF Machine
<1>11. /\ frames \in Seq(FrameRecord) /\ Len(frames) = d
       /\ \A k \in 1 .. d : frames[k] = IF k = d THEN g ELSE m.frames[k]
  BY <1>7, <1>9, <1>10, ExceptSeq
<1>12. /\ ups \in Seq(Upvalue(N)) /\ Len(ups) = o + n
       /\ \A u \in 1 .. o + n : ups[u] = IF u <= o THEN m.ups[u] ELSE opening[u - o]
  <2> HIDE DEF N
  <2>1. /\ ups \in Seq(Upvalue(N)) /\ Len(ups) = Len(m.ups) + Len(opening)
        /\ \A u \in 1 .. Len(m.ups) + Len(opening) :
             ups[u] = IF u <= Len(m.ups) THEN m.ups[u] ELSE opening[u - Len(m.ups)]
    BY <1>3, <1>10, ConcatProperties
  <2> HIDE DEF ups, o
  <2> QED BY <1>3, <1>7, <2>1
<1>13. /\ clos \in Seq(Closure) /\ Len(clos) = N + 1 /\ clos[N + 1] = x /\ \A i \in 1 .. N : clos[i] = m.clos[i]
  BY <1>6, <1>10, AppendProperties
<1> HIDE DEF frames, ups, clos
<1>14. /\ w.stack = m.stack /\ w.frames = frames /\ w.ups = ups /\ w.clos = clos /\ w.env = m.env /\ w.handlers = m.handlers
       /\ w.result = m.result /\ w.nsets = m.nsets /\ w.ncalls = m.ncalls
       /\ w \in Machine(N)
  BY <1>1, <1>11, <1>12, <1>13 DEF Machine
<1> HIDE DEF w, N, o
<1>15. w \in Machine(Len(w.clos))
  <2>1. N + 1 \in Nat /\ N <= N + 1 /\ Len(w.clos) = N + 1
    BY <1>1, <1>13, <1>14
  <2>2. Value(N) \subseteq Value(N + 1) /\ Seq(Value(N)) \subseteq Seq(Value(N + 1))
    BY <1>1, <2>1, MoreValues
  <2>3. Seq(Upvalue(N)) \subseteq Seq(Upvalue(N + 1)) /\ Seq(Result(N)) \subseteq Seq(Result(N + 1))
    <3>1. Upvalue(N) \subseteq Upvalue(N + 1)
      BY <2>2 DEF Upvalue
    <3>2. Result(N) \subseteq Result(N + 1)
      BY <2>2 DEF Result
    <3> QED BY <3>1, <3>2, SeqMonotonic
  <2>4. [0 .. stack_cap - 1 -> Value(N)] \subseteq [0 .. stack_cap - 1 -> Value(N + 1)]
    BY <2>2
  <2>5. Machine(N) \subseteq Machine(N + 1)
    BY <2>2, <2>3, <2>4 DEF Machine
  <2> QED BY <1>14, <2>1, <2>5
<1>16. /\ Depth(w) = d /\ Opens(w) = o + n
  BY <1>11, <1>12, <1>14 DEF Depth, Opens
<1>17. \A u \in 1 .. o : Slot(w, u) = Slot(m, u) /\ Name(w, u) = Name(m, u) /\ Shut(w, u) = Shut(m, u)
  <2>1. \A u \in 1 .. o : u \in 1 .. o + n /\ u <= o
    BY <1>3, <1>7
  <2>2. \A u \in 1 .. o : w.ups[u] = m.ups[u]
    BY <1>12, <1>14, <2>1
  <2> QED BY <2>2 DEF Slot, Name, Shut
<1>18. ASSUME NEW u \in o + 1 .. o + n
       PROVE  \E r \in 1 .. Count(m, d) : Slot(w, u) = Reg(m, d, r) /\ Name(w, u) = VarOf(m, d, r)
  <2> DEFINE j == u - o
  <2>1. j \in 1 .. n /\ u \in 1 .. o + n /\ ~ (u <= o)
    BY <1>3, <1>7
  <2>2. w.ups[u] = opening[j]
    BY <1>12, <1>14, <2>1
  <2> HIDE DEF j
  <2>3. Slot(w, u) = opening[j].slot /\ Name(w, u) = opening[j].var
    BY <2>2 DEF Slot, Name
  <2> QED BY <1>3, <2>1, <2>3 DEF d
<1>19. ASSUME NEW k \in 1 .. d
       PROVE  /\ SameButOpened(m.frames[k], w.frames[k])
              /\ \A u : OpenOn(w, k, u) <=> OpenOn(m, k, u) \/ (k = d /\ u \in o + 1 .. o + n)
  <2>1. CASE k = d
    <3>1. w.frames[k] = g /\ m.frames[k] = f
      BY <1>11, <1>14, <2>1 DEF f
    <3>2. ASSUME NEW u PROVE OpenOn(w, k, u) <=> OpenOn(m, k, u) \/ u \in o + 1 .. o + n
      <4>1. OpenOn(w, k, u) <=> OpenOn(m, k, u) \/ \E i \in 1 .. Len(us) : us[i] = u
        <5>1. f.opened \in Seq(Nat)
          BY <1>7, FrameFields
        <5>2. In(g.opened, u) <=> In(f.opened, u) \/ In(us, u)
          BY <1>8, <1>9, <5>1, InConcat
        <5> QED BY <3>1, <5>2 DEF OpenOn, In
      <4>2. (\E i \in 1 .. Len(us) : us[i] = u) <=> u \in o + 1 .. o + n
        <5>1. ASSUME NEW i \in 1 .. n, us[i] = u PROVE u \in o + 1 .. o + n
          BY <1>3, <1>7, <1>8, <5>1
        <5>2. ASSUME u \in o + 1 .. o + n PROVE \E i \in 1 .. n : us[i] = u
          <6> DEFINE i == u - o
          <6>1. i \in 1 .. n /\ o + i = u
            BY <1>3, <1>7, <5>2
          <6> HIDE DEF i
          <6> QED BY <1>8, <6>1
        <5> QED BY <1>8, <5>1, <5>2
      <4> QED BY <4>1, <4>2
    <3> QED BY <1>9, <2>1, <3>1, <3>2
  <2>2. CASE k # d
    <3>1. w.frames[k] = m.frames[k]
      BY <1>11, <1>14, <2>2
    <3> QED BY <2>2, <3>1 DEF SameButOpened, OpenOn
  <2> QED BY <2>1, <2>2
<1>20. /\ Len(w.clos) = N + 1 /\ \A i \in 1 .. N : w.clos[i] = m.clos[i]
       /\ w.clos[Len(w.clos)] = x
  BY <1>13, <1>14
<1>21. /\ Len(w.clos[Len(w.clos)].upvalues) = Len(Code[w.clos[Len(w.clos)].chunk].captures)
       /\ \A j \in 1 .. Len(w.clos[Len(w.clos)].upvalues) : w.clos[Len(w.clos)].upvalues[j] \in 1 .. Opens(w)
  BY <1>4, <1>6, <1>16, <1>20
<1>22. Captured(m, w, n)
  BY <1>3, <1>14, <1>15, <1>16, <1>17, <1>18, <1>19, <1>20, <1>21 DEF Captured, N, d, o
<1> QED BY <1>2, <1>14, <1>22 DEF n

\* OP_SETUPVAL of an upvalue u.
SetUp(m, u, v) ==
  [m EXCEPT !.ups[u].closed = IF m.ups[u].slot >= 0 THEN @ ELSE v,
            !.stack = IF m.ups[u].slot >= 0 THEN [@ EXCEPT ![m.ups[u].slot] = v] ELSE @,
            !.env[m.ups[u].var] = v, !.nsets = @ + 1]

\* w is m after v was put into the upvalue u, which is closed.
Shuts(m, w, u, v) ==
  /\ w \in Machine(Len(m.clos)) /\ w.clos = m.clos /\ w.frames = m.frames /\ w.handlers = m.handlers
  /\ w.result = m.result /\ w.stack = m.stack
  /\ Opens(w) = Opens(m) /\ Known(w) = Known(m)
  /\ \A y \in 1 .. Opens(m) : /\ Slot(w, y) = Slot(m, y) /\ Name(w, y) = Name(m, y)
                              /\ Shut(w, y) = IF y = u THEN v ELSE Shut(m, y)
  /\ \A x \in 1 .. Known(m) : InEnv(w, x) = IF x = Name(m, u) THEN v ELSE InEnv(m, x)

LEMMA ShutKeeps ==
  ASSUME NEW m, Well(m), NEW u \in 1 .. Opens(m), Slot(m, u) < 0,
         SharedSetters \/ \A y \in 1 .. Opens(m) : Name(m, y) = Name(m, u) => y = u,
         NEW v, NEW w, Shuts(m, w, u, v)
  PROVE  Well(w)
<1>1. /\ Sound(m) /\ Layout(m) /\ Variabled(m) /\ Upvalued(m) /\ Closed(m) /\ Controlled(m) /\ GoneUpTo(m, Depth(m))
  BY SoundMachine DEF Well
<1>2. /\ w \in Machine(Len(w.clos)) /\ w.clos = m.clos /\ w.frames = m.frames /\ w.handlers = m.handlers
      /\ w.result = m.result /\ w.stack = m.stack /\ Opens(w) = Opens(m) /\ Known(w) = Known(m) /\ Depth(w) = Depth(m)
      /\ \A x : OnStack(w, x) = OnStack(m, x)
  BY DEF Shuts, Depth, OnStack
<1>3. /\ \A y \in 1 .. Opens(m) : Slot(w, y) = Slot(m, y) /\ Name(w, y) = Name(m, y)
      /\ \A y \in 1 .. Opens(m) : Shut(w, y) = IF y = u THEN v ELSE Shut(m, y)
      /\ \A x \in 1 .. Known(m) : InEnv(w, x) = IF x = Name(m, u) THEN v ELSE InEnv(m, x)
  BY DEF Shuts
<1>4. \A k : /\ Base(w, k) = Base(m, k) /\ Count(w, k) = Count(m, k) /\ End(w, k) = End(m, k)
             /\ \A r : Reg(w, k, r) = Reg(m, k, r) /\ VarOf(w, k, r) = VarOf(m, k, r)
             /\ \A y : OpenOn(w, k, y) <=> OpenOn(m, k, y)
  BY <1>2 DEF Base, Count, End, Reg, VarOf, OpenOn
<1>5. Layout(w)
  BY <1>1, <1>2, <1>4 DEF Layout
<1>6. \A k \in 1 .. Depth(m) : \A r \in 1 .. Count(m, k) : VarOf(m, k, r) # Name(m, u)
  <2>1. \A k \in 1 .. Depth(m) : k <= Depth(m)
    BY <1>1, SoundMachine, Observed
  <2> QED BY <1>1, <2>1 DEF GoneUpTo
<1>7. Variabled(w)
  <2>1. \A k \in 1 .. Depth(m) : Len(w.frames[k].vars) = Count(w, k)
    BY <1>1, <1>2, <1>4 DEF Variabled
  <2> QED BY <1>1, <1>2, <1>3, <1>4, <1>6, <2>1 DEF Variabled
<1>8. Upvalued(w)
  <2>1. ASSUME NEW y \in 1 .. Opens(m)
        PROVE  /\ Name(w, y) \in 1 .. Known(w)
               /\ Slot(w, y) >= 0 => \E k \in 1 .. Depth(m) : OpenOn(w, k, y)
               /\ Slot(w, y) < 0 => SharedSetters \/ Shut(w, y) = InEnv(w, Name(w, y))
    <3>1. /\ Name(m, y) \in 1 .. Known(m)
          /\ Slot(m, y) >= 0 => \E k \in 1 .. Depth(m) : OpenOn(m, k, y)
          /\ Slot(m, y) < 0 => SharedSetters \/ Shut(m, y) = InEnv(m, Name(m, y))
      BY <1>1 DEF Upvalued
    <3> QED BY <1>2, <1>3, <1>4, <3>1
  <2>2. \A k \in 1 .. Depth(m) : \A y \in Nat : OpenOn(m, k, y) =>
          /\ y \in 1 .. Opens(m)
          /\ \E r \in 1 .. Count(m, k) : Slot(m, y) = Reg(m, k, r) /\ Name(m, y) = VarOf(m, k, r)
    BY <1>1 DEF Upvalued
  <2> QED BY <1>2, <1>3, <1>4, <2>1, <2>2 DEF Upvalued
<1>9. Closed(w)
  BY <1>1, <1>2 DEF Closed
<1>10. Controlled(w)
  BY <1>1, <1>2, SameControl
<1>11. GoneUpTo(w, Depth(w))
  BY <1>1, <1>2, <1>3, <1>4 DEF GoneUpTo
<1> QED BY <1>2, <1>5, <1>7, <1>8, <1>9, <1>10, <1>11 DEF Sound, Well

\* upval_value set: in the register while it is open, in the upvalue after.
LEMMA SetUpKeeps ==
  ASSUME NEW m, Well(m), NEW u \in 1 .. Opens(m), NEW v \in Value(Len(m.clos)),
         Slot(m, u) >= 0 \/ SharedSetters \/ \A y \in 1 .. Opens(m) : Name(m, y) = Name(m, u) => y = u
  PROVE  Well(SetUp(m, u, v))
<1> DEFINE n == Len(m.clos)
           p == m.ups[u]
           open == p.slot >= 0
           x == p.var
           q == [p EXCEPT !.closed = IF open THEN p.closed ELSE v]
           ups == [m.ups EXCEPT ![u] = q]
           stack == IF open THEN [m.stack EXCEPT ![p.slot] = v] ELSE m.stack
           env == [m.env EXCEPT ![x] = v]
           w == SetUp(m, u, v)
<1>1. /\ Sound(m) /\ m \in Machine(n) /\ n \in Nat /\ Upvalued(m) /\ Controlled(m)
  BY SoundMachine DEF Well
<1>2. w = [m EXCEPT !.ups = ups, !.stack = stack, !.env = env, !.nsets = m.nsets + 1]
  BY DEF SetUp
<1>3. /\ m.stack \in [0 .. stack_cap - 1 -> Value(n)] /\ m.ups \in Seq(Upvalue(n)) /\ m.env \in Seq(Value(n)) /\ m.nsets \in Nat
      /\ Len(m.ups) = Opens(m) /\ Len(m.env) = Known(m) /\ p \in Upvalue(n)
  BY <1>1, Fields DEF Opens, Known
<1>4. /\ Slot(m, u) = p.slot /\ Name(m, u) = x /\ Shut(m, u) = p.closed /\ x \in 1 .. Known(m)
  BY <1>1 DEF Slot, Name, Shut, Upvalued
<1>5. open => p.slot \in 0 .. stack_cap - 1
  BY <1>1, <1>4, OpenFacts
<1> HIDE DEF p, x
<1>6. q \in Upvalue(n) /\ q.slot = p.slot /\ q.var = p.var /\ q.closed = IF open THEN p.closed ELSE v
  <2> DEFINE c == IF open THEN p.closed ELSE v
  <2>1. c \in Value(n)
    BY <1>3 DEF Upvalue
  <2> HIDE DEF c
  <2>2. [p EXCEPT !.closed = c] \in Upvalue(n) /\ [p EXCEPT !.closed = c].slot = p.slot
        /\ [p EXCEPT !.closed = c].var = p.var /\ [p EXCEPT !.closed = c].closed = c
    BY <1>3, <2>1 DEF Upvalue
  <2> QED BY <2>2 DEF c
<1> HIDE DEF q
<1>7. /\ ups \in Seq(Upvalue(n)) /\ Len(ups) = Opens(m) /\ \A y \in 1 .. Opens(m) : ups[y] = IF y = u THEN q ELSE m.ups[y]
  BY <1>3, <1>6, ExceptSeq
<1>8. /\ env \in Seq(Value(n)) /\ Len(env) = Known(m) /\ \A y \in 1 .. Known(m) : env[y] = IF y = x THEN v ELSE m.env[y]
  BY <1>3, <1>4, ExceptSeq
<1>9. /\ stack \in [0 .. stack_cap - 1 -> Value(n)]
      /\ open => \A y \in 0 .. stack_cap - 1 : stack[y] = IF y = p.slot THEN v ELSE m.stack[y]
      /\ ~ open => stack = m.stack
  BY <1>3, <1>5
<1> HIDE DEF ups, env, stack, w
<1>10. /\ w \in Machine(n) /\ w.ups = ups /\ w.stack = stack /\ w.env = env /\ w.clos = m.clos /\ w.frames = m.frames
       /\ w.handlers = m.handlers /\ w.result = m.result
  <2> DEFINE c == m.nsets + 1
  <2>1. c \in Nat
    BY <1>3
  <2> HIDE DEF c
  <2>2. w = [m EXCEPT !.ups = ups, !.stack = stack, !.env = env, !.nsets = c]
    BY <1>2 DEF c
  <2> QED BY <1>1, <1>7, <1>8, <1>9, <2>1, <2>2 DEF Machine
<1>11. Controlled(w)
  BY <1>1, <1>10, SameControl
<1>12. /\ Known(w) = Known(m) /\ Opens(w) = Opens(m)
       /\ \A y \in 1 .. Known(m) : InEnv(w, y) = IF y = x THEN v ELSE InEnv(m, y)
  BY <1>7, <1>8, <1>10 DEF Known, Opens, InEnv
<1>13. CASE open
  <2>1. Slot(m, u) >= 0
    BY <1>4, <1>13
  <2>2. PICK k \in 1 .. Depth(m) : \E r \in 1 .. Count(m, k) : Slot(m, u) = Reg(m, k, r) /\ Name(m, u) = VarOf(m, k, r)
    BY <1>1, <2>1, OpenFacts
  <2>3. PICK r \in 1 .. Count(m, k) : Slot(m, u) = Reg(m, k, r) /\ Name(m, u) = VarOf(m, k, r)
    BY <2>2
  <2>4. w.ups = m.ups
    <3>1. q = p
      BY <1>3, <1>6, <1>13 DEF Upvalue
    <3>2. \A y \in 1 .. Opens(m) : ups[y] = m.ups[y]
      BY <1>7, <3>1 DEF p
    <3> QED BY <1>3, <1>7, <1>10, <3>2, SeqEqual
  <2>5. \A y \in 0 .. stack_cap - 1 : OnStack(w, y) = IF y = Reg(m, k, r) THEN v ELSE OnStack(m, y)
    BY <1>4, <1>9, <1>10, <1>13, <2>3 DEF OnStack
  <2>6. Assigned(m, w, k, r, v)
    BY <1>4, <1>10, <1>12, <2>3, <2>4, <2>5 DEF Assigned
  <2>7. Well(w)
    BY <1>11, <2>6, AssignKeeps
  <2> QED BY <2>7 DEF w
<1>14. CASE ~ open
  <2>1. Slot(m, u) < 0
    <3>1. Slot(m, u) \in Int
      BY <1>1, Observed
    <3> QED BY <1>4, <1>14, <3>1
  <2>2. \A y \in 1 .. Opens(m) : /\ Slot(w, y) = Slot(m, y) /\ Name(w, y) = Name(m, y)
                                 /\ Shut(w, y) = IF y = u THEN v ELSE Shut(m, y)
    <3> SUFFICES ASSUME NEW y \in 1 .. Opens(m)
                 PROVE  /\ Slot(w, y) = Slot(m, y) /\ Name(w, y) = Name(m, y)
                        /\ Shut(w, y) = IF y = u THEN v ELSE Shut(m, y)
      OBVIOUS
    <3>1. w.ups[y] = IF y = u THEN q ELSE m.ups[y]
      BY <1>7, <1>10
    <3>2. CASE y = u
      <4>1. w.ups[y] = q /\ m.ups[y] = p
        BY <3>1, <3>2 DEF p
      <4> QED BY <1>6, <1>14, <3>2, <4>1 DEF Slot, Name, Shut
    <3>3. CASE y # u
      BY <3>1, <3>3 DEF Slot, Name, Shut
    <3> QED BY <3>2, <3>3
  <2>3. Shuts(m, w, u, v)
    BY <1>4, <1>9, <1>10, <1>12, <1>14, <2>2 DEF Shuts
  <2>4. SharedSetters \/ \A y \in 1 .. Opens(m) : Name(m, y) = Name(m, u) => y = u
    <3>1. ~ (Slot(m, u) >= 0)
      BY <1>4, <1>14
    <3> QED BY <3>1
  <2>5. Well(w)
    BY <2>1, <2>3, <2>4, ShutKeeps
  <2> QED BY <2>5 DEF w
<1> QED BY <1>13, <1>14

\* Only what is counted changes.
LEMMA CountKeeps ==
  ASSUME NEW m, Well(m)
  PROVE  /\ Well([m EXCEPT !.nsets = @ + 1]) /\ Well([m EXCEPT !.ncalls = @ + 1])
         /\ [m EXCEPT !.ncalls = @ + 1].frames = m.frames /\ [m EXCEPT !.ncalls = @ + 1].result = m.result
         /\ [m EXCEPT !.ncalls = @ + 1].handlers = m.handlers
<1> DEFINE n == Len(m.clos)
           a == m.nsets + 1
           b == m.ncalls + 1
           w == [m EXCEPT !.nsets = a]
           v == [m EXCEPT !.ncalls = b]
<1>1. m \in Machine(n) /\ n \in Nat /\ Sound(m) /\ GoneUpTo(m, Depth(m)) /\ Controlled(m)
  BY SoundMachine DEF Well
<1>2. a \in Nat /\ b \in Nat
  BY <1>1, Fields
<1> HIDE DEF a, b, n
<1>3. /\ w \in Machine(n) /\ w.stack = m.stack /\ w.frames = m.frames /\ w.ups = m.ups /\ w.clos = m.clos /\ w.env = m.env
      /\ w.handlers = m.handlers /\ w.result = m.result
  BY <1>1, <1>2 DEF Machine
<1>4. /\ v \in Machine(n) /\ v.stack = m.stack /\ v.frames = m.frames /\ v.ups = m.ups /\ v.clos = m.clos /\ v.env = m.env
      /\ v.handlers = m.handlers /\ v.result = m.result
  BY <1>1, <1>2 DEF Machine
<1> HIDE DEF w, v
<1>5. ASSUME NEW x, x \in Machine(n), x.stack = m.stack, x.frames = m.frames, x.ups = m.ups, x.clos = m.clos, x.env = m.env,
             x.handlers = m.handlers, x.result = m.result
      PROVE  Well(x)
  <2>1. Controlled(x)
    BY <1>1, <1>5, SameControl
  <2>2. Depth(x) = Depth(m) /\ \A y : OnStack(x, y) = OnStack(m, y)
    BY <1>5 DEF Depth, OnStack
  <2> QED BY <1>1, <1>5, <2>1, <2>2, Bookkeeping DEF Well, n
<1>6. Well(w) /\ Well(v)
  BY <1>3, <1>4, <1>5
<1> QED BY <1>4, <1>6 DEF w, v, a, b

\* No guard is in the frame that runs.
LEMMA Unguarded ==
  ASSUME NEW m, Sound(m), ~ (m.handlers # <<>> /\ Last(m.handlers) = Len(m.frames))
  PROVE  \A i \in 1 .. Len(m.handlers) : m.handlers[i] # Depth(m)
<1>1. CASE m.handlers = <<>>
  <2>1. Len(m.handlers) = 0
    BY <1>1, EmptySeq
  <2> QED BY <2>1
<1>2. CASE m.handlers # <<>>
  <2>1. /\ Last(m.handlers) \in 1 .. Depth(m) /\ Last(m.handlers) # Depth(m)
        /\ \A i \in 1 .. Len(m.handlers) : m.handlers[i] <= Last(m.handlers)
    BY <1>2, HandlerFacts DEF Depth
  <2>2. Depth(m) \in Nat
    BY SoundMachine, Observed
  <2> QED BY <2>1, <2>2
<1> QED BY <1>1, <1>2

\* A guard is installed.
LEMMA InstallKeeps ==
  ASSUME NEW m, Well(m), Depth(m) > 0, m.result = <<>>
  PROVE  Well([m EXCEPT !.handlers = Append(@, Len(m.frames))])
<1> DEFINE n == Len(m.clos)
           d == Depth(m)
           q == Append(m.handlers, d)
           w == [m EXCEPT !.handlers = q]
           l == Len(m.handlers)
<1>1. m \in Machine(n) /\ n \in Nat /\ Sound(m) /\ GoneUpTo(m, d) /\ Controlled(m)
  BY SoundMachine DEF Well
<1>2. d \in Nat /\ d \in 1 .. d /\ d = Len(m.frames)
  BY <1>1, Observed DEF Depth
<1>3. m.handlers \in Seq(Nat) /\ l \in Nat
  BY <1>1, Fields
<1>4. q \in Seq(Nat) /\ Len(q) = l + 1 /\ q[l + 1] = d /\ \A i \in 1 .. l : q[i] = m.handlers[i]
  BY <1>2, <1>3, AppendProperties
<1> HIDE DEF q, w, l, d
<1>5. /\ w \in Machine(n) /\ w.stack = m.stack /\ w.frames = m.frames /\ w.ups = m.ups /\ w.clos = m.clos /\ w.env = m.env
      /\ w.handlers = q /\ w.result = m.result
  BY <1>1, <1>4 DEF Machine, w
<1>6. Depth(w) = d /\ (\A k : Count(w, k) = Count(m, k)) /\ \A y : OnStack(w, y) = OnStack(m, y)
  BY <1>5 DEF Depth, Count, OnStack, d
<1>7. \A i \in 1 .. Len(q) : i \in 1 .. l \/ i = l + 1
  BY <1>3, <1>4
<1>8. /\ \A i \in 1 .. l : m.handlers[i] \in 1 .. d
      /\ \A i, j \in 1 .. l : i <= j => m.handlers[i] <= m.handlers[j]
  BY <1>1 DEF Controlled, HandlersOK, l, d
<1>9. Controlled(w)
  <2>1. ASSUME NEW k \in 2 .. d PROVE ReturnsTo(w, k)
    <3>1. ReturnsTo(m, k)
      BY <1>1 DEF Controlled, d
    <3>2. k - 1 # d
      BY <1>2
    <3>3. m.frames[k].reentrant /\ m.frames[k].wait.tail => \A i \in 1 .. Len(q) : q[i] # k - 1
      BY <1>4, <1>7, <3>1, <3>2 DEF ReturnsTo, l
    <3> QED BY <1>5, <1>6, <3>1, <3>3 DEF ReturnsTo
  <2>2. HandlersOK(w)
    <3>1. \A i \in 1 .. Len(q) : q[i] \in 1 .. d
      BY <1>2, <1>4, <1>7, <1>8
    <3>2. ASSUME NEW i \in 1 .. Len(q), NEW j \in 1 .. Len(q), i <= j PROVE q[i] <= q[j]
      <4>1. CASE i \in 1 .. l /\ j \in 1 .. l
        BY <1>4, <1>8, <3>2, <4>1
      <4>2. CASE j = l + 1
        BY <1>2, <1>4, <3>1, <4>2
      <4>3. i = l + 1 => j = l + 1
        BY <1>3, <1>4, <3>2
      <4> QED BY <1>7, <4>1, <4>2, <4>3
    <3> QED BY <1>5, <1>6, <3>1, <3>2 DEF HandlersOK
  <2>3. ResultOK(w)
    <3>1. Len(w.result) = 0
      BY <1>5, EmptySeq
    <3> QED BY <3>1 DEF ResultOK
  <2>4. d > 0 => w.frames[1].reentrant
    BY <1>1, <1>5 DEF Controlled, d
  <2> QED BY <1>6, <2>1, <2>2, <2>3, <2>4 DEF Controlled
<1>10. Well(w)
  BY <1>1, <1>5, <1>6, <1>9, Bookkeeping DEF Well, n, d
<1> QED BY <1>10 DEF w, q, d, Depth

\* A builtin's result is taken.
LEMMA TakeResult ==
  ASSUME NEW m, Well(m), m.result # <<>>
  PROVE  /\ Well([m EXCEPT !.result = Front(@)]) /\ Depth([m EXCEPT !.result = Front(@)]) = Depth(m)
         /\ [m EXCEPT !.result = Front(@)].result = <<>> /\ [m EXCEPT !.result = Front(@)].clos = m.clos
         /\ [m EXCEPT !.result = Front(@)].frames = m.frames
         /\ [m EXCEPT !.result = Front(@)].handlers = m.handlers
         /\ Last(m.result) \in Result(Len(m.clos))
         /\ Depth(m) > 0 => Last(m.result).wait.reg <= Count(m, Depth(m))
         /\ Depth(m) > 0 /\ Last(m.result).wait.tail => \A i \in 1 .. Len(m.handlers) : m.handlers[i] # Depth(m)
<1> DEFINE n == Len(m.clos)
           q == Front(m.result)
           w == [m EXCEPT !.result = q]
<1>1. m \in Machine(n) /\ n \in Nat /\ Sound(m) /\ GoneUpTo(m, Depth(m)) /\ Controlled(m)
  BY SoundMachine DEF Well
<1>2. m.result \in Seq(Result(n)) /\ Len(m.result) = 1
  <2>1. m.result \in Seq(Result(n)) /\ Len(m.result) \in Nat
    BY <1>1, Fields
  <2>2. Len(m.result) # 0
    BY <2>1, EmptySeq
  <2>3. Len(m.result) <= 1
    BY <1>1 DEF Controlled, ResultOK
  <2> DEFINE l == Len(m.result)
  <2>4. l \in Nat /\ l # 0 /\ l <= 1
    BY <2>1, <2>2, <2>3
  <2> HIDE DEF l
  <2>5. l = 1
    BY <2>4
  <2> QED BY <2>1, <2>5 DEF l
<1>3. Last(m.result) = m.result[1] /\ m.result[1] \in Result(n)
  BY <1>2, SeqFacts DEF Last
<1>4. q = <<>>
  <2>1. q = SubSeq(m.result, 1, 1 - 1)
    BY <1>2 DEF Front
  <2> QED BY <2>1, SubSeqEmpty
<1> HIDE DEF q
<1>5. /\ w \in Machine(n) /\ w.stack = m.stack /\ w.frames = m.frames /\ w.ups = m.ups /\ w.clos = m.clos /\ w.env = m.env
      /\ w.handlers = m.handlers /\ w.result = <<>>
  BY <1>1, <1>4, EmptySeq DEF Machine
<1> HIDE DEF w
<1>6. Depth(w) = Depth(m) /\ (\A k : Count(w, k) = Count(m, k)) /\ \A y : OnStack(w, y) = OnStack(m, y)
  BY <1>5 DEF Depth, Count, OnStack
<1>7. Controlled(w)
  <2>1. \A k \in 2 .. Depth(m) : ReturnsTo(w, k)
    BY <1>1, <1>5, <1>6 DEF Controlled, ReturnsTo
  <2>2. HandlersOK(w)
    BY <1>1, <1>5, <1>6 DEF Controlled, HandlersOK
  <2>3. ResultOK(w)
    <3>1. Len(w.result) = 0
      BY <1>5, EmptySeq
    <3> QED BY <3>1 DEF ResultOK
  <2> QED BY <1>1, <1>5, <1>6, <2>1, <2>2, <2>3 DEF Controlled
<1>8. Well(w)
  BY <1>1, <1>5, <1>6, <1>7, Bookkeeping DEF Well, n
<1>9. /\ Depth(m) > 0 => m.result[1].wait.reg <= Count(m, Depth(m))
      /\ Depth(m) > 0 /\ m.result[1].wait.tail => \A i \in 1 .. Len(m.handlers) : m.handlers[i] # Depth(m)
  BY <1>1, <1>2 DEF Controlled, ResultOK
<1> QED BY <1>3, <1>5, <1>6, <1>8, <1>9 DEF w, q

\* What the running closure captured.
LEMMA UpvaluesKnown ==
  ASSUME Sound(cm), Depth(cm) > 0, NEW i \in DOMAIN Upvalues
  PROVE  Upvalues[i] \in 1 .. Opens(cm)
<1> DEFINE f == frame(cm)
           n == Len(cm.clos)
<1>1. /\ cm \in Machine(n) /\ n \in Nat /\ Closed(cm) /\ f = cm.frames[Depth(cm)] /\ Depth(cm) \in 1 .. Depth(cm)
      /\ \A k \in 1 .. n : cm.clos[k] \in Closure
  BY SoundMachine, TopFrame, Fields
<1>2. f.closure # 0
  BY DEF Upvalues
<1>3. f.closure \in 1 .. n
  BY <1>1, <1>2 DEF Closed
<1>4. Upvalues = cm.clos[f.closure].upvalues
  BY <1>2 DEF Upvalues
<1>5. Upvalues \in Seq(Nat)
  BY <1>1, <1>3, <1>4 DEF Closure
<1>6. i \in 1 .. Len(Upvalues)
  BY <1>5, SeqFacts
<1> QED BY <1>1, <1>3, <1>4, <1>6 DEF Closed

\* What an upvalue holds.
LEMMA UpvalueValue ==
  ASSUME NEW m, Sound(m), NEW u \in 1 .. Opens(m)
  PROVE  upval_value(m, u) \in Value(Len(m.clos))
<1> DEFINE n == Len(m.clos)
<1>1. m \in Machine(n) /\ n \in Nat /\ m.stack \in [0 .. stack_cap - 1 -> Value(n)]
  BY SoundMachine, Fields
<1>2. m.ups[u].slot >= 0 => m.ups[u].slot \in 0 .. stack_cap - 1
  BY OpenFacts DEF Slot
<1>3. m.ups[u].closed \in Value(n)
  BY <1>1, Observed DEF Shut
<1> QED BY <1>1, <1>2, <1>3 DEF upval_value

\* Callees, Arguments and Targets are what a call may be made with.
LEMMA CalleesAre ==
  ASSUME Sound(cm), Depth(cm) > 0, NEW callee \in Callees
  PROVE  Callee(Len(cm.clos), callee)
<1> DEFINE n == Len(cm.clos)
<1>1. /\ cm \in Machine(n) /\ n \in Nat /\ cm.stack \in [0 .. stack_cap - 1 -> Value(n)] /\ DOMAIN cm.clos = 1 .. n
  BY SoundMachine, Fields
<1>2. /\ frame(cm).base = Base(cm, Depth(cm)) /\ nvars(chunk) = Count(cm, Depth(cm))
      /\ Base(cm, Depth(cm)) \in Nat /\ Count(cm, Depth(cm)) \in Nat /\ MaxArgs \in Nat /\ stack_cap \in Nat
      /\ Base(cm, Depth(cm)) + Count(cm, Depth(cm)) + 1 + MaxArgs <= stack_cap
  <2>1. /\ frame(cm).base = Base(cm, Depth(cm)) /\ nvars(chunk) = Count(cm, Depth(cm))
        /\ Base(cm, Depth(cm)) \in Nat /\ Count(cm, Depth(cm)) \in Nat /\ MaxArgs \in Nat /\ stack_cap \in Nat
        /\ ArgBase(cm) = Base(cm, Depth(cm)) + Count(cm, Depth(cm)) + 1
        /\ NextBase(cm) = ArgBase(cm) + MaxArgs /\ NextBase(cm) <= stack_cap
    BY ArgFacts DEF chunk
  <2> QED BY <2>1
<1>3. CASE \E r \in Variables : callee = cm.stack[frame(cm).base + r]
  <2>1. PICK r \in Variables : callee = cm.stack[frame(cm).base + r]
    BY <1>3
  <2>2. r \in 0 .. Count(cm, Depth(cm)) - 1
    BY <1>2, <2>1 DEF Variables
  <2> DEFINE x == frame(cm).base + r
  <2>3. x \in 0 .. stack_cap - 1
    BY <1>2, <2>2
  <2> HIDE DEF x
  <2>4. cm.stack[x] \in Value(n)
    BY <1>1, <2>3
  <2> QED BY <2>1, <2>4 DEF Callee, x
<1>4. CASE \E i \in DOMAIN Upvalues : callee = upval_value(cm, Upvalues[i])
  BY <1>4, UpvaluesKnown, UpvalueValue DEF Callee
<1>5. CASE \E k \in DOMAIN cm.clos : callee = v_closure(k)
  <2>1. callee \in Item(n)
    BY <1>1, <1>5 DEF Item
  <2> QED BY <2>1 DEF Callee, Value
<1>6. CASE callee \in {bi_first, bi_call}
  BY <1>6 DEF Callee
<1>7. CASE \E k \in 2 .. n : callee = v_case_closure(<<1, k>>)
  BY <1>7 DEF Callee
<1> QED BY <1>3, <1>4, <1>5, <1>6, <1>7 DEF Callees

LEMMA ArgumentsAre ==
  ASSUME Sound(cm), NEW args \in Arguments
  PROVE  args \in Seq(Item(Len(cm.clos))) /\ Len(args) <= MaxArgs
<1> DEFINE n == Len(cm.clos)
           ints(k) == [i \in 1 .. k |-> number(i)]
<1>1. cm \in Machine(n) /\ n \in Nat /\ DOMAIN cm.clos = 1 .. n /\ MaxArgs \in Nat
  BY SoundMachine, Fields, BoundsAssumption
<1>2. PICK k \in 0 .. MaxArgs :
        args \in {ints(k)} \cup (IF k = 0 THEN {} ELSE {[ints(k) EXCEPT ![1] = v_closure(c)] : c \in DOMAIN cm.clos})
  BY DEF Arguments
<1>3. k \in Nat /\ k <= MaxArgs
  BY <1>1, <1>2
<1> HIDE DEF n
<1>4. \A i \in 1 .. k : number(i) \in Item(n)
  BY <1>3 DEF Item
<1> DEFINE q == ints(k)
<1>5. DOMAIN q = 1 .. k /\ q = [i \in 1 .. k |-> q[i]] /\ \A i \in 1 .. k : q[i] \in Item(n)
  BY <1>4
<1> HIDE DEF q
<1>6. q \in Seq(Item(n)) /\ Len(q) = k
  BY <1>3, <1>5, FunctionIsSeq
<1>7. CASE args = q
  BY <1>3, <1>6, <1>7 DEF n
<1>8. CASE k # 0 /\ \E c \in DOMAIN cm.clos : args = [q EXCEPT ![1] = v_closure(c)]
  <2>1. PICK c \in 1 .. n : args = [q EXCEPT ![1] = v_closure(c)]
    BY <1>1, <1>8 DEF n
  <2> DEFINE v == v_closure(c)
  <2>2. v \in Item(n) /\ 1 \in 1 .. Len(q)
    BY <1>3, <1>6, <1>8, <2>1 DEF Item
  <2> HIDE DEF v
  <2>3. args \in Seq(Item(n)) /\ Len(args) = Len(q)
    BY <1>6, <2>1, <2>2, ExceptSeq DEF v
  <2> QED BY <1>3, <1>6, <2>3 DEF n
<1>9. args = q \/ (k # 0 /\ \E c \in DOMAIN cm.clos : args = [q EXCEPT ![1] = v_closure(c)])
  BY <1>2 DEF q
<1> QED BY <1>7, <1>8, <1>9

\* A machine that runs.
LEMMA Running ==
  ASSUME CallsInv, Runs
  PROVE  Well(cm) /\ Sound(cm) /\ Depth(cm) > 0 /\ cm.result = <<>>
<1>1. Sound(cm) /\ ~ cm.exited
  BY DEF CallsInv, Kept, Runs
<1>2. Well(cm)
  BY <1>1 DEF CallsInv, Kept, Well
<1>3. Depth(cm) \in Nat /\ Depth(cm) # 0
  BY <1>1, SoundMachine, Observed, Fields, EmptySeq DEF Runs, Depth
<1> QED BY <1>1, <1>2, <1>3 DEF Runs

LEMMA MinusOne ==
  ASSUME NEW n \in Nat
  PROVE  number(-1) \in Value(n)
<1>1. number(-1) \in Item(n)
  BY DEF Item
<1> QED BY <1>1 DEF Value

LEMMA TargetsAre ==
  ASSUME Sound(cm), Depth(cm) > 0, NEW reg \in Targets
  PROVE  reg \in Nat /\ reg <= Count(cm, Depth(cm))
<1>1. nvars(chunk) = Count(cm, Depth(cm)) /\ Count(cm, Depth(cm)) \in Nat
  BY ArgFacts DEF chunk
<1> QED BY <1>1 DEF Targets

\* The invariant holds at first and every action keeps it.
LEMMA InitHolds == CallsInit => CallsInv
<1> SUFFICES ASSUME CallsInit PROVE CallsInv
  OBVIOUS
<1> DEFINE f == [chunk |-> "main", base |-> 0, closure |-> 0, return_reg |-> 0, opened |-> <<>>,
                 vars |-> <<>>, reentrant |-> TRUE, wait |-> NoWait]
           stack == [r \in 0 .. (stack_cap - 1) |-> <<2>>]
           frames == <<f>>
<1>1. /\ "main" \in DOMAIN Code /\ nvars("main") = 0 /\ num_registers("main") <= stack_cap
  BY CodeAssumption
<1>2. f \in FrameRecord /\ f.chunk = "main" /\ f.closure = 0 /\ f.reentrant /\ f.opened = <<>> /\ f.vars = <<>> /\ f.base = 0
  <2>1. NoWait \in Wait
    BY DEF NoWait, Wait
  <2>2. <<>> \in Seq(Nat)
    BY EmptySeq
  <2> QED BY <1>1, <2>1, <2>2 DEF FrameRecord
<1>3. stack \in [0 .. stack_cap - 1 -> Value(0)]
  <2>1. <<>> \in Seq(Item(0))
    BY EmptySeq
  <2>2. v_list(<<>>) = <<2>>
    BY DEF v_list
  <2>3. <<2>> \in Value(0)
    BY <2>1, <2>2 DEF Value
  <2> QED BY <2>3
<1> HIDE DEF f
<1>4. frames \in Seq(FrameRecord) /\ Len(frames) = 1 /\ frames[1] = f
  BY <1>2
<1>5. cm = [stack |-> stack, frames |-> frames, ups |-> <<>>, clos |-> <<>>, handlers |-> <<>>, result |-> <<>>,
            env |-> <<>>, exited |-> FALSE, ncalls |-> 0, nsets |-> 0]
  BY DEF CallsInit, f
<1> HIDE DEF stack, frames
<1>6. /\ cm.frames = frames /\ cm.ups = <<>> /\ cm.clos = <<>> /\ cm.handlers = <<>> /\ cm.result = <<>> /\ cm.env = <<>>
  BY <1>5
<1>7. Len(cm.clos) = 0 /\ Len(cm.handlers) = 0 /\ Len(cm.result) = 0 /\ Opens(cm) = 0 /\ Known(cm) = 0 /\ Depth(cm) = 1
  BY <1>4, <1>6, EmptySeq DEF Opens, Known, Depth
<1>8. cm \in Machine(0)
  <2>1. \A T : <<>> \in Seq(T)
    BY EmptySeq
  <2> QED BY <1>3, <1>4, <1>5, <2>1 DEF Machine
<1>9. Base(cm, 1) = 0 /\ Count(cm, 1) = 0 /\ End(cm, 1) <= stack_cap
  <2>1. End(cm, 1) = 0 + num_registers("main")
    BY <1>2, <1>4, <1>6 DEF End
  <2>2. num_registers("main") \in Nat
    BY <1>1, Sizes
  <2> QED BY <1>1, <1>2, <1>4, <1>6, <2>1, <2>2 DEF Base, Count
<1>10. \A k \in 1 .. Depth(cm) : k = 1
  BY <1>7
<1>11. Layout(cm)
  <2>1. \A k \in 2 .. Depth(cm) : FALSE
    BY <1>7
  <2> QED BY <1>9, <1>10, <2>1 DEF Layout
<1>12. Variabled(cm)
  <2>1. Len(cm.frames[1].vars) = 0
    BY <1>2, <1>4, <1>6, EmptySeq
  <2> QED BY <1>9, <1>10, <2>1 DEF Variabled
<1>13. Upvalued(cm)
  <2>1. \A u : ~ OpenOn(cm, 1, u)
    BY <1>2, <1>4, <1>6, EmptySeq DEF OpenOn
  <2> QED BY <1>7, <1>10, <2>1 DEF Upvalued
<1>14. Closed(cm)
  BY <1>2, <1>4, <1>6, <1>7, <1>10 DEF Closed
<1>15. Controlled(cm)
  <2>1. \A k \in 2 .. Depth(cm) : FALSE
    BY <1>7
  <2> QED BY <1>2, <1>4, <1>6, <1>7, <2>1 DEF Controlled, HandlersOK, ResultOK
<1>16. GoneUpTo(cm, Depth(cm))
  BY <1>7 DEF GoneUpTo
<1> QED BY <1>7, <1>8, <1>11, <1>12, <1>13, <1>14, <1>15, <1>16 DEF Sound, Kept, CallsInv

LEMMA CallStep == CallsInv /\ Call => CallsInv'
<1> SUFFICES ASSUME CallsInv, Call PROVE Kept(cm')
  BY DEF CallsInv
<1>1. Well(cm) /\ Sound(cm) /\ Depth(cm) > 0 /\ cm.result = <<>>
  BY Running DEF Call
<1>2. PICK callee \in Callees, args \in Arguments, reg \in Targets :
        cm' = dispatch_call(LoadArgs(cm, args), callee, args, reg, FALSE)
  BY DEF Call
<1> DEFINE w == LoadArgs(cm, args)
<1>3. args \in Seq(Item(Len(cm.clos))) /\ Len(args) <= MaxArgs
  BY <1>1, ArgumentsAre
<1>4. Ready(w, args) /\ Depth(w) = Depth(cm) /\ w.frames = cm.frames /\ w.clos = cm.clos
  BY <1>1, <1>3, LoadKeeps
<1>5. Callee(Len(w.clos), callee)
  BY <1>1, <1>4, CalleesAre
<1>6. reg \in Nat /\ reg <= Count(w, Depth(w))
  BY <1>1, <1>4, TargetsAre DEF Count
<1> HIDE DEF w
<1>7. Kept(dispatch_call(w, callee, args, reg, FALSE))
  BY <1>4, <1>5, <1>6, DispatchKeeps
<1> QED BY <1>2, <1>7 DEF w

LEMMA TailCallStep == CallsInv /\ TailCall => CallsInv'
<1> SUFFICES ASSUME CallsInv, TailCall PROVE Kept(cm')
  BY DEF CallsInv
<1>1. Well(cm) /\ Sound(cm) /\ Depth(cm) > 0 /\ cm.result = <<>>
  BY Running DEF TailCall
<1>2. PICK callee \in Callees, args \in Arguments :
        cm' = dispatch_call(LoadArgs(cm, args), callee, args, 0, TRUE)
  BY DEF TailCall
<1> DEFINE w == LoadArgs(cm, args)
<1>3. args \in Seq(Item(Len(cm.clos))) /\ Len(args) <= MaxArgs
  BY <1>1, ArgumentsAre
<1>4. Ready(w, args) /\ Depth(w) = Depth(cm) /\ w.frames = cm.frames /\ w.clos = cm.clos /\ w.handlers = cm.handlers
  BY <1>1, <1>3, LoadKeeps
<1>5. Callee(Len(w.clos), callee)
  BY <1>1, <1>4, CalleesAre
<1>6. 0 <= Count(w, Depth(w))
  <2>1. Count(cm, Depth(cm)) \in Nat
    BY <1>1, ArgFacts
  <2> QED BY <1>4, <2>1 DEF Count
<1>7. \A i \in 1 .. Len(w.handlers) : w.handlers[i] # Depth(w)
  BY <1>1, <1>4, Unguarded DEF TailCall, Guarded
<1> HIDE DEF w
<1>8. Kept(dispatch_call(w, callee, args, 0, TRUE))
  BY <1>4, <1>5, <1>6, <1>7, DispatchKeeps
<1> QED BY <1>2, <1>8 DEF w

LEMMA LoadChunkStep == CallsInv /\ LoadChunk => CallsInv'
<1> SUFFICES ASSUME CallsInv, LoadChunk PROVE Kept(cm')
  BY DEF CallsInv
<1>1. Well(cm) /\ Sound(cm) /\ Depth(cm) > 0 /\ cm.result = <<>>
  BY Running DEF LoadChunk
<1> DEFINE w == [cm EXCEPT !.ncalls = @ + 1]
           wait == [reg |-> nvars(chunk), tail |-> FALSE]
<1>2. cm' = creme_run_loaded_chunk(w, wait)
  BY DEF LoadChunk
<1>3. Well(w) /\ w.frames = cm.frames /\ w.result = <<>>
  BY <1>1, CountKeeps
<1>4. nvars(chunk) = Count(cm, Depth(cm)) /\ Count(cm, Depth(cm)) \in Nat
  BY <1>1, ArgFacts DEF chunk
<1>5. wait \in Wait /\ wait.reg = Count(cm, Depth(cm)) /\ ~ wait.tail
  BY <1>4 DEF Wait
<1> HIDE DEF w, wait
<1>6. Depth(w) = Depth(cm) /\ Count(w, Depth(w)) = Count(cm, Depth(cm))
  BY <1>3 DEF Depth, Count
<1>7. Waits(w, 0, TRUE, wait)
  BY <1>4, <1>5, <1>6 DEF Waits
<1> QED BY <1>1, <1>2, <1>3, <1>5, <1>6, <1>7, RunChunkKeeps

LEMMA RetStep == CallsInv /\ Ret => CallsInv'
<1> SUFFICES ASSUME CallsInv, Ret PROVE Kept(cm')
  BY DEF CallsInv
<1>1. Well(cm) /\ Sound(cm) /\ Depth(cm) > 0 /\ cm.result = <<>>
  BY Running DEF Ret
<1> DEFINE n == Len(cm.clos)
           x == frame(cm).base
<1>2. cm' = deliver_return(cm, cm.stack[x])
  BY DEF Ret
<1>3. cm.stack \in [0 .. stack_cap - 1 -> Value(n)]
  BY <1>1, SoundMachine, Fields
<1>4. x \in 0 .. stack_cap - 1
  <2>1. /\ x = Base(cm, Depth(cm)) /\ Base(cm, Depth(cm)) \in Nat /\ Count(cm, Depth(cm)) \in Nat
        /\ ArgBase(cm) = Base(cm, Depth(cm)) + Count(cm, Depth(cm)) + 1 /\ MaxArgs \in Nat /\ stack_cap \in Nat
        /\ NextBase(cm) = ArgBase(cm) + MaxArgs /\ NextBase(cm) <= stack_cap
    BY <1>1, ArgFacts
  <2> QED BY <2>1
<1>5. \A i \in 1 .. Len(cm.handlers) : cm.handlers[i] # Depth(cm)
  BY <1>1, Unguarded DEF Ret, Guarded
<1>6. cm.stack[x] \in Value(n)
  BY <1>3, <1>4
<1>7. Well(deliver_return(cm, cm.stack[x]))
  BY <1>1, <1>5, <1>6, ReturnKeeps
<1> QED BY <1>2, <1>7 DEF Kept, Well

LEMMA BuiltinStep == CallsInv /\ BuiltinReturns => CallsInv'
<1> SUFFICES ASSUME CallsInv, BuiltinReturns PROVE Kept(cm')
  BY DEF CallsInv
<1>1. Sound(cm) /\ Well(cm) /\ cm.result # <<>> /\ cm.frames # <<>>
  BY DEF CallsInv, Kept, Well, BuiltinReturns
<1>2. Depth(cm) > 0
  <2>1. Depth(cm) \in Nat /\ Depth(cm) # 0
    BY <1>1, SoundMachine, Observed, Fields, EmptySeq DEF Depth
  <2> QED BY <2>1
<1> DEFINE x == Last(cm.result)
           m == [cm EXCEPT !.result = Front(@)]
           n == Len(cm.clos)
<1>3. /\ Well(m) /\ Depth(m) = Depth(cm) /\ m.result = <<>> /\ m.clos = cm.clos /\ m.frames = cm.frames
      /\ m.handlers = cm.handlers /\ x \in Result(n)
      /\ x.wait.reg <= Count(cm, Depth(cm))
      /\ x.wait.tail => \A i \in 1 .. Len(cm.handlers) : cm.handlers[i] # Depth(cm)
  BY <1>1, <1>2, TakeResult
<1>4. cm' = IF x.wait.tail THEN deliver_return(m, x.value) ELSE Store(m, x.wait.reg, x.value)
  BY DEF BuiltinReturns
<1> HIDE DEF x, m
<1>5. x.value \in Value(Len(m.clos)) /\ x.wait.reg \in Nat /\ x.wait.reg <= Count(m, Depth(m)) /\ x.wait.tail \in BOOLEAN
  BY <1>3 DEF Result, Wait, Count
<1> DEFINE v == x.value
           reg == x.wait.reg
<1>6. v \in Value(Len(m.clos)) /\ reg \in Nat /\ reg <= Count(m, Depth(m))
  BY <1>5
<1>7. cm' = IF x.wait.tail THEN deliver_return(m, v) ELSE Store(m, reg, v)
  BY <1>4
<1> HIDE DEF v, reg
<1>8. CASE x.wait.tail
  <2>1. Well(deliver_return(m, v))
    BY <1>2, <1>3, <1>6, <1>8, ReturnKeeps
  <2> QED BY <1>7, <1>8, <2>1 DEF Kept, Well
<1>9. CASE ~ x.wait.tail
  <2>1. Well(Store(m, reg, v))
    BY <1>2, <1>3, <1>6, StoreKeeps
  <2> QED BY <1>7, <1>9, <2>1 DEF Kept, Well
<1> QED BY <1>8, <1>9

LEMMA ClosureStep == CallsInv /\ OP_CLOSURE => CallsInv'
<1> SUFFICES ASSUME CallsInv, OP_CLOSURE PROVE Kept(cm')
  BY DEF CallsInv
<1>1. Well(cm) /\ Sound(cm) /\ Depth(cm) > 0 /\ cm.result = <<>>
  BY Running DEF OP_CLOSURE
<1>2. PICK p \in Range(Code[frame(cm).chunk].protos), reg \in Targets :
        cm' = Store(make_closure(cm, p), reg, v_closure(Len(cm.clos) + 1))
  BY DEF OP_CLOSURE, chunk
<1> DEFINE w == make_closure(cm, p)
           n == Len(cm.clos) + 1
           v == v_closure(n)
<1>3. Captured(cm, w, Cardinality(Own(p)))
  BY <1>1, MakeKeeps
<1> HIDE DEF w
<1>4. Well(w)
  BY <1>1, <1>3, CaptureKeeps
<1>5. Depth(w) = Depth(cm) /\ Len(w.clos) = n /\ SameButOpened(cm.frames[Depth(cm)], w.frames[Depth(cm)])
  <2>1. Depth(cm) \in 1 .. Depth(cm)
    BY <1>1, TopFrame
  <2> QED BY <1>3, <2>1 DEF Captured
<1>6. reg \in Nat /\ reg <= Count(w, Depth(w))
  BY <1>1, <1>5, TargetsAre DEF Count, SameButOpened
<1>7. v \in Value(Len(w.clos))
  <2>1. n \in 1 .. n
    BY <1>1, SoundMachine
  <2> HIDE DEF n
  <2>2. v \in Item(n)
    BY <2>1 DEF Item
  <2> QED BY <1>5, <2>2 DEF Value
<1> HIDE DEF v
<1>8. Well(Store(w, reg, v))
  BY <1>1, <1>4, <1>5, <1>6, <1>7, StoreKeeps
<1> QED BY <1>2, <1>8 DEF Kept, Well, w, v

LEMMA AssignStep == CallsInv /\ AssignLocal => CallsInv'
<1> SUFFICES ASSUME CallsInv, AssignLocal PROVE Kept(cm')
  BY DEF CallsInv
<1>1. Well(cm) /\ Sound(cm) /\ Depth(cm) > 0 /\ Len(cm.clos) \in Nat
  BY Running, SoundMachine DEF AssignLocal, Assigning
<1> DEFINE v == number(-1)
<1>2. PICK r \in Variables : cm' = [Store(cm, r, v) EXCEPT !.nsets = @ + 1]
  BY DEF AssignLocal
<1>3. r \in Nat /\ r <= Count(cm, Depth(cm))
  <2>1. nvars(chunk) = Count(cm, Depth(cm)) /\ Count(cm, Depth(cm)) \in Nat
    BY <1>1, ArgFacts DEF chunk
  <2> QED BY <2>1 DEF Variables
<1>4. v \in Value(Len(cm.clos))
  BY <1>1, MinusOne
<1> HIDE DEF v
<1>5. Well(Store(cm, r, v))
  BY <1>1, <1>3, <1>4, StoreKeeps
<1>6. Well([Store(cm, r, v) EXCEPT !.nsets = @ + 1])
  BY <1>5, CountKeeps
<1> QED BY <1>2, <1>6 DEF Kept, Well

LEMMA SetUpStep == CallsInv /\ OP_SETUPVAL => CallsInv'
<1> SUFFICES ASSUME CallsInv, OP_SETUPVAL PROVE Kept(cm')
  BY DEF CallsInv
<1>1. Well(cm) /\ Sound(cm) /\ Depth(cm) > 0 /\ Len(cm.clos) \in Nat
  BY Running, SoundMachine DEF OP_SETUPVAL, Assigning
<1>2. PICK i \in DOMAIN Upvalues :
        LET u == Upvalues[i]
            x == cm.ups[u].var
            v == number(-1)
        IN /\ SharedSetters \/ Alone(u) \/ cm.ups[u].slot >= 0
           /\ cm' = [cm EXCEPT !.ups[u].closed = IF cm.ups[u].slot >= 0 THEN @ ELSE v,
                               !.stack = IF cm.ups[u].slot >= 0 THEN [@ EXCEPT ![cm.ups[u].slot] = v] ELSE @,
                               !.env[x] = v, !.nsets = @ + 1]
  BY DEF OP_SETUPVAL
<1> DEFINE u == Upvalues[i]
           v == number(-1)
<1>3. u \in 1 .. Opens(cm) /\ v \in Value(Len(cm.clos))
  BY <1>1, UpvaluesKnown, MinusOne
<1>4. SharedSetters \/ Alone(u) \/ Slot(cm, u) >= 0
  BY <1>2 DEF Slot
<1>5. cm' = SetUp(cm, u, v)
  BY <1>2 DEF SetUp
<1> HIDE DEF u, v
<1>6. Slot(cm, u) >= 0 \/ SharedSetters \/ \A y \in 1 .. Opens(cm) : Name(cm, y) = Name(cm, u) => y = u
  <2>1. DOMAIN cm.ups = 1 .. Opens(cm)
    BY <1>1, SoundMachine, Fields DEF Opens
  <2> QED BY <1>4, <2>1 DEF Alone, Name
<1>7. Well(SetUp(cm, u, v))
  BY <1>1, <1>3, <1>6, SetUpKeeps
<1> QED BY <1>5, <1>7 DEF Kept, Well

LEMMA GuardSteps == CallsInv /\ (InstallGuard \/ RemoveGuard \/ Fails) => CallsInv'
<1> SUFFICES ASSUME CallsInv, InstallGuard \/ RemoveGuard \/ Fails PROVE Kept(cm')
  BY DEF CallsInv
<1>1. Well(cm) /\ Sound(cm) /\ Depth(cm) > 0 /\ cm.result = <<>>
  BY Running DEF InstallGuard, RemoveGuard, Fails
<1>2. CASE InstallGuard
  <2>1. Well([cm EXCEPT !.handlers = Append(@, Len(cm.frames))])
    BY <1>1, InstallKeeps
  <2> QED BY <1>2, <2>1 DEF InstallGuard, Kept, Well
<1>3. CASE RemoveGuard
  <2>1. cm.handlers # <<>> /\ cm' = [cm EXCEPT !.handlers = Front(@)]
    BY <1>3 DEF RemoveGuard, Guarded
  <2>2. GoneUpTo(cm, Depth(cm))
    BY <1>1 DEF Well
  <2> QED BY <1>1, <2>1, <2>2, DropHandler DEF Kept
<1>4. CASE Fails
  BY <1>1, <1>4, WellAborts DEF Fails
<1> QED BY <1>2, <1>3, <1>4

\* CallsInv holds in every state.
LEMMA CallsInductive == CallsSpec => []CallsInv
<1>1. CallsInit => CallsInv
  BY InitHolds
<1>2. CallsInv /\ [CallsNext]_callVars => CallsInv'
  <2>1. CallsInv /\ UNCHANGED callVars => CallsInv'
    BY DEF CallsInv, callVars
  <2>2. CallsInv /\ CallsNext => CallsInv'
    BY CallStep, TailCallStep, LoadChunkStep, RetStep, BuiltinStep, ClosureStep, AssignStep, SetUpStep, GuardSteps
       DEF CallsNext
  <2> QED BY <2>1, <2>2
<1> QED BY <1>1, <1>2, PTL DEF CallsSpec

\* The invariant implies the properties.
LEMMA InvWindows == CallsInv => WindowsApart
<1> SUFFICES ASSUME CallsInv PROVE WindowsApart
  OBVIOUS
<1> DEFINE m == cm
           n == Len(cm.clos)
           frames == cm.frames
<1>1. /\ Sound(m) /\ m \in Machine(n) /\ n \in Nat /\ Layout(m) /\ Variabled(m) /\ Upvalued(m)
  BY SoundMachine DEF CallsInv, Kept
<1>2. DOMAIN m.frames = 1 .. Depth(m) /\ DOMAIN m.ups = 1 .. Opens(m) /\ Depth(m) \in Nat
  BY <1>1, Fields DEF Depth, Opens
<1>3. /\ stack_cap \in Nat /\ MaxArgs \in Nat
      /\ \A k \in 1 .. Depth(m) : /\ Base(m, k) \in Nat /\ Count(m, k) \in Nat
                                  /\ End(m, k) = Base(m, k) + Count(m, k) + 1 + MaxArgs
                                  /\ \A r : Reg(m, k, r) = Base(m, k) + r - 1
  BY <1>1, Observed
<1>4. ASSUME NEW k \in 1 .. Depth(m)
      PROVE  /\ Window(m.frames[k]) \subseteq 0 .. (stack_cap - 1)
             /\ k > 1 => m.frames[k].base = m.frames[k - 1].base + num_registers(m.frames[k - 1].chunk)
  <2>1. Window(m.frames[k]) = Base(m, k) .. (End(m, k) - 1)
    <3> DEFINE f == m.frames[k]
               a == f.base
               z == num_registers(f.chunk)
    <3>1. a = Base(m, k) /\ a + z = End(m, k)
      BY DEF Base, End
    <3>3. a \in Nat /\ z \in Nat
      <4>1. f \in FrameRecord
        BY <1>1, Fields DEF Depth
      <4> HIDE DEF f
      <4>2. f.chunk \in DOMAIN Code /\ f.base \in Nat
        BY <4>1, FrameFields
      <4> QED BY <4>2, Sizes
    <3>2. Window(f) = a .. (a + z - 1)
      BY DEF Window
    <3> HIDE DEF a, z, f
    <3>4. Window(f) = Base(m, k) .. (End(m, k) - 1)
      BY <3>1, <3>2, <3>3
    <3> QED BY <3>4 DEF f
  <2>2. End(m, k) <= stack_cap
    BY <1>1 DEF Layout
  <2>3. Window(m.frames[k]) \subseteq 0 .. (stack_cap - 1)
    BY <1>3, <2>1, <2>2
  <2>4. k > 1 => Base(m, k) = End(m, k - 1)
    <3>1. k > 1 => k \in 2 .. Depth(m)
      BY <1>2
    <3> QED BY <1>1, <3>1 DEF Layout
  <2> QED BY <2>3, <2>4 DEF Base, End
<1>5. ASSUME NEW u \in 1 .. Opens(m)
      PROVE  m.ups[u].slot >= 0 <=>
               \E k \in 1 .. Depth(m) :
                 /\ u \in Range(m.frames[k].opened)
                 /\ \E r \in 1 .. nvars(m.frames[k].chunk) :
                      m.ups[u].slot = m.frames[k].base + r - 1 /\ m.ups[u].var = m.frames[k].vars[r]
  <2>1. \A k \in 1 .. Depth(m) : u \in Range(m.frames[k].opened) <=> OpenOn(m, k, u)
    <3> SUFFICES ASSUME NEW k \in 1 .. Depth(m) PROVE u \in Range(m.frames[k].opened) <=> OpenOn(m, k, u)
      OBVIOUS
    <3>1. m.frames[k] \in FrameRecord
      BY <1>1, Fields DEF Depth
    <3>2. DOMAIN m.frames[k].opened = 1 .. Len(m.frames[k].opened)
      BY <3>1, FrameFields
    <3> QED BY <3>2 DEF Range, OpenOn
  <2>2. Slot(m, u) >= 0 =>
          \E k \in 1 .. Depth(m) :
            /\ OpenOn(m, k, u)
            /\ \E r \in 1 .. Count(m, k) : Slot(m, u) = Reg(m, k, r) /\ Name(m, u) = VarOf(m, k, r)
    BY <1>1, OpenFacts
  <2>3. \A k \in 1 .. Depth(m) : OpenOn(m, k, u) => Slot(m, u) >= 0
    BY <1>1, OpenFacts
  <2>4. Slot(m, u) >= 0 <=>
          \E k \in 1 .. Depth(m) :
            /\ u \in Range(m.frames[k].opened)
            /\ \E r \in 1 .. Count(m, k) : Slot(m, u) = Reg(m, k, r) /\ Name(m, u) = VarOf(m, k, r)
    BY <2>1, <2>2, <2>3
  <2> QED BY <2>4 DEF Slot, Name, Reg, VarOf, Count
<1> QED BY <1>2, <1>4, <1>5 DEF WindowsApart

LEMMA InvRegisters == CallsInv => RegistersAreVariables
<1> SUFFICES ASSUME CallsInv PROVE RegistersAreVariables
  OBVIOUS
<1>1. Sound(cm) /\ Variabled(cm) /\ cm \in Machine(Len(cm.clos)) /\ Len(cm.clos) \in Nat
  BY SoundMachine DEF CallsInv, Kept
<1>2. DOMAIN cm.frames = 1 .. Depth(cm)
  BY <1>1, Fields DEF Depth
<1>3. \A k \in 1 .. Depth(cm) : \A r \in 1 .. Count(cm, k) : OnStack(cm, Reg(cm, k, r)) = InEnv(cm, VarOf(cm, k, r))
  BY <1>1 DEF Variabled
<1> QED BY <1>2, <1>3 DEF RegistersAreVariables, Count, OnStack, Reg, InEnv, VarOf

LEMMA InvUpvalues == CallsInv /\ ~ SharedSetters => UpvaluesAreVariables
<1> SUFFICES ASSUME CallsInv, ~ SharedSetters PROVE UpvaluesAreVariables
  OBVIOUS
<1>1. Sound(cm) /\ Upvalued(cm) /\ cm \in Machine(Len(cm.clos)) /\ Len(cm.clos) \in Nat
  BY SoundMachine DEF CallsInv, Kept
<1>2. DOMAIN cm.ups = 1 .. Opens(cm)
  BY <1>1, Fields DEF Opens
<1>3. ASSUME NEW u \in 1 .. Opens(cm)
      PROVE  upval_value(cm, u) = cm.env[cm.ups[u].var]
  <2>1. upval_value(cm, u) = IF Slot(cm, u) >= 0 THEN OnStack(cm, Slot(cm, u)) ELSE Shut(cm, u)
    BY DEF upval_value, Slot, OnStack, Shut
  <2>2. cm.env[cm.ups[u].var] = InEnv(cm, Name(cm, u))
    BY DEF InEnv, Name
  <2>3. Slot(cm, u) \in Int
    BY <1>1, Observed
  <2>4. CASE Slot(cm, u) >= 0
    <3>1. PICK k \in 1 .. Depth(cm) : OpenOn(cm, k, u)
      BY <1>1, <2>4, OpenFacts
    <3>2. OnStack(cm, Slot(cm, u)) = InEnv(cm, Name(cm, u))
      BY <1>1, <3>1, OpenFacts
    <3> QED BY <2>1, <2>2, <2>4, <3>2
  <2>5. CASE ~ (Slot(cm, u) >= 0)
    <3>1. Slot(cm, u) < 0
      BY <2>3, <2>5
    <3>2. Shut(cm, u) = InEnv(cm, Name(cm, u))
      BY <1>1, <3>1 DEF Upvalued
    <3> QED BY <2>1, <2>2, <2>5, <3>2
  <2> QED BY <2>4, <2>5
<1> QED BY <1>2, <1>3 DEF UpvaluesAreVariables

\* The windows of the frames lie apart on the stack, an upvalue is open exactly
\* while its frame has it on its list, and every activation's registers hold
\* its variables, whatever is called, returned from, captured, assigned or
\* aborted (make_closure, close_upvalues, dispatch_call, creme_apply and
\* creme_abort), with any code and any bounds.
THEOREM WindowsHoldVariables == CallsSpec => [](WindowsApart /\ RegistersAreVariables)
<1>1. CallsInv => WindowsApart /\ RegistersAreVariables
  BY InvWindows, InvRegisters
<1> QED BY <1>1, CallsInductive, PTL

\* Besides, a closed upvalue holds the value of its variable, if a variable
\* that several upvalues stand for is not assigned once it has left the stack
\* (SharedSetters is FALSE): make_closure gives each closure an upvalue of its
\* own, and OP_SETUPVAL changes one of them.
THEOREM VariablesAreKept == ASSUME ~ SharedSetters PROVE CallsSpec => []VariablesKept
<1>1. CallsInv => VariablesKept
  BY InvWindows, InvRegisters, InvUpvalues DEF VariablesKept
<1> QED BY <1>1, CallsInductive, PTL
==============================================================================
