---------------------------- MODULE ControlProofs ----------------------------
(***************************************************************************)
(* For arrays of any size, and any mixture of guards, raises, handlers,    *)
(* parameterize, dynamic-wind and escapes by a program with none of the    *)
(* habits of Control: whenever nothing is being unwound, the arrays of the *)
(* VM mirror the extents that the program is inside of (ControlMirrored).  *)
(*                                                                         *)
(* The argument: each entry of vm.c recorded, when it was entered, how     *)
(* full the arrays were.  The invariant relates these moments to one       *)
(* another and to the present.  What changes the machine enters something, *)
(* leaves it, jumps to a guard, or takes an action off the unwind stack;   *)
(* there is a lemma that the invariant is kept for each of these, and the  *)
(* operators of Control are instances and compositions of them.            *)
(***************************************************************************)
EXTENDS Control, SublistProofs

-----------------------------------------------------------------------------
(* The invariant.  A position of vm.c stands for the moment at which what  *)
(* is there was entered: the entry recorded how full the arrays were.      *)
(* Here(v), one past the end, stands for the present.                      *)

Kind == {"run", "guard", "param", "tests", "callcc", "wind", "weh", "raise", "escape"}
Phase == {"", "before", "thunk", "after", "raise", "continuable"}

Activation ==
  [kind : Kind, id : Nat, phase : Phase, ref : Nat, want : Nat,
   depth : Nat, mark : Nat, excs : 0 .. CREME_EXC_HANDLERS_CAP, guards : Nat]

UnwindAction == [what : {"param", "weh", "wind"}, id : Nat, saved : Nat]

Handler == [id : Nat, depth : Nat, mark : Nat]

ControlVM ==
  [c : Seq(Activation), depth : Nat, n : 0 .. MaxEntries,
   handlers : [1 .. CREME_HANDLERS_CAP -> Handler], nh : Nat,
   exc : [1 .. CREME_EXC_HANDLERS_CAP -> Nat], nexc : 0 .. CREME_EXC_HANDLERS_CAP,
   unwind : Seq(UnwindAction), param : Nat, pending : Nat,
   after : [1 .. MaxEntries -> Nat], bad : BOOLEAN, exited : BOOLEAN]

Here(v) == Len(v.c) + 1

MarkAt(v, j)   == IF j <= Len(v.c) THEN v.c[j].mark ELSE Len(v.unwind)
ExcsAt(v, j)   == IF j <= Len(v.c) THEN v.c[j].excs ELSE v.nexc
DepthAt(v, j)  == IF j <= Len(v.c) THEN v.c[j].depth ELSE v.depth
GuardsAt(v, j) == IF j <= Len(v.c) THEN v.c[j].guards ELSE v.nh

One(b) == IF b THEN 1 ELSE 0

Drains(a) == a.kind = "escape" \/ Draining(a)
OfScheme(a) == a.kind \in {"run", "param", "tests"} \/ Installed(a)
HasNumber(a) == a.kind \in {"guard", "param", "callcc", "wind", "weh", "raise"}

\* Nothing was being unwound when p was entered.
Calm(v, p) == \A j \in 1 .. p - 1 : ~ Drains(v.c[j])

\* From i to p nothing that i is inside of was unwound, and there were
\* never fewer than x handlers.
Held(v, i, p) == \A j \in i .. p : MarkAt(v, j) >= MarkAt(v, i)
Kept(v, i, p, x) == \A j \in i .. p : MarkAt(v, j) >= MarkAt(v, i) /\ ExcsAt(v, j) >= x

InstalledBelow(v, p) == {j \in 1 .. p - 1 : Installed(v.c[j])}
UnwoundBelow(v, p) == {j \in 1 .. p - 1 : Unwound(v.c[j])}
RunsBelow(v, p) == {j \in 1 .. p - 1 : v.c[j].kind = "run"}
HandlingBelow(v, p) ==
  {j \in 1 .. p - 1 : /\ v.c[j].kind = "weh"
                      /\ \A i \in 1 .. p - 1 : ~ (v.c[i].kind = "raise" /\ v.c[i].ref = v.c[j].id)}
Rank(v, p, w) == Cardinality({j \in HandlingBelow(v, p) : j <= w})

\* Entering changes the arrays as its kind says.
Change(v, j) ==
  LET a == v.c[j] IN
  /\ GuardsAt(v, j + 1) = GuardsAt(v, j) + One(Installed(a))
  /\ ~ Drains(a) =>
       /\ MarkAt(v, j + 1) = MarkAt(v, j) + One(Unwound(a))
       /\ ExcsAt(v, j + 1) = ExcsAt(v, j) + One(a.kind = "weh") - One(a.kind = "raise")
       /\ DepthAt(v, j + 1) = DepthAt(v, j) + One(a.kind = "run")

ChangesOK(v) ==
  /\ MarkAt(v, 1) = 0 /\ ExcsAt(v, 1) = 0 /\ DepthAt(v, 1) = 0 /\ GuardsAt(v, 1) = 0
  /\ \A j \in 1 .. Len(v.c) : Change(v, j)

\* A guard's handler is in its slot, and nothing outside of an installed
\* guard is ever unwound.
GuardOK(v, g) ==
  LET a == v.c[g] IN
  a.kind = "guard" =>
    /\ a.guards + 1 <= CREME_HANDLERS_CAP
    /\ v.handlers[a.guards + 1] = [id |-> a.id, depth |-> a.depth, mark |-> a.mark]
    /\ Installed(a) =>
         \A j \in g + 1 .. Here(v) : MarkAt(v, j) >= a.mark /\ GuardsAt(v, j) >= a.guards + 1
    /\ Draining(a) => a.ref = a.guards + 1 /\ a.want = v.pending /\ MarkAt(v, g + 1) >= a.mark

GuardsOK(v) == \A g \in 1 .. Len(v.c) : GuardOK(v, g)

\* Every handler is that of a guard.
SlotUsed(v, p, s) == \E g \in 1 .. p - 1 : Installed(v.c[g]) /\ v.c[g].guards + 1 = s
UsedOK(v) == \A p \in 1 .. Here(v) : \A s \in 1 .. GuardsAt(v, p) : SlotUsed(v, p, s)

\* No guard is inside of one that is being unwound to or whose clause is
\* being chosen.
ClauseOK(v, j) ==
  /\ v.c[j].kind = "tests" => v.c[j].id = v.pending
  /\ v.c[j].kind = "tests" \/ Draining(v.c[j]) =>
       \A i \in j + 1 .. Len(v.c) : v.c[i].kind \notin {"guard", "tests"}

ClausesOK(v) == \A j \in 1 .. Len(v.c) : ClauseOK(v, j)

\* The arrays are as full as there are entries that use them.
CountOK(v, p) ==
  /\ GuardsAt(v, p) = Cardinality(InstalledBelow(v, p))
  /\ Calm(v, p) =>
       /\ MarkAt(v, p) = Cardinality(UnwoundBelow(v, p))
       /\ DepthAt(v, p) = Cardinality(RunsBelow(v, p))
       /\ ExcsAt(v, p) = Cardinality(HandlingBelow(v, p))

CountsOK(v) == \A p \in 1 .. Here(v) : CountOK(v, p)

\* The action of an entry stays in its place until it is unwound.
OwnerOK(v, j) ==
  Unwound(v.c[j]) /\ Held(v, j + 1, Here(v)) =>
    /\ MarkAt(v, j + 1) \in 1 .. Len(v.unwind)
    /\ v.unwind[MarkAt(v, j + 1)].what = v.c[j].kind
    /\ v.unwind[MarkAt(v, j + 1)].id = v.c[j].id

OwnersOK(v) == \A j \in 1 .. Len(v.c) : OwnerOK(v, j)

\* The actions of with-exception-handler that were pushed from i to p.
Wehs(v, i, p) == {k \in MarkAt(v, i) + 1 .. MarkAt(v, p) : v.unwind[k].what = "weh"}

\* Unwinding from p to i gives the handlers of i back.
FirstOK(v, i, p) ==
  Held(v, p, Here(v)) /\ Kept(v, i, p, ExcsAt(v, i)) =>
    /\ Wehs(v, i, p) = {} => ExcsAt(v, p) = ExcsAt(v, i)
    /\ \A k \in Wehs(v, i, p) :
         (\A m \in Wehs(v, i, p) : k <= m) => v.unwind[k].saved = ExcsAt(v, i)

FirstsOK(v) == \A p \in 1 .. Here(v) : \A i \in 1 .. p : FirstOK(v, i, p)

\* What it passes through on the way is no less than it was then.
SavedOK(v, i, p) ==
  Held(v, p, Here(v)) /\ Held(v, i, p) =>
    \A k \in Wehs(v, i, p) : \E j \in i .. p - 1 : ExcsAt(v, j) <= v.unwind[k].saved

SavedsOK(v) ==
  /\ \A p \in 1 .. Here(v) : \A i \in 1 .. p : SavedOK(v, i, p)
  /\ \A k \in 1 .. Len(v.unwind) : v.unwind[k].what = "weh" => v.unwind[k].saved <= CREME_EXC_HANDLERS_CAP

DipOK(v, e) ==
  Drains(v.c[e]) =>
    \A i \in 1 .. e : Held(v, i, e + 1) => \E j \in i .. e : ExcsAt(v, j) <= ExcsAt(v, e + 1)

DipsOK(v) == \A e \in 1 .. Len(v.c) : DipOK(v, e)

\* An escape leaves no guard, no handler, and nothing that is already left.
Leads(v, e, t) ==
  /\ v.c[t].kind = "callcc" /\ v.c[t].id = v.c[e].ref
  /\ Kept(v, t, e, ExcsAt(v, t)) /\ MarkAt(v, e + 1) >= MarkAt(v, t)
  /\ \A j \in t .. e : ~ Installed(v.c[j])

EscapeOK(v, e) == v.c[e].kind = "escape" => \E t \in 1 .. e - 1 : Leads(v, e, t)

EscapesOK(v) == \A e \in 1 .. Len(v.c) : EscapeOK(v, e)

\* Each action of parameterize saved the value that the one below it set.
IsLastParam(v, x, k) ==
  \/ x = 0 /\ \A m \in 1 .. k : v.unwind[m].what # "param"
  \/ \E m \in 1 .. k : /\ v.unwind[m].what = "param" /\ v.unwind[m].id = x
                       /\ \A l \in m + 1 .. k : v.unwind[l].what # "param"

ParamsOK(v) ==
  /\ IsLastParam(v, v.param, Len(v.unwind))
  /\ \A k \in 1 .. Len(v.unwind) : v.unwind[k].what = "param" => IsLastParam(v, v.unwind[k].saved, k - 1)

\* The handler that a raise has popped is the innermost one.
RaiseOK(v, r) ==
  v.c[r].kind = "raise" =>
    /\ v.c[r].excs >= 1 /\ v.c[r].ref <= v.n /\ v.c[r].phase \in {"raise", "continuable"}
    /\ \A p \in 1 .. r : \A w \in HandlingBelow(v, p) :
         Calm(v, p) /\ Rank(v, p, w) = v.c[r].excs /\ Kept(v, p, r, v.c[r].excs) => v.c[r].ref = v.c[w].id

RaisesOK(v) == \A r \in 1 .. Len(v.c) : RaiseOK(v, r)

\* The handlers of p stay in their slots for as long as there are so many.
SlotOK(v, p, w) ==
  Calm(v, p) /\ Kept(v, p, Here(v), Rank(v, p, w)) => v.exc[Rank(v, p, w)] = v.c[w].id

SlotsOK(v) == \A p \in 1 .. Here(v) : \A w \in HandlingBelow(v, p) : SlotOK(v, p, w)

IdOK(v, i) ==
  HasNumber(v.c[i]) =>
    /\ v.c[i].id \in 1 .. v.n
    /\ \A j \in 1 .. Len(v.c) : HasNumber(v.c[j]) /\ v.c[i].id = v.c[j].id => i = j

IdsOK(v) ==
  /\ \A i \in 1 .. Len(v.c) : IdOK(v, i)
  /\ \A k \in 1 .. CREME_EXC_HANDLERS_CAP : v.exc[k] <= v.n

PlaceOK(v, j) ==
  v.c[j].kind \in {"guard", "tests", "raise"} => j > 1 /\ OfScheme(v.c[j - 1])

PlacesOK(v) ==
  /\ Len(v.c) >= 1 /\ v.c[1].kind = "run"
  /\ \A j \in 1 .. Len(v.c) : PlaceOK(v, j)

\* An after thunk still to be called was not called.
AftersOK(v) ==
  /\ \A id \in 1 .. MaxEntries : v.after[id] <= 1 /\ (id > v.n => v.after[id] = 0)
  /\ \A k \in 1 .. Len(v.unwind) : v.unwind[k].what = "wind" =>
       /\ v.unwind[k].id \in 1 .. v.n /\ v.after[v.unwind[k].id] = 0
       /\ \A m \in 1 .. Len(v.unwind) :
            v.unwind[m].what = "wind" /\ v.unwind[m].id = v.unwind[k].id => m = k
  /\ \A j \in 1 .. Len(v.c) : v.c[j].kind = "wind" =>
       /\ v.c[j].phase = "before" =>
            /\ v.after[v.c[j].id] = 0
            /\ \A k \in 1 .. Len(v.unwind) : ~ (v.unwind[k].what = "wind" /\ v.unwind[k].id = v.c[j].id)
       /\ v.c[j].phase = "after" => v.after[v.c[j].id] = 1

ControlInv(v) ==
  /\ v \in ControlVM /\ ~ v.bad
  /\ ChangesOK(v) /\ GuardsOK(v) /\ UsedOK(v) /\ ClausesOK(v) /\ CountsOK(v) /\ OwnersOK(v)
  /\ FirstsOK(v) /\ SavedsOK(v) /\ DipsOK(v) /\ EscapesOK(v) /\ ParamsOK(v)
  /\ RaisesOK(v) /\ SlotsOK(v) /\ IdsOK(v) /\ PlacesOK(v) /\ AftersOK(v)

-----------------------------------------------------------------------------
(* Reading the machine.                                                    *)

LEMMA VMFields ==
  ASSUME NEW v \in ControlVM
  PROVE  /\ v.c \in Seq(Activation) /\ Len(v.c) \in Nat /\ v.unwind \in Seq(UnwindAction) /\ Len(v.unwind) \in Nat
         /\ v.depth \in Nat /\ v.nh \in Nat /\ v.nexc \in Nat /\ v.nexc <= CREME_EXC_HANDLERS_CAP
         /\ v.n \in Nat /\ v.n <= MaxEntries /\ v.param \in Nat /\ v.pending \in Nat
         /\ v.handlers \in [1 .. CREME_HANDLERS_CAP -> Handler] /\ v.exc \in [1 .. CREME_EXC_HANDLERS_CAP -> Nat]
         /\ v.after \in [1 .. MaxEntries -> Nat] /\ v.bad \in BOOLEAN /\ v.exited \in BOOLEAN
<1>1. /\ v.c \in Seq(Activation) /\ v.unwind \in Seq(UnwindAction)
      /\ v.depth \in Nat /\ v.nh \in Nat /\ v.nexc \in 0 .. CREME_EXC_HANDLERS_CAP
      /\ v.n \in 0 .. MaxEntries /\ v.param \in Nat /\ v.pending \in Nat
      /\ v.handlers \in [1 .. CREME_HANDLERS_CAP -> Handler] /\ v.exc \in [1 .. CREME_EXC_HANDLERS_CAP -> Nat]
      /\ v.after \in [1 .. MaxEntries -> Nat] /\ v.bad \in BOOLEAN /\ v.exited \in BOOLEAN
  BY DEF ControlVM
<1>2. Len(v.c) \in Nat /\ Len(v.unwind) \in Nat
  BY <1>1, LenProperties
<1> QED BY <1>1, <1>2, CapAssumption

LEMMA EntryFields ==
  ASSUME NEW v \in ControlVM, NEW j \in 1 .. Len(v.c)
  PROVE  /\ v.c[j] \in Activation /\ v.c[j].kind \in Kind /\ v.c[j].id \in Nat /\ v.c[j].phase \in Phase
         /\ v.c[j].ref \in Nat /\ v.c[j].want \in Nat /\ v.c[j].depth \in Nat /\ v.c[j].mark \in Nat
         /\ v.c[j].excs \in Nat /\ v.c[j].excs <= CREME_EXC_HANDLERS_CAP /\ v.c[j].guards \in Nat
<1>1. v.c[j] \in Activation
  BY VMFields, ElementOfSeq
<1> QED BY <1>1, CapAssumption DEF Activation

LEMMA ActionFields ==
  ASSUME NEW v \in ControlVM, NEW k \in 1 .. Len(v.unwind)
  PROVE  /\ v.unwind[k] \in UnwindAction /\ v.unwind[k].what \in {"param", "weh", "wind"}
         /\ v.unwind[k].id \in Nat /\ v.unwind[k].saved \in Nat
<1>1. v.unwind[k] \in UnwindAction
  BY VMFields, ElementOfSeq
<1> QED BY <1>1 DEF UnwindAction

LEMMA AtFields ==
  ASSUME NEW v \in ControlVM, NEW j \in Nat, 1 <= j
  PROVE  /\ MarkAt(v, j) \in Nat /\ ExcsAt(v, j) \in Nat /\ DepthAt(v, j) \in Nat /\ GuardsAt(v, j) \in Nat
         /\ ExcsAt(v, j) <= CREME_EXC_HANDLERS_CAP
<1>1. CASE j <= Len(v.c)
  <2>1. j \in 1 .. Len(v.c)
    BY <1>1, VMFields
  <2> QED BY <1>1, <2>1, EntryFields DEF MarkAt, ExcsAt, DepthAt, GuardsAt
<1>2. CASE ~ (j <= Len(v.c))
  BY <1>2, VMFields DEF MarkAt, ExcsAt, DepthAt, GuardsAt
<1> QED BY <1>1, <1>2

\* The present.
LEMMA AtHere ==
  ASSUME NEW v \in ControlVM
  PROVE  /\ MarkAt(v, Here(v)) = Len(v.unwind) /\ ExcsAt(v, Here(v)) = v.nexc
         /\ DepthAt(v, Here(v)) = v.depth /\ GuardsAt(v, Here(v)) = v.nh
         /\ Here(v) \in Nat /\ Here(v) >= 1 /\ Here(v) = Len(v.c) + 1
         /\ \A j \in 1 .. Len(v.c) : /\ MarkAt(v, j) = v.c[j].mark /\ ExcsAt(v, j) = v.c[j].excs
                                     /\ DepthAt(v, j) = v.c[j].depth /\ GuardsAt(v, j) = v.c[j].guards
BY VMFields DEF MarkAt, ExcsAt, DepthAt, GuardsAt, Here

\* Two machines with the same entries up to m and the same moments up to q.
SameTo(v, w, m) == m <= Len(v.c) /\ m <= Len(w.c) /\ \A j \in 1 .. m : w.c[j] = v.c[j]
SameAt(v, w, q) ==
  \A j \in 1 .. q : /\ MarkAt(w, j) = MarkAt(v, j) /\ ExcsAt(w, j) = ExcsAt(v, j)
                    /\ DepthAt(w, j) = DepthAt(v, j) /\ GuardsAt(w, j) = GuardsAt(v, j)

LEMMA SameBelow ==
  ASSUME NEW v, NEW w, NEW m \in Nat, SameTo(v, w, m), NEW p \in 1 .. m + 1
  PROVE  /\ Calm(w, p) <=> Calm(v, p)
         /\ InstalledBelow(w, p) = InstalledBelow(v, p) /\ UnwoundBelow(w, p) = UnwoundBelow(v, p)
         /\ RunsBelow(w, p) = RunsBelow(v, p) /\ HandlingBelow(w, p) = HandlingBelow(v, p)
         /\ \A x : Rank(w, p, x) = Rank(v, p, x)
<1>1. \A j \in 1 .. p - 1 : w.c[j] = v.c[j]
  BY DEF SameTo
<1>2. HandlingBelow(w, p) = HandlingBelow(v, p)
  BY <1>1 DEF HandlingBelow
<1> QED BY <1>1, <1>2 DEF Calm, InstalledBelow, UnwoundBelow, RunsBelow, Rank

LEMMA SameKept ==
  ASSUME NEW v, NEW w, NEW q \in Nat, SameAt(v, w, q), NEW p \in 0 .. q, NEW i \in 1 .. q
  PROVE  /\ Held(w, i, p) <=> Held(v, i, p)
         /\ \A x : Kept(w, i, p, x) <=> Kept(v, i, p, x)
<1>1. \A j \in i .. p : j \in 1 .. q
  OBVIOUS
<1>2. MarkAt(w, i) = MarkAt(v, i)
  BY DEF SameAt
<1> QED BY <1>1, <1>2 DEF SameAt, Held, Kept

LEMMA SetsBelow ==
  ASSUME NEW v, NEW p \in Nat, 1 <= p
  PROVE  \A S \in {InstalledBelow(v, p), UnwoundBelow(v, p), RunsBelow(v, p), HandlingBelow(v, p)} :
           S \subseteq 1 .. p - 1 /\ IsFiniteSet(S) /\ Cardinality(S) \in Nat
<1>1. p - 1 \in Nat
  OBVIOUS
<1>2. IsFiniteSet(1 .. p - 1)
  BY <1>1, FS_Interval
<1>3. \A S \in {InstalledBelow(v, p), UnwoundBelow(v, p), RunsBelow(v, p), HandlingBelow(v, p)} : S \subseteq 1 .. p - 1
  BY DEF InstalledBelow, UnwoundBelow, RunsBelow, HandlingBelow
<1> QED BY <1>2, <1>3, FS_Subset, FS_CardinalityType

LEMMA RankFields ==
  ASSUME NEW v, NEW p \in Nat, 1 <= p, NEW x
  PROVE  /\ Rank(v, p, x) \in Nat /\ Rank(v, p, x) <= Cardinality(HandlingBelow(v, p))
         /\ x \in HandlingBelow(v, p) => Rank(v, p, x) >= 1
<1> DEFINE S == HandlingBelow(v, p)
           R == {j \in S : j <= x}
<1>1. IsFiniteSet(S) /\ S \subseteq 1 .. p - 1
  BY SetsBelow
<1>2. R \subseteq S /\ Rank(v, p, x) = Cardinality(R)
  BY DEF Rank
<1>3. IsFiniteSet(R) /\ Cardinality(R) \in Nat /\ Cardinality(R) <= Cardinality(S)
  BY <1>1, <1>2, FS_Subset, FS_CardinalityType
<1>4. x \in S => Cardinality(R) >= 1
  <2>1. x \in S => R # {}
    BY <1>1
  <2>2. R # {} => Cardinality(R) # 0
    BY <1>3, FS_EmptySet
  <2> QED BY <1>3, <2>1, <2>2
<1> QED BY <1>2, <1>3, <1>4

\* The innermost of the handlers.
LEMMA TopHandler ==
  ASSUME NEW v, NEW p \in Nat, 1 <= p, Cardinality(HandlingBelow(v, p)) >= 1
  PROVE  \E w \in HandlingBelow(v, p) :
           Rank(v, p, w) = Cardinality(HandlingBelow(v, p)) /\ \A j \in HandlingBelow(v, p) : j <= w
<1> DEFINE S == HandlingBelow(v, p)
           f == InOrder(S)
           k == Cardinality(S)
<1>1. S \in SUBSET (1 .. p - 1) /\ p - 1 \in Nat /\ k \in Nat /\ k >= 1
  BY SetsBelow
<1>2. /\ f \in [1 .. k -> S] /\ \A x \in S : \E i \in 1 .. k : f[i] = x
      /\ \A i, j \in 1 .. k : f[i] < f[j] => i < j
  BY SMTT(30), <1>1, OrderFacts
<1> DEFINE w == f[k]
<1>3. k \in 1 .. k /\ w \in S
  BY <1>1, <1>2
<1> HIDE DEF f, k
<1>4. ASSUME NEW x \in S PROVE x <= w
  <2>1. PICK i \in 1 .. k : f[i] = x
    BY <1>2
  <2>2. ~ (f[k] < f[i])
    BY <1>1, <1>2, <1>3, <2>1
  <2> QED BY <1>1, <1>3, <2>1, <2>2
<1>5. {j \in S : j <= w} = S
  BY <1>4
<1> QED BY <1>3, <1>4, <1>5 DEF Rank

-----------------------------------------------------------------------------
(* Going on.  w has what v had up to t, and at most one entry there.       *)

Continues(v, w, t) ==
  /\ t \in 1 .. Here(v) /\ t \in 1 .. Here(w) /\ Here(w) <= t + 1
  /\ SameTo(v, w, t - 1) /\ SameAt(v, w, t)
  /\ \A k \in 1 .. Len(v.unwind) : k <= Len(w.unwind) => w.unwind[k] = v.unwind[k]
  /\ \A p \in 1 .. t : Held(w, p, Here(w)) => Held(v, p, Here(v))
  /\ w.n >= v.n

\* Up to t nothing about the entries and the moments is new.
LEMMA ContinueBelow ==
  ASSUME NEW v \in ControlVM, NEW w \in ControlVM, NEW t, Continues(v, w, t)
  PROVE  /\ t \in Nat /\ t >= 1 /\ t - 1 \in Nat
         /\ \A j \in 1 .. t - 1 : w.c[j] = v.c[j] /\ j \in 1 .. Len(v.c) /\ j \in 1 .. Len(w.c)
         /\ \A p \in 1 .. t :
              /\ p \in 1 .. Here(v) /\ p \in 1 .. Here(w)
              /\ MarkAt(w, p) = MarkAt(v, p) /\ ExcsAt(w, p) = ExcsAt(v, p)
              /\ DepthAt(w, p) = DepthAt(v, p) /\ GuardsAt(w, p) = GuardsAt(v, p)
              /\ Calm(w, p) <=> Calm(v, p)
              /\ InstalledBelow(w, p) = InstalledBelow(v, p) /\ UnwoundBelow(w, p) = UnwoundBelow(v, p)
              /\ RunsBelow(w, p) = RunsBelow(v, p) /\ HandlingBelow(w, p) = HandlingBelow(v, p)
              /\ \A x : Rank(w, p, x) = Rank(v, p, x)
              /\ \A i \in 1 .. t : /\ Held(w, i, p) <=> Held(v, i, p)
                                   /\ \A x : Kept(w, i, p, x) <=> Kept(v, i, p, x)
<1>1. t \in Nat /\ t >= 1 /\ t - 1 \in Nat /\ Len(v.c) \in Nat /\ Len(w.c) \in Nat
      /\ t <= Len(v.c) + 1 /\ t <= Len(w.c) + 1
  BY VMFields DEF Continues, Here
<1>2. SameTo(v, w, t - 1) /\ SameAt(v, w, t)
  BY DEF Continues
<1>3. \A j \in 1 .. t - 1 : w.c[j] = v.c[j] /\ j \in 1 .. Len(v.c) /\ j \in 1 .. Len(w.c)
  BY <1>1, <1>2 DEF SameTo
<1>4. ASSUME NEW p \in 1 .. t
      PROVE  /\ p \in 1 .. Here(v) /\ p \in 1 .. Here(w)
             /\ MarkAt(w, p) = MarkAt(v, p) /\ ExcsAt(w, p) = ExcsAt(v, p)
             /\ DepthAt(w, p) = DepthAt(v, p) /\ GuardsAt(w, p) = GuardsAt(v, p)
  BY <1>1, <1>2 DEF SameAt, Here
<1>5. ASSUME NEW p \in 1 .. t
      PROVE  /\ Calm(w, p) <=> Calm(v, p)
             /\ InstalledBelow(w, p) = InstalledBelow(v, p) /\ UnwoundBelow(w, p) = UnwoundBelow(v, p)
             /\ RunsBelow(w, p) = RunsBelow(v, p) /\ HandlingBelow(w, p) = HandlingBelow(v, p)
             /\ \A x : Rank(w, p, x) = Rank(v, p, x)
  <2>1. p \in 1 .. (t - 1) + 1
    BY <1>1
  <2> QED BY <1>1, <1>2, <2>1, SameBelow
<1>6. ASSUME NEW p \in 1 .. t, NEW i \in 1 .. t
      PROVE  /\ Held(w, i, p) <=> Held(v, i, p)
             /\ \A x : Kept(w, i, p, x) <=> Kept(v, i, p, x)
  <2>1. p \in 0 .. t
    BY <1>1
  <2> QED BY <1>1, <1>2, <2>1, SameKept
<1> QED BY <1>1, <1>3, <1>4, <1>5, <1>6

LEMMA ContinueChanges ==
  ASSUME NEW v \in ControlVM, NEW w \in ControlVM, NEW t, Continues(v, w, t), ChangesOK(v)
  PROVE  /\ MarkAt(w, 1) = 0 /\ ExcsAt(w, 1) = 0 /\ DepthAt(w, 1) = 0 /\ GuardsAt(w, 1) = 0
         /\ \A j \in 1 .. t - 1 : Change(w, j)
<1>1. 1 \in 1 .. t
  BY ContinueBelow
<1>2. ASSUME NEW j \in 1 .. t - 1 PROVE Change(w, j)
  <2>1. j \in 1 .. t /\ j + 1 \in 1 .. t /\ w.c[j] = v.c[j] /\ j \in 1 .. Len(v.c)
    BY ContinueBelow
  <2>2. Change(v, j)
    BY <2>1 DEF ChangesOK
  <2> QED BY <2>1, <2>2, ContinueBelow DEF Change
<1> QED BY <1>1, <1>2, ContinueBelow DEF ChangesOK

LEMMA ContinueUsed ==
  ASSUME NEW v \in ControlVM, NEW w \in ControlVM, NEW t, Continues(v, w, t), UsedOK(v)
  PROVE  \A p \in 1 .. t : \A s \in 1 .. GuardsAt(w, p) : SlotUsed(w, p, s)
<1> SUFFICES ASSUME NEW p \in 1 .. t, NEW s \in 1 .. GuardsAt(w, p) PROVE SlotUsed(w, p, s)
  OBVIOUS
<1>1. p \in 1 .. Here(v) /\ GuardsAt(w, p) = GuardsAt(v, p)
  BY ContinueBelow
<1>2. SlotUsed(v, p, s)
  BY <1>1 DEF UsedOK
<1>3. \A g \in 1 .. p - 1 : w.c[g] = v.c[g]
  BY ContinueBelow
<1> QED BY <1>2, <1>3 DEF SlotUsed

LEMMA ContinueCounts ==
  ASSUME NEW v \in ControlVM, NEW w \in ControlVM, NEW t, Continues(v, w, t), CountsOK(v)
  PROVE  \A p \in 1 .. t : CountOK(w, p)
<1> SUFFICES ASSUME NEW p \in 1 .. t PROVE CountOK(w, p)
  OBVIOUS
<1>1. CountOK(v, p)
  BY ContinueBelow DEF CountsOK
<1> QED BY <1>1, ContinueBelow DEF CountOK

\* What is held has its actions on both unwind stacks.
LEMMA ContinueHeld ==
  ASSUME NEW v \in ControlVM, NEW w \in ControlVM, NEW t, Continues(v, w, t),
         NEW p \in 1 .. t, Held(w, p, Here(w))
  PROVE  /\ Held(v, p, Here(v)) /\ MarkAt(v, p) \in Nat /\ MarkAt(w, p) = MarkAt(v, p)
         /\ MarkAt(v, p) <= Len(v.unwind) /\ MarkAt(v, p) <= Len(w.unwind)
         /\ \A k \in 1 .. MarkAt(v, p) : w.unwind[k] = v.unwind[k]
         /\ \A i \in 1 .. t : Wehs(w, i, p) = Wehs(v, i, p)
<1>1. Held(v, p, Here(v))
  BY DEF Continues
<1>2. p \in 1 .. Here(v) /\ p \in 1 .. Here(w) /\ MarkAt(w, p) = MarkAt(v, p)
  BY ContinueBelow
<1>3. /\ Here(v) \in Nat /\ MarkAt(v, Here(v)) = Len(v.unwind) /\ Len(v.unwind) \in Nat
      /\ Here(w) \in Nat /\ MarkAt(w, Here(w)) = Len(w.unwind) /\ Len(w.unwind) \in Nat
  BY AtHere, VMFields
<1>4. Here(v) \in p .. Here(v) /\ Here(w) \in p .. Here(w)
  BY <1>2, <1>3
<1>5. MarkAt(v, p) \in Nat
  BY <1>2, AtFields
<1>6. MarkAt(v, p) <= Len(v.unwind)
  BY <1>1, <1>3, <1>4 DEF Held
<1>7. MarkAt(v, p) <= Len(w.unwind)
  BY <1>2, <1>3, <1>4 DEF Held
<1>8. \A k \in 1 .. MarkAt(v, p) : w.unwind[k] = v.unwind[k]
  BY <1>3, <1>5, <1>6, <1>7 DEF Continues
<1>9. ASSUME NEW i \in 1 .. t PROVE Wehs(w, i, p) = Wehs(v, i, p)
  <2>1. MarkAt(w, i) = MarkAt(v, i) /\ i \in Nat /\ 1 <= i
    BY ContinueBelow
  <2>2. MarkAt(v, i) \in Nat
    BY <2>1, AtFields
  <2>3. \A k \in MarkAt(v, i) + 1 .. MarkAt(v, p) : k \in 1 .. MarkAt(v, p)
    BY <1>5, <2>2
  <2> QED BY <1>2, <1>8, <2>1, <2>3 DEF Wehs
<1> QED BY <1>1, <1>2, <1>5, <1>6, <1>7, <1>8, <1>9

LEMMA ContinueOwners ==
  ASSUME NEW v \in ControlVM, NEW w \in ControlVM, NEW t, Continues(v, w, t), OwnersOK(v)
  PROVE  \A j \in 1 .. t - 1 : OwnerOK(w, j)
<1> SUFFICES ASSUME NEW j \in 1 .. t - 1, Unwound(w.c[j]), Held(w, j + 1, Here(w))
             PROVE  /\ MarkAt(w, j + 1) \in 1 .. Len(w.unwind)
                    /\ w.unwind[MarkAt(w, j + 1)].what = w.c[j].kind
                    /\ w.unwind[MarkAt(w, j + 1)].id = w.c[j].id
  BY DEF OwnerOK
<1>1. j + 1 \in 1 .. t /\ w.c[j] = v.c[j] /\ j \in 1 .. Len(v.c)
  BY ContinueBelow
<1>2. /\ Held(v, j + 1, Here(v)) /\ MarkAt(w, j + 1) = MarkAt(v, j + 1)
      /\ MarkAt(v, j + 1) \in Nat /\ MarkAt(v, j + 1) <= Len(w.unwind)
      /\ \A k \in 1 .. MarkAt(v, j + 1) : w.unwind[k] = v.unwind[k]
  BY <1>1, ContinueHeld
<1>3. OwnerOK(v, j)
  BY <1>1 DEF OwnersOK
<1>4. /\ MarkAt(v, j + 1) \in 1 .. Len(v.unwind)
      /\ v.unwind[MarkAt(v, j + 1)].what = v.c[j].kind
      /\ v.unwind[MarkAt(v, j + 1)].id = v.c[j].id
  BY <1>1, <1>2, <1>3 DEF OwnerOK
<1>5. Len(w.unwind) \in Nat /\ Len(v.unwind) \in Nat
  BY VMFields
<1>6. MarkAt(v, j + 1) \in 1 .. MarkAt(v, j + 1)
  BY <1>2, <1>4, <1>5
<1> QED BY <1>1, <1>2, <1>4, <1>5, <1>6

LEMMA ContinueFirsts ==
  ASSUME NEW v \in ControlVM, NEW w \in ControlVM, NEW t, Continues(v, w, t), FirstsOK(v)
  PROVE  \A p \in 1 .. t : \A i \in 1 .. p : FirstOK(w, i, p)
<1> SUFFICES ASSUME NEW p \in 1 .. t, NEW i \in 1 .. p,
                    Held(w, p, Here(w)), Kept(w, i, p, ExcsAt(w, i))
             PROVE  FirstOK(w, i, p)
  BY DEF FirstOK
<1>1. i \in 1 .. t /\ p \in 1 .. Here(v) /\ ExcsAt(w, i) = ExcsAt(v, i) /\ ExcsAt(w, p) = ExcsAt(v, p)
  BY ContinueBelow
<1>2. /\ Held(v, p, Here(v)) /\ Wehs(w, i, p) = Wehs(v, i, p) /\ MarkAt(v, p) \in Nat
      /\ \A k \in 1 .. MarkAt(v, p) : w.unwind[k] = v.unwind[k]
  BY <1>1, ContinueHeld
<1>3. Kept(v, i, p, ExcsAt(v, i))
  BY <1>1, ContinueBelow
<1>4. FirstOK(v, i, p)
  BY <1>1 DEF FirstsOK
<1>5. MarkAt(v, i) \in Nat
  BY <1>1, AtFields
<1>6. \A k \in Wehs(v, i, p) : w.unwind[k] = v.unwind[k]
  BY <1>2, <1>5 DEF Wehs
<1> QED BY <1>1, <1>2, <1>3, <1>4, <1>6 DEF FirstOK

LEMMA ContinueSaveds ==
  ASSUME NEW v \in ControlVM, NEW w \in ControlVM, NEW t, Continues(v, w, t), SavedsOK(v)
  PROVE  \A p \in 1 .. t : \A i \in 1 .. p : SavedOK(w, i, p)
<1> SUFFICES ASSUME NEW p \in 1 .. t, NEW i \in 1 .. p,
                    Held(w, p, Here(w)), Held(w, i, p)
             PROVE  SavedOK(w, i, p)
  BY DEF SavedOK
<1>1. i \in 1 .. t /\ p \in 1 .. Here(v)
  BY ContinueBelow
<1>2. /\ Held(v, p, Here(v)) /\ Wehs(w, i, p) = Wehs(v, i, p) /\ MarkAt(v, p) \in Nat
      /\ \A k \in 1 .. MarkAt(v, p) : w.unwind[k] = v.unwind[k]
  BY <1>1, ContinueHeld
<1>3. Held(v, i, p)
  BY <1>1, ContinueBelow
<1>4. SavedOK(v, i, p)
  BY <1>1 DEF SavedsOK
<1>5. MarkAt(v, i) \in Nat
  BY <1>1, AtFields
<1>6. \A k \in Wehs(v, i, p) : w.unwind[k] = v.unwind[k]
  BY <1>2, <1>5 DEF Wehs
<1>7. \A j \in i .. p - 1 : ExcsAt(w, j) = ExcsAt(v, j)
  BY <1>1, ContinueBelow
<1> QED BY <1>2, <1>3, <1>4, <1>6, <1>7 DEF SavedOK

LEMMA ContinueDips ==
  ASSUME NEW v \in ControlVM, NEW w \in ControlVM, NEW t, Continues(v, w, t), DipsOK(v)
  PROVE  \A e \in 1 .. t - 1 : DipOK(w, e)
<1> SUFFICES ASSUME NEW e \in 1 .. t - 1, Drains(w.c[e]), NEW i \in 1 .. e, Held(w, i, e + 1)
             PROVE  \E j \in i .. e : ExcsAt(w, j) <= ExcsAt(w, e + 1)
  BY DEF DipOK
<1>1. e + 1 \in 1 .. t /\ i \in 1 .. t /\ w.c[e] = v.c[e] /\ e \in 1 .. Len(v.c)
  BY ContinueBelow
<1>2. Held(v, i, e + 1)
  BY <1>1, ContinueBelow
<1>3. PICK j \in i .. e : ExcsAt(v, j) <= ExcsAt(v, e + 1)
  BY <1>1, <1>2 DEF DipsOK, DipOK
<1>4. j \in 1 .. t
  BY ContinueBelow, <1>1
<1> QED BY <1>1, <1>3, <1>4, ContinueBelow

LEMMA ContinueEscapes ==
  ASSUME NEW v \in ControlVM, NEW w \in ControlVM, NEW t, Continues(v, w, t), EscapesOK(v)
  PROVE  \A e \in 1 .. t - 1 : EscapeOK(w, e)
<1> SUFFICES ASSUME NEW e \in 1 .. t - 1, w.c[e].kind = "escape"
             PROVE  \E u \in 1 .. e - 1 : Leads(w, e, u)
  BY DEF EscapeOK
<1>1. e \in 1 .. t /\ e + 1 \in 1 .. t /\ w.c[e] = v.c[e] /\ e \in 1 .. Len(v.c)
  BY ContinueBelow
<1>2. PICK u \in 1 .. e - 1 : Leads(v, e, u)
  BY <1>1 DEF EscapesOK, EscapeOK
<1>3. u \in 1 .. t /\ u \in 1 .. t - 1 /\ \A j \in u .. e : j \in 1 .. t - 1
  BY ContinueBelow, <1>1
<1>4. \A j \in u .. e : w.c[j] = v.c[j]
  BY <1>3, ContinueBelow
<1>5. MarkAt(w, u) = MarkAt(v, u) /\ ExcsAt(w, u) = ExcsAt(v, u) /\ MarkAt(w, e + 1) = MarkAt(v, e + 1)
  BY <1>1, <1>3, ContinueBelow
<1>6. Kept(w, u, e, ExcsAt(w, u)) <=> Kept(v, u, e, ExcsAt(v, u))
  BY <1>1, <1>3, <1>5, ContinueBelow
<1>7. w.c[u] = v.c[u]
  BY <1>3, ContinueBelow
<1> QED BY <1>1, <1>2, <1>4, <1>5, <1>6, <1>7 DEF Leads

LEMMA ContinueRaises ==
  ASSUME NEW v \in ControlVM, NEW w \in ControlVM, NEW t, Continues(v, w, t), RaisesOK(v)
  PROVE  \A r \in 1 .. t - 1 : RaiseOK(w, r)
<1> SUFFICES ASSUME NEW r \in 1 .. t - 1, w.c[r].kind = "raise" PROVE RaiseOK(w, r)
  BY DEF RaiseOK
<1>1. r \in 1 .. t /\ w.c[r] = v.c[r] /\ r \in 1 .. Len(v.c)
  BY ContinueBelow
<1>2. RaiseOK(v, r)
  BY <1>1 DEF RaisesOK
<1>3. w.c[r].excs >= 1 /\ w.c[r].ref <= w.n /\ w.c[r].phase \in {"raise", "continuable"}
  <2>1. w.n >= v.n /\ w.n \in Nat /\ v.n \in Nat /\ v.c[r].ref \in Nat
    BY <1>1, VMFields, EntryFields DEF Continues
  <2> QED BY <1>1, <1>2, <2>1 DEF RaiseOK
<1>4. ASSUME NEW p \in 1 .. r, NEW x \in HandlingBelow(w, p),
             Calm(w, p), Rank(w, p, x) = w.c[r].excs, Kept(w, p, r, w.c[r].excs)
      PROVE  w.c[r].ref = w.c[x].id
  <2>1. p \in 1 .. t
    BY ContinueBelow, <1>1
  <2>2. x \in HandlingBelow(v, p) /\ Calm(v, p) /\ Rank(v, p, x) = v.c[r].excs /\ Kept(v, p, r, v.c[r].excs)
    BY <1>1, <1>4, <2>1, ContinueBelow
  <2>3. v.c[r].ref = v.c[x].id
    BY <1>1, <1>2, <2>2 DEF RaiseOK
  <2>4. x \in 1 .. t - 1
    BY ContinueBelow, <2>1, <2>2 DEF HandlingBelow
  <2> QED BY <1>1, <2>3, <2>4, ContinueBelow
<1> QED BY <1>3, <1>4 DEF RaiseOK

LEMMA ContinueSlots ==
  ASSUME NEW v \in ControlVM, NEW w \in ControlVM, NEW t, Continues(v, w, t), SlotsOK(v), w.exc = v.exc,
         \A p \in 1 .. t : \A x \in Nat : Kept(w, p, Here(w), x) => Kept(v, p, Here(v), x)
  PROVE  \A p \in 1 .. t : \A x \in HandlingBelow(w, p) : SlotOK(w, p, x)
<1> SUFFICES ASSUME NEW p \in 1 .. t, NEW x \in HandlingBelow(w, p),
                    Calm(w, p), Kept(w, p, Here(w), Rank(w, p, x))
             PROVE  w.exc[Rank(w, p, x)] = w.c[x].id
  BY DEF SlotOK
<1>1. /\ p \in 1 .. Here(v) /\ x \in HandlingBelow(v, p) /\ Calm(v, p) /\ Rank(w, p, x) = Rank(v, p, x)
      /\ p \in Nat /\ 1 <= p
  BY ContinueBelow
<1>2. Rank(v, p, x) \in Nat
  BY <1>1, RankFields
<1>3. Kept(v, p, Here(v), Rank(v, p, x))
  BY <1>1, <1>2
<1>4. v.exc[Rank(v, p, x)] = v.c[x].id
  BY <1>1, <1>3 DEF SlotsOK, SlotOK
<1>5. x \in 1 .. t - 1
  BY <1>1, ContinueBelow DEF HandlingBelow
<1> QED BY <1>1, <1>4, <1>5, ContinueBelow

LEMMA ContinueIds ==
  ASSUME NEW v \in ControlVM, NEW w \in ControlVM, NEW t, Continues(v, w, t), IdsOK(v)
  PROVE  \A i \in 1 .. t - 1 : HasNumber(w.c[i]) =>
           /\ w.c[i].id \in 1 .. w.n
           /\ \A j \in 1 .. t - 1 : HasNumber(w.c[j]) /\ w.c[i].id = w.c[j].id => i = j
<1> SUFFICES ASSUME NEW i \in 1 .. t - 1, HasNumber(w.c[i])
             PROVE  /\ w.c[i].id \in 1 .. w.n
                    /\ \A j \in 1 .. t - 1 : HasNumber(w.c[j]) /\ w.c[i].id = w.c[j].id => i = j
  OBVIOUS
<1>1. \A j \in 1 .. t - 1 : w.c[j] = v.c[j] /\ j \in 1 .. Len(v.c)
  BY ContinueBelow
<1>2. IdOK(v, i)
  BY <1>1 DEF IdsOK
<1>3. w.n \in Nat /\ v.n \in Nat /\ w.n >= v.n
  BY VMFields DEF Continues
<1> QED BY <1>1, <1>2, <1>3 DEF IdOK

LEMMA ContinuePlaces ==
  ASSUME NEW v \in ControlVM, NEW w \in ControlVM, NEW t, Continues(v, w, t), PlacesOK(v)
  PROVE  \A j \in 1 .. t - 1 : PlaceOK(w, j)
<1> SUFFICES ASSUME NEW j \in 1 .. t - 1, w.c[j].kind \in {"guard", "tests", "raise"}
             PROVE  j > 1 /\ OfScheme(w.c[j - 1])
  BY DEF PlaceOK
<1>1. w.c[j] = v.c[j] /\ j \in 1 .. Len(v.c)
  BY ContinueBelow
<1>2. j > 1 /\ OfScheme(v.c[j - 1])
  BY <1>1 DEF PlacesOK, PlaceOK
<1>3. j - 1 \in 1 .. t - 1
  BY <1>2, ContinueBelow
<1> QED BY <1>2, <1>3, ContinueBelow

\* No clause is being chosen, and no guard unwound to, below t; or the
\* condition is the same.
SamePending(v, w, t) ==
  w.pending = v.pending \/ \A j \in 1 .. t - 1 : v.c[j].kind # "tests" /\ ~ Draining(v.c[j])

LEMMA ContinueClauses ==
  ASSUME NEW v \in ControlVM, NEW w \in ControlVM, NEW t, Continues(v, w, t), ClausesOK(v), SamePending(v, w, t)
  PROVE  \A j \in 1 .. t - 1 :
           /\ w.c[j].kind = "tests" => w.c[j].id = w.pending
           /\ w.c[j].kind = "tests" \/ Draining(w.c[j]) =>
                \A i \in j + 1 .. t - 1 : w.c[i].kind \notin {"guard", "tests"}
<1> SUFFICES ASSUME NEW j \in 1 .. t - 1, w.c[j].kind = "tests" \/ Draining(w.c[j])
             PROVE  /\ w.c[j].kind = "tests" => w.c[j].id = w.pending
                    /\ \A i \in j + 1 .. t - 1 : w.c[i].kind \notin {"guard", "tests"}
  OBVIOUS
<1>1. t \in Nat /\ \A i \in 1 .. t - 1 : w.c[i] = v.c[i] /\ i \in 1 .. Len(v.c)
  BY ContinueBelow
<1>2. ClauseOK(v, j)
  BY <1>1 DEF ClausesOK
<1>3. w.pending = v.pending
  BY <1>1 DEF SamePending
<1>4. \A i \in j + 1 .. t - 1 : i \in 1 .. t - 1 /\ i \in j + 1 .. Len(v.c)
  BY <1>1, VMFields
<1> QED BY <1>1, <1>2, <1>3, <1>4 DEF ClauseOK

\* The guards below t are still there at what is entered at t.
GuardsStay(v, w, t) ==
  \A g \in 1 .. t - 1 : Installed(v.c[g]) =>
    \A j \in t + 1 .. Here(w) : MarkAt(w, j) >= v.c[g].mark /\ GuardsAt(w, j) >= v.c[g].guards + 1

LEMMA ContinueGuards ==
  ASSUME NEW v \in ControlVM, NEW w \in ControlVM, NEW t, Continues(v, w, t), GuardsOK(v),
         w.handlers = v.handlers, SamePending(v, w, t), GuardsStay(v, w, t)
  PROVE  \A g \in 1 .. t - 1 : GuardOK(w, g)
<1> SUFFICES ASSUME NEW g \in 1 .. t - 1, w.c[g].kind = "guard" PROVE GuardOK(w, g)
  BY DEF GuardOK
<1>1. t \in Nat /\ w.c[g] = v.c[g] /\ g \in 1 .. Len(v.c) /\ g + 1 \in 1 .. t
  BY ContinueBelow
<1>2. GuardOK(v, g)
  BY <1>1 DEF GuardsOK
<1> DEFINE a == v.c[g]
<1>3. ASSUME Installed(a), NEW j \in g + 1 .. Here(w)
      PROVE  MarkAt(w, j) >= a.mark /\ GuardsAt(w, j) >= a.guards + 1
  <2>1. CASE j \in 1 .. t
    <3>1. j \in g + 1 .. Here(v) /\ MarkAt(w, j) = MarkAt(v, j) /\ GuardsAt(w, j) = GuardsAt(v, j)
      BY <2>1, <1>1, ContinueBelow
    <3> QED BY <1>1, <1>2, <1>3, <3>1 DEF GuardOK
  <2>2. CASE j \notin 1 .. t
    <3>1. j \in t + 1 .. Here(w)
      BY <1>1, <2>2
    <3> QED BY <1>3, <3>1 DEF GuardsStay
  <2> QED BY <2>1, <2>2
<1>4. Draining(a) => a.ref = a.guards + 1 /\ a.want = w.pending /\ MarkAt(w, g + 1) >= a.mark
  <2>1. Draining(a) => w.pending = v.pending
    BY DEF SamePending
  <2>2. MarkAt(w, g + 1) = MarkAt(v, g + 1)
    BY <1>1, ContinueBelow
  <2> QED BY <1>1, <1>2, <2>1, <2>2 DEF GuardOK, Draining
<1> QED BY <1>1, <1>2, <1>3, <1>4 DEF GuardOK

-----------------------------------------------------------------------------
(* Entering.                                                               *)

Saved(v, a) == IF a.kind = "weh" THEN v.nexc ELSE IF a.kind = "param" THEN v.param ELSE 0

\* w is v inside of a.
Entering(v, w, a) ==
  /\ w \in ControlVM /\ a \in Activation /\ ~ w.bad /\ ~ Draining(a)
  /\ w.c = Append(v.c, a)
  /\ a.mark = Len(v.unwind) /\ a.excs = v.nexc /\ a.depth = v.depth /\ a.guards = v.nh
  /\ w.unwind = IF Unwound(a) THEN Append(v.unwind, [what |-> a.kind, id |-> a.id, saved |-> Saved(v, a)])
                ELSE v.unwind
  /\ w.nexc = v.nexc + One(a.kind = "weh") - One(a.kind = "raise")
  /\ w.depth = v.depth + One(a.kind = "run")
  /\ w.nh = v.nh + One(Installed(a))
  /\ Installed(a) => v.nh < CREME_HANDLERS_CAP
  /\ w.handlers = IF Installed(a)
                  THEN [v.handlers EXCEPT ![v.nh + 1] = [id |-> a.id, depth |-> a.depth, mark |-> a.mark]]
                  ELSE v.handlers
  /\ w.exc = IF a.kind = "weh" THEN [v.exc EXCEPT ![v.nexc + 1] = a.id] ELSE v.exc
  /\ w.param = IF a.kind = "param" THEN a.id ELSE v.param
  /\ w.pending = v.pending /\ w.n >= v.n

\* It may be entered there.
Fits(v, w, a) ==
  /\ HasNumber(a) => a.id \in 1 .. w.n /\ \A j \in 1 .. Len(v.c) : HasNumber(v.c[j]) => v.c[j].id # a.id
  /\ a.kind = "weh" => a.id > v.n
  /\ a.kind = "raise" => v.nexc >= 1 /\ a.ref = v.exc[v.nexc] /\ a.phase \in {"raise", "continuable"}
  /\ a.kind = "tests" => a.id = v.pending
  /\ a.kind \in {"guard", "tests"} =>
       \A j \in 1 .. Len(v.c) : v.c[j].kind # "tests" /\ ~ Draining(v.c[j])
  /\ a.kind \in {"guard", "tests", "raise"} => Len(v.c) >= 1 /\ OfScheme(v.c[Len(v.c)])
  /\ a.kind = "escape" =>
       \E t \in 1 .. Len(v.c) :
         /\ v.c[t].kind = "callcc" /\ v.c[t].id = a.ref
         /\ Kept(v, t, Here(v), ExcsAt(v, t))
         /\ \A j \in t .. Len(v.c) : ~ Installed(v.c[j])

EnteredView(v, w, a) ==
  LET N == Len(v.c) IN
  /\ N \in Nat /\ Len(w.c) = N + 1 /\ Here(v) = N + 1 /\ Here(w) = N + 2
  /\ SameTo(v, w, N) /\ w.c[N + 1] = a /\ SameAt(v, w, N + 1)
  /\ MarkAt(w, N + 2) = MarkAt(v, N + 1) + One(Unwound(a))
  /\ ExcsAt(w, N + 2) = ExcsAt(v, N + 1) + One(a.kind = "weh") - One(a.kind = "raise")
  /\ DepthAt(w, N + 2) = DepthAt(v, N + 1) + One(a.kind = "run")
  /\ GuardsAt(w, N + 2) = GuardsAt(v, N + 1) + One(Installed(a))
  /\ Len(v.unwind) \in Nat /\ MarkAt(v, N + 1) = Len(v.unwind)
  /\ Len(w.unwind) = Len(v.unwind) + One(Unwound(a))
  /\ \A k \in 1 .. Len(v.unwind) : w.unwind[k] = v.unwind[k]
  /\ Unwound(a) => w.unwind[Len(v.unwind) + 1] = [what |-> a.kind, id |-> a.id, saved |-> Saved(v, a)]

LEMMA EnteringView ==
  ASSUME NEW v \in ControlVM, NEW w, NEW a, Entering(v, w, a)
  PROVE  EnteredView(v, w, a)
<1> DEFINE N == Len(v.c)
           item == [what |-> a.kind, id |-> a.id, saved |-> Saved(v, a)]
<1>1. v.c \in Seq(Activation) /\ N \in Nat /\ v.unwind \in Seq(UnwindAction) /\ Len(v.unwind) \in Nat
  BY VMFields
<1>2. w.c = Append(v.c, a) /\ a \in Activation /\ w \in ControlVM
  BY DEF Entering
<1>3. Len(w.c) = N + 1 /\ w.c[N + 1] = a /\ \A j \in 1 .. N : w.c[j] = v.c[j]
  BY <1>1, <1>2, AppendProperties
<1>4. /\ Unwound(a) => w.unwind = Append(v.unwind, item)
      /\ ~ Unwound(a) => w.unwind = v.unwind
  BY DEF Entering
<1> HIDE DEF item
<1>5. /\ Len(w.unwind) = Len(v.unwind) + One(Unwound(a))
      /\ \A k \in 1 .. Len(v.unwind) : w.unwind[k] = v.unwind[k]
      /\ Unwound(a) => w.unwind[Len(v.unwind) + 1] = item
  <2>1. CASE Unwound(a)
    <3>1. w.unwind = Append(v.unwind, item)
      BY <1>4, <2>1
    <3>2. Len(w.unwind) = Len(v.unwind) + 1
      BY <1>1, <3>1
    <3>3. w.unwind[Len(v.unwind) + 1] = item /\ \A k \in 1 .. Len(v.unwind) : w.unwind[k] = v.unwind[k]
      BY <1>1, <3>1
    <3> QED BY <2>1, <3>2, <3>3 DEF One
  <2>2. CASE ~ Unwound(a)
    BY <1>1, <1>4, <2>2 DEF One
  <2> QED BY <2>1, <2>2
<1>6. /\ MarkAt(v, N + 1) = Len(v.unwind) /\ ExcsAt(v, N + 1) = v.nexc
      /\ DepthAt(v, N + 1) = v.depth /\ GuardsAt(v, N + 1) = v.nh
      /\ \A j \in 1 .. N : /\ MarkAt(v, j) = v.c[j].mark /\ ExcsAt(v, j) = v.c[j].excs
                           /\ DepthAt(v, j) = v.c[j].depth /\ GuardsAt(v, j) = v.c[j].guards
  BY AtHere
<1>7. /\ MarkAt(w, N + 2) = Len(w.unwind) /\ ExcsAt(w, N + 2) = w.nexc
      /\ DepthAt(w, N + 2) = w.depth /\ GuardsAt(w, N + 2) = w.nh
      /\ \A j \in 1 .. N + 1 : /\ MarkAt(w, j) = w.c[j].mark /\ ExcsAt(w, j) = w.c[j].excs
                               /\ DepthAt(w, j) = w.c[j].depth /\ GuardsAt(w, j) = w.c[j].guards
  <2>1. Here(w) = N + 2
    BY <1>1, <1>3 DEF Here
  <2> QED BY <1>1, <1>2, <1>3, <2>1, AtHere
<1>8. a.mark = Len(v.unwind) /\ a.excs = v.nexc /\ a.depth = v.depth /\ a.guards = v.nh
  BY DEF Entering
<1>9. SameAt(v, w, N + 1)
  <2> SUFFICES ASSUME NEW j \in 1 .. N + 1
               PROVE  /\ MarkAt(w, j) = MarkAt(v, j) /\ ExcsAt(w, j) = ExcsAt(v, j)
                      /\ DepthAt(w, j) = DepthAt(v, j) /\ GuardsAt(w, j) = GuardsAt(v, j)
    BY DEF SameAt
  <2>1. CASE j = N + 1
    BY <1>3, <1>6, <1>7, <1>8, <2>1
  <2>2. CASE j \in 1 .. N
    BY SMTT(60), <1>3, <1>6, <1>7, <2>2
  <2> QED BY <1>1, <2>1, <2>2
<1>10. SameTo(v, w, N)
  BY <1>1, <1>3 DEF SameTo
<1>11. /\ w.nexc = v.nexc + One(a.kind = "weh") - One(a.kind = "raise")
       /\ w.depth = v.depth + One(a.kind = "run") /\ w.nh = v.nh + One(Installed(a))
  BY DEF Entering
<1>12. Here(v) = N + 1 /\ Here(w) = N + 2
  BY <1>1, <1>3 DEF Here
<1> QED BY <1>1, <1>3, <1>5, <1>6, <1>7, <1>9, <1>10, <1>11, <1>12 DEF EnteredView, item

LEMMA EnterChanges ==
  ASSUME NEW v \in ControlVM, NEW w, NEW a, Entering(v, w, a), ChangesOK(v)
  PROVE  ChangesOK(w)
<1> DEFINE N == Len(v.c)
<1>1. EnteredView(v, w, a)
  BY EnteringView
<1>2. ASSUME NEW j \in 1 .. Len(w.c) PROVE Change(w, j)
  <2>1. CASE j \in 1 .. N
    <3>1. Change(v, j)
      BY <2>1 DEF ChangesOK
    <3>2. w.c[j] = v.c[j] /\ j \in 1 .. N + 1 /\ j + 1 \in 1 .. N + 1
      BY <1>1, <2>1 DEF EnteredView, SameTo
    <3> HIDE DEF N
    <3> QED BY <1>1, <3>1, <3>2 DEF EnteredView, SameAt, Change, N
  <2>2. CASE j = N + 1
    <3>1. j \in 1 .. N + 1 /\ j + 1 = N + 2
      BY <1>1, <2>2 DEF EnteredView
    <3> QED BY <1>1, <2>2, <3>1 DEF EnteredView, SameAt, Change
  <2> QED BY <1>1, <2>1, <2>2 DEF EnteredView
<1>3. 1 \in 1 .. N + 1
  BY <1>1 DEF EnteredView
<1> QED BY <1>1, <1>2, <1>3 DEF EnteredView, SameAt, ChangesOK

LEMMA EnterGuards ==
  ASSUME NEW v \in ControlVM, NEW w, NEW a, Entering(v, w, a), Fits(v, w, a), GuardsOK(v)
  PROVE  GuardsOK(w)
<1> DEFINE N == Len(v.c)
           hs == [v.handlers EXCEPT ![v.nh + 1] = [id |-> a.id, depth |-> a.depth, mark |-> a.mark]]
<1>1. EnteredView(v, w, a)
  BY EnteringView
<1>2. /\ w.handlers = IF Installed(a) THEN hs ELSE v.handlers
      /\ w.pending = v.pending /\ a.guards = v.nh /\ ~ Draining(a) /\ a.mark = Len(v.unwind)
      /\ Installed(a) => v.nh < CREME_HANDLERS_CAP
  BY DEF Entering
<1>3. v.handlers \in [1 .. CREME_HANDLERS_CAP -> Handler] /\ v.nh \in Nat /\ CREME_HANDLERS_CAP \in Nat
  BY VMFields, CapAssumption
<1>4. GuardsAt(v, N + 1) = v.nh
  BY <1>1, AtHere DEF EnteredView
<1>5. ASSUME NEW s \in 1 .. CREME_HANDLERS_CAP, s # v.nh + 1 PROVE w.handlers[s] = v.handlers[s]
  BY <1>2, <1>3, <1>5
<1>6. Installed(a) => w.handlers[v.nh + 1] = [id |-> a.id, depth |-> a.depth, mark |-> a.mark]
  BY <1>2, <1>3
<1> HIDE DEF hs
<1>7. ASSUME NEW g \in 1 .. N, v.c[g].kind = "guard" PROVE GuardOK(w, g)
  <2> DEFINE b == v.c[g]
  <2>1. GuardOK(v, g) /\ b = w.c[g] /\ b \in Activation /\ b.guards \in Nat /\ b.mark \in Nat
    BY <1>1, <1>7, EntryFields DEF GuardsOK, EnteredView, SameTo
  <2>2. /\ b.guards + 1 <= CREME_HANDLERS_CAP
        /\ v.handlers[b.guards + 1] = [id |-> b.id, depth |-> b.depth, mark |-> b.mark]
    BY <1>7, <2>1 DEF GuardOK
  <2>3. w.handlers[b.guards + 1] = v.handlers[b.guards + 1]
    <3>1. CASE ~ Installed(a)
      BY <1>2, <3>1
    <3>2. CASE Installed(a)
      <4>1. Installed(b)
        BY <1>7, <3>2 DEF Fits, Installed, Draining
      <4>2. N + 1 \in g + 1 .. Here(v)
        BY <1>1 DEF EnteredView
      <4>3. v.nh >= b.guards + 1
        BY <1>4, <1>7, <2>1, <4>1, <4>2 DEF GuardOK
      <4> QED BY <1>3, <1>5, <2>1, <2>2, <4>3
    <3> QED BY <3>1, <3>2
  <2>4. Installed(b) => \A j \in g + 1 .. Here(w) : MarkAt(w, j) >= b.mark /\ GuardsAt(w, j) >= b.guards + 1
    <3> SUFFICES ASSUME Installed(b), NEW j \in g + 1 .. Here(w)
                 PROVE  MarkAt(w, j) >= b.mark /\ GuardsAt(w, j) >= b.guards + 1
      OBVIOUS
    <3>1. \A l \in g + 1 .. N + 1 : MarkAt(v, l) >= b.mark /\ GuardsAt(v, l) >= b.guards + 1
      BY <1>1, <1>7, <2>1 DEF GuardOK, EnteredView
    <3>2. CASE j \in g + 1 .. N + 1
      <4>1. j \in 1 .. N + 1
        BY <3>2
      <4> QED BY <1>1, <3>1, <3>2, <4>1 DEF EnteredView, SameAt
    <3>3. CASE j = N + 2
      <4>1. N + 1 \in g + 1 .. N + 1
        BY <1>1 DEF EnteredView
      <4>2. MarkAt(v, N + 1) >= b.mark /\ GuardsAt(v, N + 1) >= b.guards + 1
        BY <3>1, <4>1
      <4>3. MarkAt(v, N + 1) \in Nat /\ GuardsAt(v, N + 1) \in Nat
        BY <1>1, AtFields DEF EnteredView
      <4>4. One(Unwound(a)) \in Nat /\ One(Installed(a)) \in Nat
        BY DEF One
      <4>5. MarkAt(w, N + 2) >= MarkAt(v, N + 1) /\ GuardsAt(w, N + 2) >= GuardsAt(v, N + 1)
        BY <1>1, <4>3, <4>4 DEF EnteredView
      <4>6. MarkAt(w, N + 2) \in Nat /\ GuardsAt(w, N + 2) \in Nat
        BY SMTT(60), <1>1, <4>3, <4>4 DEF EnteredView
      <4> HIDE DEF b, N
      <4> QED BY <2>1, <3>3, <4>2, <4>3, <4>5, <4>6
    <3> QED BY <1>1, <3>2, <3>3 DEF EnteredView
  <2>5. Draining(b) => b.ref = b.guards + 1 /\ b.want = w.pending /\ MarkAt(w, g + 1) >= b.mark
    <3>1. g + 1 \in 1 .. N + 1
      BY <1>1 DEF EnteredView
    <3> QED BY <1>1, <1>2, <1>7, <2>1, <3>1 DEF GuardOK, EnteredView, SameAt
  <2> QED BY <2>1, <2>2, <2>3, <2>4, <2>5 DEF GuardOK
<1>8. GuardOK(w, N + 1)
  <2> SUFFICES ASSUME a.kind = "guard" PROVE GuardOK(w, N + 1)
    BY <1>1 DEF GuardOK, EnteredView
  <2>1. Installed(a)
    BY <1>2 DEF Installed, Draining
  <2>2. \A j \in N + 2 .. Here(w) : MarkAt(w, j) >= a.mark /\ GuardsAt(w, j) >= a.guards + 1
    <3> SUFFICES MarkAt(w, N + 2) >= a.mark /\ GuardsAt(w, N + 2) >= a.guards + 1
      BY <1>1 DEF EnteredView
    <3>1. MarkAt(v, N + 1) \in Nat
      BY <1>1, AtFields DEF EnteredView
    <3> QED BY <1>1, <1>2, <1>3, <1>4, <2>1, <3>1 DEF EnteredView, One
  <2>3. N + 1 + 1 = N + 2
    BY <1>1 DEF EnteredView
  <2>4. w.c[N + 1] = a
    BY <1>1 DEF EnteredView
  <2>5. a.guards + 1 <= CREME_HANDLERS_CAP
    BY <1>2, <1>3, <2>1
  <2> QED BY <1>2, <1>6, <2>1, <2>2, <2>3, <2>4, <2>5 DEF GuardOK
<1>9. ASSUME NEW g \in 1 .. Len(w.c) PROVE GuardOK(w, g)
  <2>1. CASE g \in 1 .. N /\ v.c[g].kind = "guard"
    BY <1>7, <2>1
  <2>2. CASE g \in 1 .. N /\ v.c[g].kind # "guard"
    BY <1>1, <2>2 DEF GuardOK, EnteredView, SameTo
  <2>3. CASE g = N + 1
    BY <1>8, <2>3
  <2> QED BY <1>1, <2>1, <2>2, <2>3 DEF EnteredView
<1> QED BY <1>9 DEF GuardsOK

LEMMA EnterUsed ==
  ASSUME NEW v \in ControlVM, NEW w, NEW a, Entering(v, w, a), UsedOK(v)
  PROVE  UsedOK(w)
<1> DEFINE N == Len(v.c)
<1>1. EnteredView(v, w, a)
  BY EnteringView
<1>2. ASSUME NEW p \in 1 .. N + 1, NEW s \in 1 .. GuardsAt(v, p) PROVE SlotUsed(w, p, s)
  <2>1. SlotUsed(v, p, s)
    BY <1>1 DEF UsedOK, EnteredView
  <2>2. \A g \in 1 .. p - 1 : w.c[g] = v.c[g]
    BY <1>1 DEF EnteredView, SameTo
  <2> QED BY <2>1, <2>2 DEF SlotUsed
<1>3. ASSUME NEW s \in 1 .. GuardsAt(w, N + 2) PROVE SlotUsed(w, N + 2, s)
  <2>1. GuardsAt(v, N + 1) \in Nat /\ N \in Nat
    BY <1>1, AtFields DEF EnteredView
  <2>2. CASE s \in 1 .. GuardsAt(v, N + 1)
    <3>1. SlotUsed(w, N + 1, s)
      BY <1>2, <2>1, <2>2
    <3> QED BY <2>1, <3>1 DEF SlotUsed
  <2>3. CASE s \notin 1 .. GuardsAt(v, N + 1)
    <3>1. Installed(a) /\ s = GuardsAt(v, N + 1) + 1
      BY <1>1, <2>1, <2>3 DEF EnteredView, One
    <3>2. a.guards = GuardsAt(v, N + 1) /\ w.c[N + 1] = a
      BY <1>1, AtHere DEF EnteredView, Entering
    <3>3. N + 1 \in 1 .. N + 2 - 1
      BY <2>1
    <3> QED BY <3>1, <3>2, <3>3 DEF SlotUsed
  <2> QED BY <2>2, <2>3
<1>4. ASSUME NEW p \in 1 .. Here(w), NEW s \in 1 .. GuardsAt(w, p) PROVE SlotUsed(w, p, s)
  <2>1. CASE p \in 1 .. N + 1
    BY <1>1, <1>2, <2>1 DEF EnteredView, SameAt
  <2>2. CASE p = N + 2
    BY <1>3, <2>2
  <2> QED BY <1>1, <2>1, <2>2 DEF EnteredView
<1> QED BY <1>4 DEF UsedOK

LEMMA EnterClauses ==
  ASSUME NEW v \in ControlVM, NEW w, NEW a, Entering(v, w, a), Fits(v, w, a), ClausesOK(v)
  PROVE  ClausesOK(w)
<1> DEFINE N == Len(v.c)
<1>1. EnteredView(v, w, a)
  BY EnteringView
<1>2. w.pending = v.pending /\ ~ Draining(a)
  BY DEF Entering
<1>3. ASSUME NEW j \in 1 .. Len(w.c) PROVE ClauseOK(w, j)
  <2>1. CASE j = N + 1
    <3>1. \A i \in j + 1 .. Len(w.c) : FALSE
      BY <1>1, <2>1 DEF EnteredView
    <3> QED BY <1>1, <1>2, <2>1, <3>1 DEF ClauseOK, EnteredView, Fits
  <2>2. CASE j \in 1 .. N
    <3>1. ClauseOK(v, j) /\ w.c[j] = v.c[j]
      BY <1>1, <2>2 DEF ClausesOK, EnteredView, SameTo
    <3>2. ASSUME v.c[j].kind = "tests" \/ Draining(v.c[j]), NEW i \in j + 1 .. Len(w.c)
          PROVE  w.c[i].kind \notin {"guard", "tests"}
      <4>1. CASE i = N + 1
        BY <1>1, <2>2, <3>2, <4>1 DEF EnteredView, Fits
      <4>2. CASE i # N + 1
        <5>1. i \in j + 1 .. N /\ i \in 1 .. N
          BY <1>1, <2>2, <4>2 DEF EnteredView
        <5> QED BY <1>1, <3>1, <3>2, <5>1 DEF ClauseOK, EnteredView, SameTo
      <4> QED BY <4>1, <4>2
    <3> QED BY <1>2, <3>1, <3>2 DEF ClauseOK
  <2> QED BY <1>1, <2>1, <2>2 DEF EnteredView
<1> QED BY <1>3 DEF ClausesOK

LEMMA EnterContinues ==
  ASSUME NEW v \in ControlVM, NEW w, NEW a, Entering(v, w, a)
  PROVE  w \in ControlVM /\ Continues(v, w, Len(v.c) + 1)
<1> DEFINE N == Len(v.c)
<1>1. EnteredView(v, w, a) /\ w \in ControlVM /\ w.n >= v.n
  BY EnteringView DEF Entering
<1>2. /\ N \in Nat /\ Here(v) = N + 1 /\ Here(w) = N + 2 /\ SameTo(v, w, N) /\ SameAt(v, w, N + 1)
      /\ \A k \in 1 .. Len(v.unwind) : w.unwind[k] = v.unwind[k]
  BY <1>1 DEF EnteredView
<1> HIDE DEF N
<1>3. ASSUME NEW p \in 1 .. N + 1, Held(w, p, N + 2) PROVE Held(v, p, N + 1)
  <2>1. Held(w, p, N + 1)
    BY <1>2, <1>3 DEF Held
  <2>2. N + 1 \in Nat /\ N + 1 \in 0 .. N + 1
    BY <1>2
  <2> QED BY <1>2, <2>1, <2>2, SameKept
<1>4. N + 1 - 1 = N
  BY <1>2
<1> QED BY <1>1, <1>2, <1>3, <1>4 DEF Continues, N

LEMMA OneMore ==
  ASSUME NEW N \in Nat, NEW S, S \subseteq 1 .. N
  PROVE  Cardinality(S) \in Nat /\ Cardinality(S \cup {N + 1}) = Cardinality(S) + 1
<1>1. IsFiniteSet(1 .. N)
  BY FS_Interval
<1>2. IsFiniteSet(S) /\ Cardinality(S) \in Nat
  BY <1>1, FS_Subset, FS_CardinalityType
<1>3. N + 1 \notin S
  OBVIOUS
<1> QED BY <1>2, <1>3, FS_AddElement

\* What entering does to the handlers that are not running.
EnteredHandling(v, w, a) ==
  LET N == Len(v.c)
      S == HandlingBelow(v, N + 1)
      T == HandlingBelow(w, N + 2)
  IN /\ a.kind = "weh" => T = S \cup {N + 1}
     /\ a.kind = "raise" => \E m \in S : T = S \ {m} /\ \A j \in S : j <= m
     /\ a.kind \notin {"weh", "raise"} => T = S

LEMMA EnterHandling ==
  ASSUME NEW v \in ControlVM, NEW w, NEW a, Entering(v, w, a), Fits(v, w, a), Calm(v, Here(v)),
         CountsOK(v), RaisesOK(v), SlotsOK(v), IdsOK(v)
  PROVE  EnteredHandling(v, w, a)
<1> DEFINE N == Len(v.c)
           S == HandlingBelow(v, N + 1)
           T == HandlingBelow(w, N + 2)
<1>1. EnteredView(v, w, a)
  BY EnteringView
<1>2. N \in Nat /\ Here(v) = N + 1 /\ w.c[N + 1] = a /\ \A j \in 1 .. N : w.c[j] = v.c[j]
  BY <1>1 DEF EnteredView, SameTo
<1>3. T = {j \in 1 .. N + 1 : /\ w.c[j].kind = "weh"
                              /\ \A i \in 1 .. N + 1 : ~ (w.c[i].kind = "raise" /\ w.c[i].ref = w.c[j].id)}
  <2>1. N + 2 - 1 = N + 1
    BY <1>2
  <2> QED BY <2>1 DEF HandlingBelow
<1>4. S = {j \in 1 .. N : /\ v.c[j].kind = "weh"
                          /\ \A i \in 1 .. N : ~ (v.c[i].kind = "raise" /\ v.c[i].ref = v.c[j].id)}
  <2>1. N + 1 - 1 = N
    BY <1>2
  <2> QED BY <2>1 DEF HandlingBelow
<1> HIDE DEF N, S, T
<1>5. ASSUME NEW j \in 1 .. N + 1
      PROVE  j \in T <=> \/ j \in S /\ ~ (a.kind = "raise" /\ a.ref = v.c[j].id)
                         \/ j = N + 1 /\ a.kind = "weh" /\ \A i \in 1 .. N : ~ (v.c[i].kind = "raise" /\ v.c[i].ref = a.id)
  <2>1. CASE j \in 1 .. N
    <3>1. j # N + 1 /\ w.c[j] = v.c[j]
      BY <1>2, <2>1
    <3>2. (\A i \in 1 .. N + 1 : ~ (w.c[i].kind = "raise" /\ w.c[i].ref = w.c[j].id)) <=>
            /\ \A i \in 1 .. N : ~ (v.c[i].kind = "raise" /\ v.c[i].ref = v.c[j].id)
            /\ ~ (a.kind = "raise" /\ a.ref = v.c[j].id)
      BY <1>2, <3>1
    <3> QED BY <1>3, <1>4, <2>1, <3>1, <3>2
  <2>2. CASE j = N + 1
    <3>1. w.c[j] = a /\ j \notin S
      BY <1>2, <1>4, <2>2
    <3>2. a.kind = "weh" =>
            ((\A i \in 1 .. N + 1 : ~ (w.c[i].kind = "raise" /\ w.c[i].ref = w.c[j].id)) <=>
             \A i \in 1 .. N : ~ (v.c[i].kind = "raise" /\ v.c[i].ref = a.id))
      BY <1>2, <2>2, <3>1
    <3> QED BY <1>3, <2>2, <3>1, <3>2
  <2> QED BY <1>2, <2>1, <2>2
<1>6. T \subseteq 1 .. N + 1 /\ S \subseteq 1 .. N
  BY <1>3, <1>4
<1>7. ASSUME a.kind = "weh" PROVE T = S \cup {N + 1}
  <2>1. ASSUME NEW i \in 1 .. N, v.c[i].kind = "raise" PROVE v.c[i].ref # a.id
    <3>1. RaiseOK(v, i) /\ v.c[i].ref \in Nat
      BY EntryFields DEF RaisesOK, N
    <3>2. a.id > v.n /\ a \in Activation /\ v.n \in Nat
      BY <1>7, VMFields DEF Fits, Entering
    <3>3. v.c[i].ref <= v.n
      BY <2>1, <3>1 DEF RaiseOK
    <3>4. a.id \in Nat
      BY <3>2 DEF Activation
    <3> QED BY <3>1, <3>2, <3>3, <3>4
  <2>2. N + 1 \in 1 .. N + 1 /\ 1 .. N \subseteq 1 .. N + 1
    BY <1>2
  <2> QED BY <1>5, <1>6, <1>7, <2>1, <2>2
<1>8. ASSUME a.kind = "raise" PROVE \E m \in S : T = S \ {m} /\ \A j \in S : j <= m
  <2>1. v.nexc >= 1 /\ a.ref = v.exc[v.nexc] /\ v.nexc \in Nat
    BY <1>8, VMFields DEF Fits
  <2>2. ExcsAt(v, N + 1) = v.nexc /\ MarkAt(v, N + 1) = Len(v.unwind) /\ Len(v.unwind) \in Nat
    BY <1>2, AtHere, VMFields
  <2>3. Cardinality(S) = v.nexc
    <3>1. CountOK(v, N + 1)
      BY <1>2 DEF CountsOK
    <3> QED BY <1>2, <2>2, <3>1 DEF CountOK, S
  <2>4. PICK m \in S : Rank(v, N + 1, m) = v.nexc /\ \A j \in S : j <= m
    BY <1>2, <2>1, <2>3, TopHandler DEF S
  <2>5. Kept(v, N + 1, N + 1, v.nexc)
    BY <1>2, <2>1, <2>2 DEF Kept
  <2>6. v.exc[v.nexc] = v.c[m].id
    BY <1>2, <2>4, <2>5 DEF SlotsOK, SlotOK, S
  <2>7. ASSUME NEW j \in S, v.c[j].id = v.c[m].id PROVE j = m
    <3>1. j \in 1 .. N /\ m \in 1 .. N /\ v.c[j].kind = "weh" /\ v.c[m].kind = "weh"
      BY <1>4
    <3> QED BY <2>7, <3>1 DEF IdsOK, IdOK, HasNumber, N
  <2>8. \A j \in S : j \in 1 .. N + 1
    BY <1>2, <1>6
  <2>9. \A j \in 1 .. N + 1 : j \in T <=> j \in S \ {m}
    BY <1>5, <1>8, <2>1, <2>6, <2>7
  <2>10. T = S \ {m}
    BY <1>6, <2>8, <2>9
  <2> QED BY <2>4, <2>10
<1>9. ASSUME a.kind \notin {"weh", "raise"} PROVE T = S
  <2>1. \A j \in S : j \in 1 .. N + 1
    BY <1>2, <1>6
  <2> QED BY <1>5, <1>6, <1>9, <2>1
<1> QED BY <1>7, <1>8, <1>9 DEF EnteredHandling, N, S, T

LEMMA EnterCounts ==
  ASSUME NEW v \in ControlVM, NEW w, NEW a, Entering(v, w, a), Fits(v, w, a),
         CountsOK(v), RaisesOK(v), SlotsOK(v), IdsOK(v)
  PROVE  CountsOK(w)
<1> DEFINE N == Len(v.c)
<1>1. EnteredView(v, w, a) /\ w \in ControlVM /\ Continues(v, w, N + 1)
  BY EnteringView, EnterContinues
<1>2. /\ N \in Nat /\ Here(v) = N + 1 /\ Here(w) = N + 2 /\ w.c[N + 1] = a /\ \A j \in 1 .. N : w.c[j] = v.c[j]
      /\ MarkAt(w, N + 2) = MarkAt(v, N + 1) + One(Unwound(a))
      /\ ExcsAt(w, N + 2) = ExcsAt(v, N + 1) + One(a.kind = "weh") - One(a.kind = "raise")
      /\ DepthAt(w, N + 2) = DepthAt(v, N + 1) + One(a.kind = "run")
      /\ GuardsAt(w, N + 2) = GuardsAt(v, N + 1) + One(Installed(a))
  BY <1>1 DEF EnteredView, SameTo
<1>3. CountOK(v, N + 1)
  BY <1>2 DEF CountsOK
<1> DEFINE I == InstalledBelow(v, N + 1)
           U == UnwoundBelow(v, N + 1)
           R == RunsBelow(v, N + 1)
           S == HandlingBelow(v, N + 1)
<1>4. N + 1 \in Nat /\ 1 <= N + 1 /\ N + 1 - 1 = N /\ N + 2 - 1 = N + 1
  BY <1>2
<1>5. /\ I \subseteq 1 .. N /\ U \subseteq 1 .. N /\ R \subseteq 1 .. N /\ S \subseteq 1 .. N
      /\ IsFiniteSet(S) /\ Cardinality(S) \in Nat
  BY <1>4, SetsBelow
<1>6. /\ InstalledBelow(w, N + 2) = IF Installed(a) THEN I \cup {N + 1} ELSE I
      /\ UnwoundBelow(w, N + 2) = IF Unwound(a) THEN U \cup {N + 1} ELSE U
      /\ RunsBelow(w, N + 2) = IF a.kind = "run" THEN R \cup {N + 1} ELSE R
  <2>1. InstalledBelow(w, N + 2) = {j \in 1 .. N + 1 : Installed(w.c[j])} /\ I = {j \in 1 .. N : Installed(v.c[j])}
    BY <1>4 DEF InstalledBelow
  <2>2. UnwoundBelow(w, N + 2) = {j \in 1 .. N + 1 : Unwound(w.c[j])} /\ U = {j \in 1 .. N : Unwound(v.c[j])}
    BY <1>4 DEF UnwoundBelow
  <2>3. RunsBelow(w, N + 2) = {j \in 1 .. N + 1 : w.c[j].kind = "run"} /\ R = {j \in 1 .. N : v.c[j].kind = "run"}
    BY <1>4 DEF RunsBelow
  <2>4. \A j : j \in 1 .. N + 1 <=> j \in 1 .. N \/ j = N + 1
    BY <1>2
  <2>5. N + 1 \notin 1 .. N
    BY <1>2
  <2> HIDE DEF N, I, U, R
  <2>6. InstalledBelow(w, N + 2) = IF Installed(a) THEN I \cup {N + 1} ELSE I
    BY <1>2, <2>1, <2>4, <2>5
  <2>7. UnwoundBelow(w, N + 2) = IF Unwound(a) THEN U \cup {N + 1} ELSE U
    BY <1>2, <2>2, <2>4, <2>5
  <2>8. RunsBelow(w, N + 2) = IF a.kind = "run" THEN R \cup {N + 1} ELSE R
    <3>1. a.kind = "run" => RunsBelow(w, N + 2) = R \cup {N + 1}
      BY <1>2, <2>3, <2>4, <2>5
    <3>2. a.kind # "run" => RunsBelow(w, N + 2) = R
      BY <1>2, <2>3, <2>4, <2>5
    <3> QED BY <3>1, <3>2
  <2> QED BY <2>6, <2>7, <2>8
<1> HIDE DEF N, I, U, R, S
<1>7. /\ Cardinality(InstalledBelow(w, N + 2)) = Cardinality(I) + One(Installed(a))
      /\ Cardinality(UnwoundBelow(w, N + 2)) = Cardinality(U) + One(Unwound(a))
      /\ Cardinality(RunsBelow(w, N + 2)) = Cardinality(R) + One(a.kind = "run")
  <2>1. /\ Cardinality(I) \in Nat /\ Cardinality(I \cup {N + 1}) = Cardinality(I) + 1
        /\ Cardinality(U) \in Nat /\ Cardinality(U \cup {N + 1}) = Cardinality(U) + 1
        /\ Cardinality(R) \in Nat /\ Cardinality(R \cup {N + 1}) = Cardinality(R) + 1
    BY <1>2, <1>5, OneMore
  <2>2. Cardinality(InstalledBelow(w, N + 2)) = Cardinality(I) + One(Installed(a))
    BY <1>6, <2>1 DEF One
  <2>3. Cardinality(UnwoundBelow(w, N + 2)) = Cardinality(U) + One(Unwound(a))
    BY <1>6, <2>1 DEF One
  <2>4. Cardinality(RunsBelow(w, N + 2)) = Cardinality(R) + One(a.kind = "run")
    BY <1>6, <2>1 DEF One
  <2> QED BY <2>2, <2>3, <2>4
<1>8. ASSUME Calm(w, N + 2) PROVE Calm(v, N + 1) /\ ~ Drains(a)
  <2>1. \A j \in 1 .. (N + 2) - 1 : ~ Drains(w.c[j])
    BY <1>8 DEF Calm
  <2>2. N + 1 \in 1 .. N + 1 /\ \A j \in 1 .. N : j \in 1 .. N + 1
    BY <1>2
  <2>3. \A j \in 1 .. N + 1 - 1 : ~ Drains(v.c[j])
    BY <1>2, <1>4, <2>1, <2>2
  <2> QED BY <1>2, <1>4, <2>1, <2>2, <2>3 DEF Calm
<1>9. ASSUME Calm(w, N + 2)
      PROVE  Cardinality(HandlingBelow(w, N + 2)) = Cardinality(S) + One(a.kind = "weh") - One(a.kind = "raise")
  <2> DEFINE T == HandlingBelow(w, N + 2)
  <2>1. EnteredHandling(v, w, a)
    BY <1>2, <1>8, <1>9, EnterHandling
  <2>2. /\ a.kind = "weh" => T = S \cup {N + 1}
        /\ a.kind = "raise" => \E m \in S : T = S \ {m}
        /\ a.kind \notin {"weh", "raise"} => T = S
    BY <2>1 DEF EnteredHandling, S, N
  <2> HIDE DEF T
  <2>3. CASE a.kind = "weh"
    <3>1. N + 1 \notin S
      BY <1>2, <1>5
    <3>2. Cardinality(T) = Cardinality(S) + 1
      BY <1>5, <2>2, <2>3, <3>1, FS_AddElement
    <3> QED BY <1>5, <2>3, <3>2 DEF One, T
  <2>4. CASE a.kind = "raise"
    <3>1. PICK m \in S : T = S \ {m}
      BY <2>2, <2>4
    <3>2. Cardinality(T) = Cardinality(S) - 1
      BY <1>5, <3>1, FS_RemoveElement
    <3> QED BY <1>5, <2>4, <3>2 DEF One, T
  <2>5. CASE a.kind \notin {"weh", "raise"}
    BY <1>5, <2>2, <2>5 DEF One, T
  <2> QED BY <2>3, <2>4, <2>5
<1>10. CountOK(w, N + 2)
  BY <1>2, <1>3, <1>7, <1>8, <1>9 DEF CountOK, I, U, R, S
<1>11. \A p \in 1 .. N + 1 : CountOK(w, p)
  BY <1>1, ContinueCounts DEF N
<1> QED BY <1>2, <1>10, <1>11 DEF CountsOK

LEMMA EnterOwners ==
  ASSUME NEW v \in ControlVM, NEW w, NEW a, Entering(v, w, a), OwnersOK(v)
  PROVE  OwnersOK(w)
<1> DEFINE N == Len(v.c)
<1>1. EnteredView(v, w, a) /\ w \in ControlVM /\ Continues(v, w, N + 1)
  BY EnteringView, EnterContinues
<1>2. N \in Nat /\ Len(w.c) = N + 1
  BY <1>1 DEF EnteredView
<1>3. \A j \in 1 .. N + 1 - 1 : OwnerOK(w, j)
  BY <1>1, ContinueOwners
<1>4. OwnerOK(w, N + 1)
  <2> SUFFICES ASSUME Unwound(a)
               PROVE  /\ MarkAt(w, N + 2) \in 1 .. Len(w.unwind)
                      /\ w.unwind[MarkAt(w, N + 2)].what = a.kind
                      /\ w.unwind[MarkAt(w, N + 2)].id = a.id
    <3>1. w.c[N + 1] = a /\ N + 1 + 1 = N + 2
      BY <1>1 DEF EnteredView
    <3> HIDE DEF N
    <3> QED BY <3>1 DEF OwnerOK
  <2>1. /\ MarkAt(w, N + 2) = Len(v.unwind) + 1 /\ Len(w.unwind) = Len(v.unwind) + 1 /\ Len(v.unwind) \in Nat
        /\ w.unwind[Len(v.unwind) + 1] = [what |-> a.kind, id |-> a.id, saved |-> Saved(v, a)]
    BY <1>1 DEF EnteredView, One
  <2> HIDE DEF N
  <2> QED BY <2>1
<1>5. \A j \in 1 .. N + 1 : j \in 1 .. N + 1 - 1 \/ j = N + 1
  BY <1>2
<1> QED BY <1>2, <1>3, <1>4, <1>5 DEF OwnersOK

\* The actions of handlers that were pushed up to what is entered.
LEMMA EnteredWehs ==
  ASSUME NEW v \in ControlVM, NEW w, NEW a, Entering(v, w, a),
         NEW i \in 1 .. Here(v), MarkAt(v, i) <= Len(v.unwind)
  PROVE  LET S == Wehs(v, i, Here(v))
             k0 == Len(v.unwind) + 1
         IN /\ a.kind # "weh" => Wehs(w, i, Here(w)) = S
            /\ a.kind = "weh" => Wehs(w, i, Here(w)) = S \cup {k0} /\ w.unwind[k0].saved = v.nexc
            /\ \A k \in S : k \in Nat /\ k < k0 /\ w.unwind[k] = v.unwind[k]
<1> DEFINE S == Wehs(v, i, Here(v))
           L == Len(v.unwind)
           T == Wehs(w, i, Here(w))
<1>1. EnteredView(v, w, a) /\ w \in ControlVM
  BY EnteringView DEF Entering
<1>2. /\ L \in Nat /\ MarkAt(w, i) = MarkAt(v, i) /\ MarkAt(v, i) \in Nat
      /\ MarkAt(v, Here(v)) = L /\ MarkAt(w, Here(w)) = L + One(Unwound(a))
      /\ \A k \in 1 .. L : w.unwind[k] = v.unwind[k]
      /\ Unwound(a) => w.unwind[L + 1] = [what |-> a.kind, id |-> a.id, saved |-> Saved(v, a)]
  <2>1. i \in 1 .. Len(v.c) + 1 /\ Here(v) = Len(v.c) + 1 /\ Here(w) = Len(v.c) + 2
    BY <1>1 DEF EnteredView
  <2>2. MarkAt(w, i) = MarkAt(v, i) /\ i \in Nat /\ 1 <= i
    BY <1>1, <2>1, EnterContinues, ContinueBelow
  <2>3. MarkAt(v, Here(v)) = L /\ MarkAt(w, Here(w)) = MarkAt(v, Len(v.c) + 1) + One(Unwound(a))
    BY <1>1, <2>1, AtHere DEF EnteredView
  <2> QED BY <1>1, <2>1, <2>2, <2>3, AtFields DEF EnteredView
<1>3. MarkAt(v, i) <= L
  OBVIOUS
<1>4. S = {k \in MarkAt(v, i) + 1 .. L : v.unwind[k].what = "weh"}
  BY <1>2 DEF Wehs
<1>5. T = {k \in MarkAt(v, i) + 1 .. L + One(Unwound(a)) : w.unwind[k].what = "weh"}
  BY <1>2 DEF Wehs
<1> HIDE DEF S, L, T
<1>6. \A k \in MarkAt(v, i) + 1 .. L : k \in 1 .. L
  BY <1>2
<1>7. \A k \in S : k \in Nat /\ k < L + 1 /\ w.unwind[k] = v.unwind[k]
  BY <1>2, <1>4, <1>6
<1>8. CASE ~ Unwound(a)
  <2>1. a.kind # "weh"
    BY <1>8 DEF Unwound
  <2>2. T = {k \in MarkAt(v, i) + 1 .. L : w.unwind[k].what = "weh"}
    BY <1>2, <1>5, <1>8 DEF One
  <2>3. T = S
    BY <1>2, <1>4, <1>6, <2>2
  <2> QED BY <1>7, <2>1, <2>3 DEF S, L, T
<1>9. CASE Unwound(a)
  <2>1. T = {k \in MarkAt(v, i) + 1 .. L + 1 : w.unwind[k].what = "weh"}
    BY <1>5, <1>9 DEF One
  <2>2. w.unwind[L + 1].what = a.kind /\ w.unwind[L + 1].saved = Saved(v, a)
    BY <1>2, <1>9
  <2>3. \A k : k \in MarkAt(v, i) + 1 .. L + 1 <=> k \in MarkAt(v, i) + 1 .. L \/ k = L + 1
    BY <1>2, <1>3 DEF L
  <2>4. a.kind # "weh" => T = S
    BY <1>2, <1>4, <1>6, <2>1, <2>2, <2>3
  <2>5. a.kind = "weh" => T = S \cup {L + 1}
    BY <1>2, <1>4, <1>6, <2>1, <2>2, <2>3
  <2>6. a.kind = "weh" => w.unwind[L + 1].saved = v.nexc
    BY <2>2 DEF Saved
  <2> QED BY <1>7, <2>4, <2>5, <2>6 DEF S, L, T
<1> QED BY <1>8, <1>9

LEMMA EnterFirsts ==
  ASSUME NEW v \in ControlVM, NEW w, NEW a, Entering(v, w, a), FirstsOK(v)
  PROVE  FirstsOK(w)
<1> DEFINE N == Len(v.c)
           L == Len(v.unwind)
<1>1. EnteredView(v, w, a) /\ w \in ControlVM /\ Continues(v, w, N + 1)
  BY EnteringView, EnterContinues
<1>2. /\ N \in Nat /\ Here(v) = N + 1 /\ Here(w) = N + 2 /\ N + 1 \in Nat /\ N + 1 >= 1
      /\ MarkAt(v, N + 1) = L /\ L \in Nat
      /\ ExcsAt(w, N + 2) = ExcsAt(v, N + 1) + One(a.kind = "weh") - One(a.kind = "raise")
  BY <1>1 DEF EnteredView
<1>3. \A p \in 1 .. N + 1 : \A i \in 1 .. p : FirstOK(w, i, p)
  BY <1>1, ContinueFirsts
<1> HIDE DEF N, L
<1>4. ExcsAt(v, N + 1) \in Nat /\ ExcsAt(v, N + 1) = v.nexc
  BY <1>2, AtFields, AtHere
<1>5. ASSUME NEW i \in 1 .. N + 1, Kept(w, i, N + 2, ExcsAt(w, i)) PROVE FirstOK(w, i, N + 2)
  <2> DEFINE S == Wehs(v, i, N + 1)
             T == Wehs(w, i, N + 2)
             x == ExcsAt(v, i)
  <2>1. i \in 1 .. Here(v) /\ ExcsAt(w, i) = x /\ MarkAt(w, i) = MarkAt(v, i) /\ x \in Nat /\ i \in Nat /\ i >= 1
    BY SMTT(60), <1>1, <1>2, ContinueBelow, AtFields DEF N
  <2>2. Kept(w, i, N + 1, ExcsAt(w, i))
    BY <1>2, <1>5 DEF Kept
  <2>3. Kept(v, i, N + 1, x)
    <3>1. N + 1 \in 1 .. N + 1
      BY <1>2
    <3> QED BY <1>1, <2>1, <2>2, <3>1, ContinueBelow DEF N
  <2>4. MarkAt(v, i) <= L
    <3>1. N + 1 \in i .. N + 1
      BY <1>2
    <3>2. MarkAt(v, i) \in Nat
      BY <2>1, AtFields
    <3> QED BY <1>2, <2>3, <3>1, <3>2 DEF Kept
  <2>5. Held(v, N + 1, N + 1)
    BY <1>2 DEF Held
  <2>6. FirstOK(v, i, N + 1)
    BY <1>2, <2>1 DEF FirstsOK
  <2>7. /\ S = {} => ExcsAt(v, N + 1) = x
        /\ \A k \in S : (\A m \in S : k <= m) => v.unwind[k].saved = x
    BY <1>2, <2>3, <2>5, <2>6 DEF FirstOK
  <2>8. /\ a.kind # "weh" => T = S
        /\ a.kind = "weh" => T = S \cup {L + 1} /\ w.unwind[L + 1].saved = v.nexc
        /\ \A k \in S : k \in Nat /\ k < L + 1 /\ w.unwind[k] = v.unwind[k]
    BY <1>2, <2>1, <2>4, EnteredWehs DEF L
  <2>9. ExcsAt(w, N + 2) >= x
    <3>1. N + 2 \in i .. N + 2
      BY <1>2
    <3> QED BY <1>5, <2>1, <3>1 DEF Kept
  <2> HIDE DEF S, T, x
  <2>10. ASSUME T = {} PROVE ExcsAt(w, N + 2) = x
    <3>1. a.kind # "weh" /\ S = {}
      BY <2>8, <2>10
    <3>2. ExcsAt(v, N + 1) = x
      BY <2>7, <3>1
    <3>3. a.kind # "raise"
      BY <1>2, <1>4, <2>9, <3>1, <3>2 DEF One
    <3> QED BY <1>2, <1>4, <3>1, <3>2, <3>3 DEF One
  <2>11. ASSUME NEW k \in T, \A m \in T : k <= m PROVE w.unwind[k].saved = x
    <3>1. CASE k \in S
      <4>1. \A m \in S : k <= m
        BY <2>8, <2>11
      <4> QED BY <2>7, <2>8, <3>1, <4>1
    <3>2. CASE k \notin S
      <4>1. a.kind = "weh" /\ k = L + 1 /\ w.unwind[k].saved = v.nexc
        BY <2>8, <2>11, <3>2
      <4>2. S = {}
        <5> SUFFICES ASSUME NEW m \in S PROVE FALSE
          OBVIOUS
        <5>1. k <= m /\ m < L + 1 /\ m \in Nat
          BY <2>8, <2>11, <4>1
        <5> QED BY <1>2, <4>1, <5>1
      <4> QED BY <1>4, <2>7, <4>1, <4>2
    <3> QED BY <3>1, <3>2
  <2> QED BY <2>1, <2>10, <2>11 DEF FirstOK, T
<1>6. FirstOK(w, N + 2, N + 2)
  <2>1. MarkAt(w, N + 2) \in Nat
    BY <1>1, <1>2, AtFields
  <2>2. Wehs(w, N + 2, N + 2) = {}
    BY <2>1 DEF Wehs
  <2> QED BY <2>2 DEF FirstOK
<1>7. ASSUME NEW p \in 1 .. N + 2, NEW i \in 1 .. p PROVE FirstOK(w, i, p)
  <2>1. CASE p \in 1 .. N + 1
    BY <1>3, <2>1
  <2>2. CASE p = N + 2 /\ i \in 1 .. N + 1
    BY <1>5, <2>2 DEF FirstOK
  <2>3. CASE p = N + 2 /\ i = N + 2
    BY <1>6, <2>3
  <2> QED BY <1>2, <2>1, <2>2, <2>3
<1> QED BY <1>2, <1>7 DEF FirstsOK

LEMMA EnterSaveds ==
  ASSUME NEW v \in ControlVM, NEW w, NEW a, Entering(v, w, a), SavedsOK(v)
  PROVE  SavedsOK(w)
<1> DEFINE N == Len(v.c)
           L == Len(v.unwind)
<1>1. EnteredView(v, w, a) /\ w \in ControlVM /\ Continues(v, w, N + 1)
  BY EnteringView, EnterContinues
<1>2. /\ N \in Nat /\ Here(v) = N + 1 /\ Here(w) = N + 2 /\ N + 1 \in Nat /\ N + 1 >= 1
      /\ MarkAt(v, N + 1) = L /\ L \in Nat /\ Len(w.unwind) = L + One(Unwound(a))
      /\ \A k \in 1 .. L : w.unwind[k] = v.unwind[k]
      /\ Unwound(a) => w.unwind[L + 1] = [what |-> a.kind, id |-> a.id, saved |-> Saved(v, a)]
  BY <1>1 DEF EnteredView
<1>3. \A p \in 1 .. N + 1 : \A i \in 1 .. p : SavedOK(w, i, p)
  BY <1>1, ContinueSaveds
<1> HIDE DEF N, L
<1>4. ExcsAt(v, N + 1) \in Nat /\ ExcsAt(v, N + 1) = v.nexc /\ ExcsAt(w, N + 1) = v.nexc
  <2>1. N + 1 \in 1 .. N + 1
    BY <1>2
  <2>2. ExcsAt(v, N + 1) \in Nat /\ ExcsAt(v, N + 1) = v.nexc
    BY <1>2, AtFields, AtHere
  <2>3. ExcsAt(w, N + 1) = ExcsAt(v, N + 1)
    BY <1>1, <2>1, ContinueBelow DEF N
  <2> QED BY <2>2, <2>3
<1>5. ASSUME NEW i \in 1 .. N + 1, Held(w, i, N + 2), NEW k \in Wehs(w, i, N + 2)
      PROVE  \E j \in i .. N + 1 : ExcsAt(w, j) <= w.unwind[k].saved
  <2> DEFINE S == Wehs(v, i, N + 1)
             T == Wehs(w, i, N + 2)
  <2>1. i \in 1 .. Here(v) /\ MarkAt(w, i) = MarkAt(v, i) /\ i \in Nat /\ i >= 1
    BY <1>1, <1>2, ContinueBelow DEF N
  <2>2. Held(w, i, N + 1)
    BY <1>2, <1>5 DEF Held
  <2>3. Held(v, i, N + 1)
    <3>1. N + 1 \in 1 .. N + 1
      BY <1>2
    <3> QED BY <1>1, <2>2, <3>1, ContinueBelow DEF N
  <2>4. MarkAt(v, i) <= L
    <3>1. N + 1 \in i .. N + 1
      BY <1>2
    <3>2. MarkAt(v, i) \in Nat
      BY <2>1, AtFields
    <3> QED BY <1>2, <2>3, <3>1, <3>2 DEF Held
  <2>5. Held(v, N + 1, N + 1)
    BY <1>2 DEF Held
  <2>6. SavedOK(v, i, N + 1)
    BY <1>2, <2>1 DEF SavedsOK
  <2>7. \A l \in S : \E j \in i .. N + 1 - 1 : ExcsAt(v, j) <= v.unwind[l].saved
    BY <1>2, <2>3, <2>5, <2>6 DEF SavedOK
  <2>8. /\ a.kind # "weh" => T = S
        /\ a.kind = "weh" => T = S \cup {L + 1} /\ w.unwind[L + 1].saved = v.nexc
        /\ \A l \in S : w.unwind[l] = v.unwind[l]
    BY <1>2, <2>1, <2>4, EnteredWehs DEF L
  <2>9. k \in T
    OBVIOUS
  <2> HIDE DEF S, T
  <2>10. CASE k \in S
    <3>1. PICK j \in i .. N + 1 - 1 : ExcsAt(v, j) <= v.unwind[k].saved
      BY <2>7, <2>10
    <3>2. j \in 1 .. N + 1 /\ j \in i .. N + 1
      BY <1>2
    <3>3. ExcsAt(w, j) = ExcsAt(v, j)
      BY <1>1, <3>2, ContinueBelow DEF N
    <3> QED BY <2>8, <2>10, <3>1, <3>2, <3>3
  <2>11. CASE k \notin S
    <3>1. w.unwind[k].saved = v.nexc
      BY <2>8, <2>9, <2>11
    <3>2. N + 1 \in i .. N + 1
      BY <1>2
    <3> QED BY <1>4, <3>1, <3>2
  <2> QED BY <2>10, <2>11
<1>6. SavedOK(w, N + 2, N + 2)
  <2>1. MarkAt(w, N + 2) \in Nat
    BY <1>1, <1>2, AtFields
  <2>2. Wehs(w, N + 2, N + 2) = {}
    BY <2>1 DEF Wehs
  <2> QED BY <2>2 DEF SavedOK
<1>7. ASSUME NEW p \in 1 .. N + 2, NEW i \in 1 .. p PROVE SavedOK(w, i, p)
  <2>1. CASE p \in 1 .. N + 1
    BY <1>3, <2>1
  <2>2. CASE p = N + 2 /\ i \in 1 .. N + 1
    <3>1. (N + 2) - 1 = N + 1
      BY <1>2
    <3>2. Held(w, i, N + 2) => \A k \in Wehs(w, i, N + 2) : \E j \in i .. (N + 2) - 1 : ExcsAt(w, j) <= w.unwind[k].saved
      BY <1>5, <2>2, <3>1
    <3> QED BY <2>2, <3>2 DEF SavedOK
  <2>3. CASE p = N + 2 /\ i = N + 2
    BY <1>6, <2>3
  <2> QED BY <1>2, <2>1, <2>2, <2>3
<1>8. ASSUME NEW k \in 1 .. Len(w.unwind), w.unwind[k].what = "weh"
      PROVE  w.unwind[k].saved <= CREME_EXC_HANDLERS_CAP
  <2>1. CASE k \in 1 .. L
    BY <1>2, <1>8, <2>1 DEF SavedsOK, L
  <2>2. CASE k \notin 1 .. L
    <3>1. Unwound(a) /\ k = L + 1
      BY <1>2, <2>2 DEF One
    <3>2. w.unwind[k].saved = v.nexc
      BY <1>2, <1>8, <3>1 DEF Saved
    <3> QED BY <3>2, VMFields
  <2> QED BY <2>1, <2>2
<1> QED BY <1>2, <1>7, <1>8 DEF SavedsOK

LEMMA EnterDips ==
  ASSUME NEW v \in ControlVM, NEW w, NEW a, Entering(v, w, a), DipsOK(v)
  PROVE  DipsOK(w)
<1> DEFINE N == Len(v.c)
<1>1. EnteredView(v, w, a) /\ w \in ControlVM /\ Continues(v, w, N + 1) /\ ~ Draining(a)
  BY EnteringView, EnterContinues DEF Entering
<1>2. /\ N \in Nat /\ Len(w.c) = N + 1 /\ w.c[N + 1] = a
      /\ ExcsAt(w, N + 2) = ExcsAt(v, N + 1) + One(a.kind = "weh") - One(a.kind = "raise")
      /\ ExcsAt(w, N + 1) = ExcsAt(v, N + 1)
  BY <1>1 DEF EnteredView, SameAt
<1>3. \A e \in 1 .. N + 1 - 1 : DipOK(w, e)
  BY <1>1, ContinueDips
<1>4. DipOK(w, N + 1)
  <2> SUFFICES ASSUME Drains(a), NEW i \in 1 .. N + 1
               PROVE  \E j \in i .. N + 1 : ExcsAt(w, j) <= ExcsAt(w, N + 2)
    <3>1. N + 1 + 1 = N + 2
      BY <1>2
    <3> QED BY <1>2, <3>1 DEF DipOK
  <2>1. a.kind = "escape"
    BY <1>1 DEF Drains
  <2>2. ExcsAt(v, N + 1) \in Nat
    BY <1>2, AtFields
  <2>3. ExcsAt(w, N + 1) <= ExcsAt(w, N + 2)
    BY <1>2, <2>1, <2>2 DEF One
  <2> QED BY <1>2, <2>3
<1>5. \A e \in 1 .. N + 1 : e \in 1 .. N + 1 - 1 \/ e = N + 1
  BY <1>2
<1> QED BY <1>2, <1>3, <1>4, <1>5 DEF DipsOK

LEMMA EnterEscapes ==
  ASSUME NEW v \in ControlVM, NEW w, NEW a, Entering(v, w, a), Fits(v, w, a), EscapesOK(v)
  PROVE  EscapesOK(w)
<1> DEFINE N == Len(v.c)
<1>1. EnteredView(v, w, a) /\ w \in ControlVM /\ Continues(v, w, N + 1) /\ ~ Draining(a)
  BY EnteringView, EnterContinues DEF Entering
<1>2. /\ N \in Nat /\ Len(w.c) = N + 1 /\ w.c[N + 1] = a /\ \A j \in 1 .. N : w.c[j] = v.c[j]
      /\ MarkAt(w, N + 2) = MarkAt(v, N + 1) + One(Unwound(a)) /\ Here(v) = N + 1
  BY <1>1 DEF EnteredView, SameTo
<1>3. \A e \in 1 .. N + 1 - 1 : EscapeOK(w, e)
  BY <1>1, ContinueEscapes
<1>4. EscapeOK(w, N + 1)
  <2> SUFFICES ASSUME a.kind = "escape" PROVE \E t \in 1 .. N + 1 - 1 : Leads(w, N + 1, t)
    BY <1>2 DEF EscapeOK
  <2>1. PICK t \in 1 .. N : /\ v.c[t].kind = "callcc" /\ v.c[t].id = a.ref
                            /\ Kept(v, t, N + 1, ExcsAt(v, t))
                            /\ \A j \in t .. N : ~ Installed(v.c[j])
    BY <1>2 DEF Fits
  <2>2. t \in 1 .. N + 1 /\ N + 1 \in 1 .. N + 1 /\ N + 1 \in t .. N + 1
    BY <1>2
  <2>3. /\ MarkAt(w, t) = MarkAt(v, t) /\ ExcsAt(w, t) = ExcsAt(v, t)
        /\ Kept(w, t, N + 1, ExcsAt(v, t)) <=> Kept(v, t, N + 1, ExcsAt(v, t))
    BY <1>1, <2>2, ContinueBelow
  <2>4. MarkAt(v, N + 1) >= MarkAt(v, t) /\ MarkAt(v, N + 1) \in Nat /\ MarkAt(v, t) \in Nat
    <3>1. MarkAt(v, N + 1) \in Nat /\ MarkAt(v, t) \in Nat
      BY SMTT(60), <2>2, AtFields
    <3> QED BY <2>1, <2>2, <3>1 DEF Kept
  <2>5. MarkAt(w, N + 2) >= MarkAt(w, t)
    BY <1>2, <2>3, <2>4 DEF Unwound, One
  <2>6. ~ Installed(a)
    BY DEF Installed
  <2>7. \A j \in t .. N + 1 : ~ Installed(w.c[j])
    <3>1. \A j \in t .. N + 1 : (j \in t .. N /\ j \in 1 .. N) \/ j = N + 1
      BY <1>2
    <3> QED BY <1>2, <2>1, <2>6, <3>1
  <2>8. w.c[t].kind = "callcc" /\ w.c[t].id = a.ref
    BY <1>2, <2>1
  <2>9. N + 1 + 1 = N + 2 /\ t \in 1 .. N + 1 - 1
    BY <1>2
  <2> HIDE DEF N
  <2>10. Leads(w, N + 1, t)
    BY <1>2, <2>1, <2>3, <2>5, <2>7, <2>8, <2>9 DEF Leads
  <2> QED BY <2>9, <2>10
<1>5. \A e \in 1 .. N + 1 : e \in 1 .. N + 1 - 1 \/ e = N + 1
  BY <1>2
<1> QED BY <1>2, <1>3, <1>4, <1>5 DEF EscapesOK

LEMMA EnterRaises ==
  ASSUME NEW v \in ControlVM, NEW w, NEW a, Entering(v, w, a), Fits(v, w, a),
         RaisesOK(v), SlotsOK(v), IdsOK(v)
  PROVE  RaisesOK(w)
<1> DEFINE N == Len(v.c)
<1>1. EnteredView(v, w, a) /\ w \in ControlVM /\ Continues(v, w, N + 1) /\ a.excs = v.nexc /\ w.n >= v.n
  BY EnteringView, EnterContinues DEF Entering
<1>2. /\ N \in Nat /\ Len(w.c) = N + 1 /\ w.c[N + 1] = a /\ \A j \in 1 .. N : w.c[j] = v.c[j]
      /\ Here(v) = N + 1
  BY <1>1 DEF EnteredView, SameTo
<1>3. \A r \in 1 .. N + 1 - 1 : RaiseOK(w, r)
  BY <1>1, ContinueRaises
<1>4. RaiseOK(w, N + 1)
  <2> SUFFICES ASSUME a.kind = "raise" PROVE RaiseOK(w, N + 1)
    BY <1>2 DEF RaiseOK
  <2>1. v.nexc >= 1 /\ a.ref = v.exc[v.nexc] /\ v.nexc \in 1 .. CREME_EXC_HANDLERS_CAP
    BY VMFields, CapAssumption DEF Fits
  <2>2. a.excs >= 1 /\ a.ref <= w.n /\ a.phase \in {"raise", "continuable"}
    <3>2. a.phase \in {"raise", "continuable"}
      BY DEF Fits
    <3>1. v.exc[v.nexc] <= v.n /\ v.exc[v.nexc] \in Nat /\ v.n \in Nat /\ w.n \in Nat
      BY <1>1, <2>1, VMFields DEF IdsOK
    <3> QED BY <1>1, <2>1, <3>1, <3>2
  <2>3. ASSUME NEW p \in 1 .. N + 1, NEW x \in HandlingBelow(w, p),
               Calm(w, p), Rank(w, p, x) = a.excs, Kept(w, p, N + 1, a.excs)
        PROVE  a.ref = w.c[x].id
    <3>1. N + 1 \in 1 .. N + 1
      BY <1>2
    <3>2. x \in HandlingBelow(v, p) /\ Calm(v, p) /\ Rank(v, p, x) = v.nexc /\ Kept(v, p, N + 1, v.nexc)
      BY <1>1, <2>3, <3>1, ContinueBelow
    <3>3. v.exc[v.nexc] = v.c[x].id
      BY <1>2, <3>2 DEF SlotsOK, SlotOK
    <3>4. x \in 1 .. N
      BY <1>2, <3>2 DEF HandlingBelow
    <3> QED BY <1>2, <2>1, <3>3, <3>4
  <2> HIDE DEF N
  <2> QED BY <1>2, <2>2, <2>3 DEF RaiseOK
<1>5. \A r \in 1 .. N + 1 : r \in 1 .. N + 1 - 1 \/ r = N + 1
  BY <1>2
<1> QED BY <1>2, <1>3, <1>4, <1>5 DEF RaisesOK

LEMMA EnterSlots ==
  ASSUME NEW v \in ControlVM, NEW w, NEW a, Entering(v, w, a), Fits(v, w, a),
         CountsOK(v), RaisesOK(v), SlotsOK(v), IdsOK(v)
  PROVE  SlotsOK(w)
<1> DEFINE N == Len(v.c)
<1>1. EnteredView(v, w, a) /\ w \in ControlVM /\ Continues(v, w, N + 1)
  BY EnteringView, EnterContinues
<1>2. /\ N \in Nat /\ Here(v) = N + 1 /\ Here(w) = N + 2 /\ w.c[N + 1] = a /\ \A j \in 1 .. N : w.c[j] = v.c[j]
      /\ ExcsAt(w, N + 2) = ExcsAt(v, N + 1) + One(a.kind = "weh") - One(a.kind = "raise")
      /\ ExcsAt(v, N + 1) = v.nexc /\ v.nexc \in Nat /\ N + 1 \in Nat /\ 1 <= N + 1
      /\ N + 1 \in 1 .. N + 1 /\ N + 2 \in Nat /\ 1 <= N + 2
  BY <1>1, AtHere, VMFields DEF EnteredView, SameTo
<1>3. /\ w.exc = IF a.kind = "weh" THEN [v.exc EXCEPT ![v.nexc + 1] = a.id] ELSE v.exc
      /\ v.exc \in [1 .. CREME_EXC_HANDLERS_CAP -> Nat]
      /\ w.nexc = v.nexc + One(a.kind = "weh") - One(a.kind = "raise")
      /\ w.nexc <= CREME_EXC_HANDLERS_CAP /\ CREME_EXC_HANDLERS_CAP \in Nat
  BY <1>1, VMFields, CapAssumption DEF Entering
<1> HIDE DEF N
<1>4. ASSUME NEW k \in Nat, k <= v.nexc PROVE w.exc[k] = v.exc[k]
  BY <1>2, <1>3, <1>4
<1>5. ASSUME a.kind = "weh" PROVE w.exc[v.nexc + 1] = a.id
  <2>1. v.nexc + 1 \in 1 .. CREME_EXC_HANDLERS_CAP
    BY <1>2, <1>3, <1>5 DEF One
  <2> QED BY <1>3, <1>5, <2>1
<1>6. ASSUME NEW p \in 1 .. N + 1, NEW x \in HandlingBelow(v, p), Calm(v, p), Kept(v, p, N + 1, Rank(v, p, x))
      PROVE  w.exc[Rank(v, p, x)] = v.c[x].id
  <2>1. p \in Nat /\ 1 <= p /\ N + 1 \in p .. N + 1
    BY <1>2
  <2>2. Rank(v, p, x) \in Nat
    BY <2>1, RankFields
  <2>3. Rank(v, p, x) <= v.nexc
    BY <1>2, <1>6, <2>1 DEF Kept
  <2>4. v.exc[Rank(v, p, x)] = v.c[x].id
    BY <1>2, <1>6 DEF SlotsOK, SlotOK
  <2> QED BY <1>4, <2>2, <2>3, <2>4
<1>7. ASSUME NEW p \in 1 .. N + 1, NEW x \in HandlingBelow(w, p), Calm(w, p), Kept(w, p, N + 2, Rank(w, p, x))
      PROVE  w.exc[Rank(w, p, x)] = w.c[x].id
  <2>1. x \in HandlingBelow(v, p) /\ Calm(v, p) /\ Rank(w, p, x) = Rank(v, p, x)
    BY <1>1, <1>7, ContinueBelow DEF N
  <2>2. Kept(w, p, N + 1, Rank(w, p, x))
    BY <1>2, <1>7 DEF Kept
  <2>3. Kept(v, p, N + 1, Rank(v, p, x))
    BY <1>1, <1>2, <2>1, <2>2, ContinueBelow DEF N
  <2>4. x \in 1 .. N
    BY <1>2, <2>1 DEF HandlingBelow
  <2> QED BY <1>2, <1>6, <2>1, <2>3, <2>4
<1>8. ASSUME NEW x \in HandlingBelow(w, N + 2), Calm(w, N + 2), Kept(w, N + 2, N + 2, Rank(w, N + 2, x))
      PROVE  w.exc[Rank(w, N + 2, x)] = w.c[x].id
  <2> DEFINE S == HandlingBelow(v, N + 1)
             T == HandlingBelow(w, N + 2)
  <2>1. Calm(v, N + 1)
    <3>1. \A j \in 1 .. (N + 2) - 1 : ~ Drains(w.c[j])
      BY <1>8 DEF Calm
    <3>2. \A j \in 1 .. N + 1 - 1 : j \in 1 .. (N + 2) - 1 /\ j \in 1 .. N
      BY <1>2
    <3> QED BY <1>2, <3>1, <3>2 DEF Calm
  <2>2. EnteredHandling(v, w, a)
    BY <1>2, <2>1, EnterHandling
  <2>3. /\ a.kind = "weh" => T = S \cup {N + 1}
        /\ a.kind = "raise" => \E m \in S : T = S \ {m} /\ \A j \in S : j <= m
        /\ a.kind \notin {"weh", "raise"} => T = S
    BY <2>2 DEF EnteredHandling, N
  <2>4. S \subseteq 1 .. N /\ Cardinality(S) = v.nexc
    <3>1. CountOK(v, N + 1) /\ N + 1 - 1 = N
      BY <1>2 DEF CountsOK
    <3> QED BY <1>2, <2>1, <3>1, SetsBelow DEF CountOK
  <2>5. Rank(w, N + 2, x) = Cardinality({j \in T : j <= x}) /\ Rank(v, N + 1, x) = Cardinality({j \in S : j <= x})
    BY DEF Rank
  <2>6. x \in T
    OBVIOUS
  <2> HIDE DEF S, T
  <2>7. CASE x = N + 1
    <3>1. a.kind = "weh"
      BY <1>2, <2>3, <2>4, <2>6, <2>7
    <3>2. T = S \cup {N + 1}
      BY <2>3, <3>1
    <3>3. {j \in T : j <= x} = S \cup {N + 1}
      BY <1>2, <2>4, <2>7, <3>2
    <3>4. Cardinality(S \cup {N + 1}) = v.nexc + 1
      BY ZenonT(60), <1>2, <2>4, OneMore
    <3> QED BY <1>2, <1>5, <2>5, <2>7, <3>1, <3>3, <3>4
  <2>8. CASE x # N + 1
    <3>1. x \in S /\ x \in 1 .. N
      BY <2>3, <2>4, <2>6, <2>8
    <3>2. {j \in T : j <= x} = {j \in S : j <= x}
      <4>1. CASE a.kind = "weh"
        <5>1. T = S \cup {N + 1} /\ ~ (N + 1 <= x)
          BY <1>2, <2>3, <3>1, <4>1
        <5> QED BY <5>1
      <4>2. CASE a.kind = "raise"
        <5>1. PICK m \in S : T = S \ {m} /\ \A j \in S : j <= m
          BY <2>3, <4>2
        <5>2. m \in 1 .. N /\ x <= m /\ x # m
          BY <2>4, <2>6, <3>1, <5>1
        <5>3. ~ (m <= x)
          BY <3>1, <5>2
        <5> QED BY <5>1, <5>3
      <4>3. CASE a.kind \notin {"weh", "raise"}
        BY <2>3, <4>3
      <4> QED BY <4>1, <4>2, <4>3
    <3>3. Rank(w, N + 2, x) = Rank(v, N + 1, x)
      BY <2>5, <3>2
    <3>4. Rank(v, N + 1, x) <= v.nexc
      BY <1>2, <2>4, RankFields DEF S
    <3>5. MarkAt(v, N + 1) \in Nat
      BY <1>2, AtFields
    <3>6. Kept(v, N + 1, N + 1, Rank(v, N + 1, x))
      BY <1>2, <3>4, <3>5 DEF Kept
    <3> QED BY <1>2, <1>6, <2>1, <3>1, <3>3, <3>6 DEF S
  <2> QED BY <2>7, <2>8
<1>9. ASSUME NEW p \in 1 .. N + 2, NEW x \in HandlingBelow(w, p) PROVE SlotOK(w, p, x)
  <2>1. CASE p \in 1 .. N + 1
    BY <1>2, <1>7, <2>1 DEF SlotOK
  <2>2. CASE p = N + 2
    BY <1>2, <1>8, <2>2 DEF SlotOK
  <2> QED BY <1>2, <2>1, <2>2
<1> QED BY <1>2, <1>9 DEF SlotsOK

LEMMA EnterIds ==
  ASSUME NEW v \in ControlVM, NEW w, NEW a, Entering(v, w, a), Fits(v, w, a), IdsOK(v)
  PROVE  IdsOK(w)
<1> DEFINE N == Len(v.c)
<1>1. EnteredView(v, w, a) /\ w \in ControlVM /\ Continues(v, w, N + 1) /\ w.n >= v.n
  BY EnteringView, EnterContinues DEF Entering
<1>2. /\ N \in Nat /\ Len(w.c) = N + 1 /\ w.c[N + 1] = a /\ \A j \in 1 .. N : w.c[j] = v.c[j]
  BY <1>1 DEF EnteredView, SameTo
<1>3. \A i \in 1 .. N + 1 - 1 : HasNumber(w.c[i]) =>
           /\ w.c[i].id \in 1 .. w.n
           /\ \A j \in 1 .. N + 1 - 1 : HasNumber(w.c[j]) /\ w.c[i].id = w.c[j].id => i = j
  BY <1>1, ContinueIds
<1>4. \A j : j \in 1 .. N + 1 <=> j \in 1 .. N + 1 - 1 \/ j = N + 1
  BY <1>2
<1>5. N + 1 - 1 = N
  BY <1>2
<1>6. HasNumber(a) => a.id \in 1 .. w.n /\ \A j \in 1 .. N : HasNumber(w.c[j]) => w.c[j].id # a.id
  BY <1>2 DEF Fits
<1> HIDE DEF N
<1>7. ASSUME NEW i \in 1 .. N + 1 PROVE IdOK(w, i)
  BY <1>2, <1>3, <1>4, <1>5, <1>6 DEF IdOK
<1>8. ASSUME NEW k \in 1 .. CREME_EXC_HANDLERS_CAP PROVE w.exc[k] <= w.n
  <2>1. /\ w.exc = IF a.kind = "weh" THEN [v.exc EXCEPT ![v.nexc + 1] = a.id] ELSE v.exc
        /\ v.exc \in [1 .. CREME_EXC_HANDLERS_CAP -> Nat] /\ v.n \in Nat /\ w.n \in Nat
    BY <1>1, VMFields DEF Entering
  <2>2. v.exc[k] <= v.n /\ v.exc[k] \in Nat
    BY <2>1 DEF IdsOK
  <2>3. a.kind = "weh" => a.id \in 1 .. w.n
    BY <1>6 DEF HasNumber
  <2>4. w.exc[k] = v.exc[k] \/ (a.kind = "weh" /\ w.exc[k] = a.id)
    BY <2>1
  <2> QED BY <1>1, <2>1, <2>2, <2>3, <2>4
<1> QED BY <1>2, <1>7, <1>8 DEF IdsOK

LEMMA EnterPlaces ==
  ASSUME NEW v \in ControlVM, NEW w, NEW a, Entering(v, w, a), Fits(v, w, a), PlacesOK(v)
  PROVE  PlacesOK(w)
<1> DEFINE N == Len(v.c)
<1>1. EnteredView(v, w, a) /\ w \in ControlVM /\ Continues(v, w, N + 1)
  BY EnteringView, EnterContinues DEF Entering
<1>2. /\ N \in Nat /\ Len(w.c) = N + 1 /\ w.c[N + 1] = a /\ \A j \in 1 .. N : w.c[j] = v.c[j]
  BY <1>1 DEF EnteredView, SameTo
<1>3. \A j \in 1 .. N + 1 - 1 : PlaceOK(w, j)
  BY <1>1, ContinuePlaces
<1>4. PlaceOK(w, N + 1)
  <2> SUFFICES ASSUME a.kind \in {"guard", "tests", "raise"} PROVE N + 1 > 1 /\ OfScheme(w.c[N + 1 - 1])
    BY <1>2 DEF PlaceOK
  <2>1. N >= 1 /\ OfScheme(v.c[N])
    BY DEF Fits
  <2>2. N \in 1 .. N /\ N + 1 - 1 = N
    BY <1>2, <2>1
  <2> QED BY <1>2, <2>1, <2>2
<1>5. \A j \in 1 .. N + 1 : j \in 1 .. N + 1 - 1 \/ j = N + 1
  BY <1>2
<1>6. N >= 1 /\ v.c[1].kind = "run" /\ 1 \in 1 .. N
  BY <1>2 DEF PlacesOK
<1> QED BY <1>2, <1>3, <1>4, <1>5, <1>6 DEF PlacesOK

LEMMA EnterParams ==
  ASSUME NEW v \in ControlVM, NEW w, NEW a, Entering(v, w, a), ParamsOK(v)
  PROVE  ParamsOK(w)
<1> DEFINE L == Len(v.unwind)
<1>1. EnteredView(v, w, a)
  BY EnteringView
<1>2. /\ L \in Nat /\ Len(w.unwind) = L + One(Unwound(a))
      /\ \A k \in 1 .. L : w.unwind[k] = v.unwind[k]
      /\ Unwound(a) => w.unwind[L + 1] = [what |-> a.kind, id |-> a.id, saved |-> Saved(v, a)]
      /\ w.param = IF a.kind = "param" THEN a.id ELSE v.param
  BY <1>1 DEF EnteredView, Entering
<1> HIDE DEF L
<1>3. ASSUME NEW k \in 0 .. L, NEW x, IsLastParam(v, x, k) PROVE IsLastParam(w, x, k)
  <2>1. \A m \in 1 .. k : m \in 1 .. L /\ w.unwind[m] = v.unwind[m]
    BY <1>2
  <2>2. CASE x = 0 /\ \A m \in 1 .. k : v.unwind[m].what # "param"
    BY <2>1, <2>2 DEF IsLastParam
  <2>3. CASE \E m \in 1 .. k : /\ v.unwind[m].what = "param" /\ v.unwind[m].id = x
                               /\ \A l \in m + 1 .. k : v.unwind[l].what # "param"
    <3>1. PICK m \in 1 .. k : /\ v.unwind[m].what = "param" /\ v.unwind[m].id = x
                              /\ \A l \in m + 1 .. k : v.unwind[l].what # "param"
      BY <2>3
    <3>2. \A l \in m + 1 .. k : l \in 1 .. k
      BY <1>2
    <3> QED BY <2>1, <3>1, <3>2 DEF IsLastParam
  <2> QED BY <1>3, <2>2, <2>3 DEF IsLastParam
<1>4. IsLastParam(w, v.param, L)
  <2>1. IsLastParam(v, v.param, L) /\ L \in 0 .. L
    BY <1>2 DEF ParamsOK, L
  <2> QED BY <1>3, <2>1
<1>5. ASSUME NEW k \in 1 .. Len(w.unwind), w.unwind[k].what = "param"
      PROVE  IsLastParam(w, w.unwind[k].saved, k - 1)
  <2>1. CASE k \in 1 .. L
    <3>1. IsLastParam(v, v.unwind[k].saved, k - 1)
      BY <1>2, <1>5, <2>1 DEF ParamsOK, L
    <3>2. k - 1 \in 0 .. L
      BY <1>2, <2>1
    <3> QED BY <1>2, <1>3, <2>1, <3>1, <3>2
  <2>2. CASE k \notin 1 .. L
    <3>1. Unwound(a) /\ k = L + 1
      BY <1>2, <2>2 DEF One
    <3>2. w.unwind[k].saved = v.param /\ k - 1 = L
      BY <1>2, <1>5, <3>1 DEF Saved
    <3> QED BY <1>4, <3>2
  <2> QED BY <2>1, <2>2
<1>6. IsLastParam(w, w.param, Len(w.unwind))
  <2>1. CASE ~ Unwound(a)
    <3>1. Len(w.unwind) = L /\ w.param = v.param
      BY <1>2, <2>1 DEF One, Unwound
    <3> QED BY <1>4, <3>1
  <2>2. CASE Unwound(a) /\ a.kind = "param"
    <3>1. Len(w.unwind) = L + 1 /\ w.param = a.id /\ w.unwind[L + 1].what = "param" /\ w.unwind[L + 1].id = a.id
      BY <1>2, <2>2 DEF One
    <3>2. L + 1 \in 1 .. L + 1 /\ \A l \in L + 1 + 1 .. L + 1 : FALSE
      BY <1>2
    <3> QED BY <3>1, <3>2 DEF IsLastParam
  <2>3. CASE Unwound(a) /\ a.kind # "param"
    <3>1. Len(w.unwind) = L + 1 /\ w.param = v.param /\ w.unwind[L + 1].what # "param"
      BY <1>2, <2>3 DEF One
    <3>2. CASE w.param = 0 /\ \A m \in 1 .. L : w.unwind[m].what # "param"
      <4>1. \A m \in 1 .. L + 1 : m \in 1 .. L \/ m = L + 1
        BY <1>2
      <4> QED BY <3>1, <3>2, <4>1 DEF IsLastParam
    <3>3. CASE \E m \in 1 .. L : /\ w.unwind[m].what = "param" /\ w.unwind[m].id = w.param
                                 /\ \A l \in m + 1 .. L : w.unwind[l].what # "param"
      <4>1. PICK m \in 1 .. L : /\ w.unwind[m].what = "param" /\ w.unwind[m].id = w.param
                                /\ \A l \in m + 1 .. L : w.unwind[l].what # "param"
        BY <3>3
      <4>2. m \in 1 .. L + 1 /\ \A l \in m + 1 .. L + 1 : l \in m + 1 .. L \/ l = L + 1
        BY <1>2
      <4> QED BY <3>1, <4>1, <4>2 DEF IsLastParam
    <3> QED BY <1>4, <3>1, <3>2, <3>3 DEF IsLastParam
  <2> QED BY <2>1, <2>2, <2>3
<1> QED BY <1>5, <1>6 DEF ParamsOK

\* What may be entered keeps the invariant, and is one of the after thunks.
LEMMA EnterKeeps ==
  ASSUME NEW v \in ControlVM, NEW w, NEW a, ControlInv(v), Entering(v, w, a), Fits(v, w, a), AftersOK(w)
  PROVE  ControlInv(w)
<1>1. w \in ControlVM /\ ~ w.bad
  BY DEF Entering
<1>2. /\ ChangesOK(v) /\ GuardsOK(v) /\ UsedOK(v) /\ ClausesOK(v) /\ CountsOK(v) /\ OwnersOK(v)
      /\ FirstsOK(v) /\ SavedsOK(v) /\ DipsOK(v) /\ EscapesOK(v) /\ ParamsOK(v)
      /\ RaisesOK(v) /\ SlotsOK(v) /\ IdsOK(v) /\ PlacesOK(v)
  BY DEF ControlInv
<1>3. ChangesOK(w) /\ GuardsOK(w) /\ UsedOK(w) /\ ClausesOK(w) /\ CountsOK(w) /\ OwnersOK(w)
  BY <1>2, EnterChanges, EnterGuards, EnterUsed, EnterClauses, EnterCounts, EnterOwners
<1>4. FirstsOK(w) /\ SavedsOK(w) /\ DipsOK(w) /\ EscapesOK(w) /\ ParamsOK(w)
  BY <1>2, EnterFirsts, EnterSaveds, EnterDips, EnterEscapes, EnterParams
<1>5. RaisesOK(w) /\ SlotsOK(w) /\ IdsOK(w) /\ PlacesOK(w)
  BY <1>2, EnterRaises, EnterSlots, EnterIds, EnterPlaces
<1> QED BY <1>1, <1>3, <1>4, <1>5 DEF ControlInv

\* The after thunks, where no dynamic-wind is entered or gone on with.
LEMMA SameAfters ==
  ASSUME NEW v \in ControlVM, NEW w \in ControlVM, AftersOK(v), w.after = v.after, w.n >= v.n,
         \A k \in 1 .. Len(w.unwind) : w.unwind[k].what = "wind" =>
           k \in 1 .. Len(v.unwind) /\ w.unwind[k] = v.unwind[k],
         \A j \in 1 .. Len(w.c) : w.c[j].kind = "wind" => \E i \in 1 .. Len(v.c) : w.c[j] = v.c[i]
  PROVE  AftersOK(w)
<1>1. v.n \in Nat /\ w.n \in Nat
  BY VMFields
<1>2. ASSUME NEW id \in 1 .. MaxEntries PROVE w.after[id] <= 1 /\ (id > w.n => w.after[id] = 0)
  <2>1. MaxEntries \in Nat
    BY CapAssumption
  <2> QED BY <1>1, <2>1 DEF AftersOK
<1>3. ASSUME NEW k \in 1 .. Len(w.unwind), w.unwind[k].what = "wind"
      PROVE  /\ w.unwind[k].id \in 1 .. w.n /\ w.after[w.unwind[k].id] = 0
             /\ \A m \in 1 .. Len(w.unwind) :
                  w.unwind[m].what = "wind" /\ w.unwind[m].id = w.unwind[k].id => m = k
  <2>1. k \in 1 .. Len(v.unwind) /\ w.unwind[k] = v.unwind[k]
    BY <1>3
  <2>2. /\ v.unwind[k].id \in 1 .. v.n /\ v.after[v.unwind[k].id] = 0
        /\ \A m \in 1 .. Len(v.unwind) :
             v.unwind[m].what = "wind" /\ v.unwind[m].id = v.unwind[k].id => m = k
    BY <1>3, <2>1 DEF AftersOK
  <2>3. w.unwind[k].id \in 1 .. w.n /\ w.after[w.unwind[k].id] = 0
    BY <1>1, <2>1, <2>2
  <2>4. ASSUME NEW m \in 1 .. Len(w.unwind), w.unwind[m].what = "wind", w.unwind[m].id = w.unwind[k].id
        PROVE  m = k
    <3>1. m \in 1 .. Len(v.unwind) /\ w.unwind[m] = v.unwind[m]
      BY <2>4
    <3> QED BY <2>1, <2>2, <2>4, <3>1
  <2> QED BY <2>3, <2>4
<1>4. ASSUME NEW j \in 1 .. Len(w.c), w.c[j].kind = "wind"
      PROVE  /\ w.c[j].phase = "before" =>
                  /\ w.after[w.c[j].id] = 0
                  /\ \A k \in 1 .. Len(w.unwind) : ~ (w.unwind[k].what = "wind" /\ w.unwind[k].id = w.c[j].id)
             /\ w.c[j].phase = "after" => w.after[w.c[j].id] = 1
  <2>1. PICK i \in 1 .. Len(v.c) : w.c[j] = v.c[i]
    BY <1>4
  <2> QED BY SMTT(60), <1>4, <2>1 DEF AftersOK
<1> QED BY <1>2, <1>3, <1>4 DEF AftersOK

LEMMA EnterAfters ==
  ASSUME NEW v \in ControlVM, NEW w, NEW a, Entering(v, w, a), AftersOK(v), a.kind # "wind", w.after = v.after
  PROVE  AftersOK(w)
<1>1. EnteredView(v, w, a) /\ w \in ControlVM /\ w.n >= v.n
  BY EnteringView DEF Entering
<1>2. /\ Len(v.c) \in Nat /\ Len(w.c) = Len(v.c) + 1 /\ w.c[Len(v.c) + 1] = a /\ \A j \in 1 .. Len(v.c) : w.c[j] = v.c[j]
      /\ Len(v.unwind) \in Nat /\ Len(w.unwind) = Len(v.unwind) + One(Unwound(a))
      /\ \A k \in 1 .. Len(v.unwind) : w.unwind[k] = v.unwind[k]
      /\ Unwound(a) => w.unwind[Len(v.unwind) + 1] = [what |-> a.kind, id |-> a.id, saved |-> Saved(v, a)]
  BY <1>1 DEF EnteredView, SameTo
<1>3. ASSUME NEW k \in 1 .. Len(w.unwind), w.unwind[k].what = "wind"
      PROVE  k \in 1 .. Len(v.unwind) /\ w.unwind[k] = v.unwind[k]
  <2>1. k \in 1 .. Len(v.unwind) \/ (Unwound(a) /\ k = Len(v.unwind) + 1)
    <3>1. CASE Unwound(a)
      <4>1. Len(w.unwind) = Len(v.unwind) + 1
        BY <1>2, <3>1 DEF One
      <4>2. k \in 1 .. Len(v.unwind) + 1 /\ Len(v.unwind) \in Nat
        BY <1>2, <4>1
      <4>3. k \in 1 .. Len(v.unwind) \/ k = Len(v.unwind) + 1
        BY <4>2
      <4> QED BY <3>1, <4>3
    <3>2. CASE ~ Unwound(a)
      BY <1>2, <3>2 DEF One
    <3> QED BY <3>1, <3>2
  <2> QED BY <1>2, <1>3, <2>1
<1>4. ASSUME NEW j \in 1 .. Len(w.c), w.c[j].kind = "wind" PROVE \E i \in 1 .. Len(v.c) : w.c[j] = v.c[i]
  <2>1. j \in 1 .. Len(v.c)
    BY <1>2, <1>4
  <2> QED BY <1>2, <2>1
<1> QED BY <1>1, <1>3, <1>4, SameAfters

-----------------------------------------------------------------------------
(* Leaving.                                                                *)

\* Nothing that t is inside of has been unwound since.
HeldFrom(v, t) == \A j \in t .. Here(v) : MarkAt(v, j) >= MarkAt(v, t)

LEMMA HeldOn ==
  ASSUME NEW v \in ControlVM, NEW t \in 1 .. Here(v), HeldFrom(v, t), NEW p \in 1 .. t
  PROVE  /\ Held(v, p, t) => Held(v, p, Here(v))
         /\ (\A j \in t .. Here(v) : ExcsAt(v, j) >= ExcsAt(v, t)) =>
              \A x \in Nat : Kept(v, p, t, x) => Kept(v, p, Here(v), x)
<1>1. Here(v) \in Nat /\ t \in p .. t
  BY AtHere
<1>2. \A j \in p .. Here(v) : j \in Nat /\ 1 <= j /\ (j \in p .. t \/ j \in t .. Here(v))
  BY <1>1
<1>3. \A j \in p .. Here(v) : MarkAt(v, j) \in Nat /\ ExcsAt(v, j) \in Nat
  BY <1>2, AtFields
<1>4. t \in p .. Here(v) /\ p \in p .. Here(v)
  BY <1>1
<1>5. Held(v, p, t) => Held(v, p, Here(v))
  BY <1>1, <1>2, <1>3, <1>4 DEF Held, HeldFrom
<1>6. ASSUME \A j \in t .. Here(v) : ExcsAt(v, j) >= ExcsAt(v, t), NEW x \in Nat, Kept(v, p, t, x)
      PROVE  Kept(v, p, Here(v), x)
  BY <1>1, <1>2, <1>3, <1>4, <1>6 DEF Kept, HeldFrom
<1> QED BY <1>5, <1>6

\* w is v back at what it was when t was entered.
Left(v, w, t) ==
  /\ w \in ControlVM /\ ~ w.bad /\ t \in 2 .. Len(v.c) /\ HeldFrom(v, t)
  /\ w.c = SubSeq(v.c, 1, t - 1)
  /\ w.depth = v.c[t].depth /\ w.nexc = v.c[t].excs /\ w.nh = v.c[t].guards
  /\ Len(w.unwind) = v.c[t].mark /\ \A k \in 1 .. Len(w.unwind) : w.unwind[k] = v.unwind[k]
  /\ w.handlers = v.handlers /\ w.pending = v.pending /\ w.n >= v.n
  /\ \A k \in 1 .. CREME_EXC_HANDLERS_CAP : w.exc[k] <= w.n

LEMMA LeftContinues ==
  ASSUME NEW v \in ControlVM, NEW w, NEW t, Left(v, w, t)
  PROVE  /\ w \in ControlVM /\ Continues(v, w, t) /\ Here(w) = t /\ Len(w.c) = t - 1 /\ t \in Nat
         /\ Len(w.unwind) <= Len(v.unwind)
<1>1. w \in ControlVM /\ t \in 2 .. Len(v.c) /\ t \in Nat /\ Len(v.c) \in Nat /\ v.c \in Seq(Activation)
  BY VMFields DEF Left
<1>2. Len(w.c) = t - 1 /\ \A j \in 1 .. t - 1 : w.c[j] = v.c[j]
  <2>1. w.c = SubSeq(v.c, 1, t - 1) /\ 1 \in 1 .. Len(v.c) + 1 /\ t - 1 \in 0 .. Len(v.c)
    BY <1>1 DEF Left
  <2> QED BY <1>1, <2>1, SubSeqProperties
<1>3. Here(w) = t /\ Here(v) = Len(v.c) + 1
  BY <1>1, <1>2 DEF Here
<1>4. /\ \A j \in 1 .. t - 1 : /\ MarkAt(w, j) = w.c[j].mark /\ ExcsAt(w, j) = w.c[j].excs
                               /\ DepthAt(w, j) = w.c[j].depth /\ GuardsAt(w, j) = w.c[j].guards
      /\ MarkAt(w, t) = Len(w.unwind) /\ ExcsAt(w, t) = w.nexc /\ DepthAt(w, t) = w.depth /\ GuardsAt(w, t) = w.nh
  BY <1>1, <1>2, <1>3, AtHere
<1>5. \A j \in 1 .. Len(v.c) : /\ MarkAt(v, j) = v.c[j].mark /\ ExcsAt(v, j) = v.c[j].excs
                               /\ DepthAt(v, j) = v.c[j].depth /\ GuardsAt(v, j) = v.c[j].guards
  BY AtHere
<1>6. w.depth = v.c[t].depth /\ w.nexc = v.c[t].excs /\ w.nh = v.c[t].guards /\ Len(w.unwind) = v.c[t].mark
  BY DEF Left
<1>7. SameAt(v, w, t)
  <2> SUFFICES ASSUME NEW j \in 1 .. t
               PROVE  /\ MarkAt(w, j) = MarkAt(v, j) /\ ExcsAt(w, j) = ExcsAt(v, j)
                      /\ DepthAt(w, j) = DepthAt(v, j) /\ GuardsAt(w, j) = GuardsAt(v, j)
    BY DEF SameAt
  <2>1. CASE j = t
    <3>1. t \in 1 .. Len(v.c)
      BY <1>1
    <3> QED BY <1>4, <1>5, <1>6, <2>1, <3>1
  <2>2. CASE j # t
    <3>1. j \in 1 .. t - 1 /\ j \in 1 .. Len(v.c)
      BY <1>1, <2>2
    <3> QED BY <1>2, <1>4, <1>5, <3>1
  <2> QED BY <2>1, <2>2
<1>8. SameTo(v, w, t - 1)
  BY <1>1, <1>2 DEF SameTo
<1>9. ASSUME NEW p \in 1 .. t, Held(w, p, t) PROVE Held(v, p, Here(v))
  <2>1. t \in 0 .. t /\ t \in 1 .. Here(v) /\ HeldFrom(v, t)
    BY <1>1, <1>3 DEF Left
  <2>2. Held(v, p, t)
    BY <1>1, <1>7, <1>9, <2>1, SameKept
  <2> QED BY <2>1, <2>2, HeldOn
<1>10. Len(w.unwind) <= Len(v.unwind)
  <2>1. Here(v) \in t .. Here(v) /\ t \in 1 .. Len(v.c)
    BY <1>1, <1>3
  <2>2. MarkAt(v, Here(v)) >= MarkAt(v, t) /\ MarkAt(v, Here(v)) = Len(v.unwind) /\ MarkAt(v, t) = v.c[t].mark
    BY <1>5, <2>1, AtHere DEF Left, HeldFrom
  <2> QED BY <1>6, <2>2, VMFields
<1>11. \A k \in 1 .. Len(v.unwind) : k <= Len(w.unwind) => w.unwind[k] = v.unwind[k]
  <2>1. \A k \in 1 .. Len(w.unwind) : w.unwind[k] = v.unwind[k]
    BY DEF Left
  <2>2. Len(w.unwind) \in Nat /\ Len(v.unwind) \in Nat
    BY <1>1, VMFields
  <2> QED BY <2>1, <2>2
<1>12. w.n >= v.n /\ t \in 1 .. Here(v) /\ t \in 1 .. Here(w) /\ Here(w) <= t + 1
  BY <1>1, <1>3 DEF Left
<1>13. Continues(v, w, t)
  BY <1>3, <1>7, <1>8, <1>9, <1>11, <1>12 DEF Continues
<1> QED BY <1>1, <1>2, <1>3, <1>10, <1>13

LEMMA LeaveKeeps ==
  ASSUME NEW v \in ControlVM, NEW w, NEW t, ControlInv(v), Left(v, w, t), SlotsOK(w), ParamsOK(w), AftersOK(w)
  PROVE  ControlInv(w)
<1>1. /\ w \in ControlVM /\ Continues(v, w, t) /\ Here(w) = t /\ Len(w.c) = t - 1 /\ t \in Nat /\ ~ w.bad
      /\ Len(w.unwind) <= Len(v.unwind) /\ t >= 2
  <2>1. t \in 2 .. Len(v.c) /\ ~ w.bad
    BY DEF Left
  <2>2. t >= 2
    BY <2>1, VMFields
  <2> QED BY <2>1, <2>2, LeftContinues
<1>2. /\ ChangesOK(v) /\ GuardsOK(v) /\ UsedOK(v) /\ ClausesOK(v) /\ CountsOK(v) /\ OwnersOK(v)
      /\ FirstsOK(v) /\ SavedsOK(v) /\ DipsOK(v) /\ EscapesOK(v)
      /\ RaisesOK(v) /\ IdsOK(v) /\ PlacesOK(v)
  BY DEF ControlInv
<1>3. ChangesOK(w)
  BY <1>1, <1>2, ContinueChanges DEF ChangesOK
<1>4. GuardsOK(w)
  <2>1. SamePending(v, w, t) /\ w.handlers = v.handlers
    BY DEF Left, SamePending
  <2>2. GuardsStay(v, w, t)
    BY <1>1 DEF GuardsStay
  <2> QED BY <1>1, <1>2, <2>1, <2>2, ContinueGuards DEF GuardsOK
<1>5. UsedOK(w)
  BY <1>1, <1>2, ContinueUsed DEF UsedOK
<1>6. ClausesOK(w)
  <2>1. SamePending(v, w, t)
    BY DEF Left, SamePending
  <2> QED BY <1>1, <1>2, <2>1, ContinueClauses DEF ClausesOK, ClauseOK
<1>7. CountsOK(w)
  BY <1>1, <1>2, ContinueCounts DEF CountsOK
<1>8. OwnersOK(w)
  BY <1>1, <1>2, ContinueOwners DEF OwnersOK
<1>9. FirstsOK(w)
  BY <1>1, <1>2, ContinueFirsts DEF FirstsOK
<1>10. SavedsOK(w)
  <2>1. \A p \in 1 .. t : \A i \in 1 .. p : SavedOK(w, i, p)
    BY <1>1, <1>2, ContinueSaveds
  <2>2. Len(w.unwind) \in Nat /\ Len(v.unwind) \in Nat
    BY <1>1, VMFields
  <2>3. \A k \in 1 .. Len(w.unwind) : k \in 1 .. Len(v.unwind) /\ w.unwind[k] = v.unwind[k]
    BY <1>1, <2>2 DEF Left
  <2> QED BY <1>1, <1>2, <2>1, <2>3 DEF SavedsOK
<1>11. DipsOK(w) /\ EscapesOK(w) /\ RaisesOK(w)
  BY <1>1, <1>2, ContinueDips, ContinueEscapes, ContinueRaises DEF DipsOK, EscapesOK, RaisesOK
<1>12. IdsOK(w)
  <2>1. \A i \in 1 .. t - 1 : HasNumber(w.c[i]) =>
          /\ w.c[i].id \in 1 .. w.n
          /\ \A j \in 1 .. t - 1 : HasNumber(w.c[j]) /\ w.c[i].id = w.c[j].id => i = j
    BY <1>1, <1>2, ContinueIds
  <2>2. \A i \in 1 .. Len(w.c) : IdOK(w, i)
    BY <1>1, <2>1 DEF IdOK
  <2>3. \A k \in 1 .. CREME_EXC_HANDLERS_CAP : w.exc[k] <= w.n
    BY DEF Left
  <2> QED BY <2>2, <2>3 DEF IdsOK
<1>13. PlacesOK(w)
  <2>1. 1 \in 1 .. t - 1
    BY <1>1
  <2>2. w.c[1] = v.c[1]
    BY <1>1, <2>1, ContinueBelow
  <2> QED BY <1>1, <1>2, <2>2, ContinuePlaces DEF PlacesOK
<1> QED BY <1>1, <1>3, <1>4, <1>5, <1>6, <1>7, <1>8, <1>9, <1>10, <1>11, <1>12, <1>13 DEF ControlInv

\* The handlers are those that were there, if none is installed in between.
LEMMA LeaveSlots ==
  ASSUME NEW v \in ControlVM, NEW w, NEW t, Left(v, w, t), SlotsOK(v), w.exc = v.exc,
         \A j \in t .. Here(v) : ExcsAt(v, j) >= ExcsAt(v, t)
  PROVE  SlotsOK(w)
<1>1. w \in ControlVM /\ Continues(v, w, t) /\ Here(w) = t /\ t \in Nat /\ HeldFrom(v, t) /\ t \in 1 .. Here(v)
  BY LeftContinues DEF Left, Continues
<1>2. ASSUME NEW p \in 1 .. t, NEW x \in Nat, Kept(w, p, t, x) PROVE Kept(v, p, Here(v), x)
  <2>1. t \in 1 .. t
    BY <1>1
  <2>2. Kept(v, p, t, x)
    BY <1>1, <1>2, <2>1, ContinueBelow
  <2> QED BY <1>1, <2>2, HeldOn
<1> QED BY <1>1, <1>2, ContinueSlots DEF SlotsOK

\* The parameter, when the unwind stack is the same or loses its last action.
LEMMA SameParams ==
  ASSUME NEW v \in ControlVM, NEW w, ParamsOK(v), w.unwind = v.unwind, w.param = v.param
  PROVE  ParamsOK(w)
BY DEF ParamsOK, IsLastParam

LEMMA PoppedParams ==
  ASSUME NEW v \in ControlVM, NEW w, ParamsOK(v), Len(v.unwind) >= 1, Len(w.unwind) = Len(v.unwind) - 1,
         \A k \in 1 .. Len(w.unwind) : w.unwind[k] = v.unwind[k],
         w.param = IF v.unwind[Len(v.unwind)].what = "param" THEN v.unwind[Len(v.unwind)].saved ELSE v.param
  PROVE  ParamsOK(w)
<1> DEFINE L == Len(v.unwind)
<1>1. L \in Nat /\ L >= 1 /\ Len(w.unwind) = L - 1 /\ L \in 1 .. L
  BY VMFields
<1> HIDE DEF L
<1>2. \A k \in 1 .. L - 1 : w.unwind[k] = v.unwind[k]
  BY <1>1
<1>3. ASSUME NEW k \in 0 .. L - 1, NEW x, IsLastParam(v, x, k) PROVE IsLastParam(w, x, k)
  <2>1. \A m \in 1 .. k : w.unwind[m] = v.unwind[m]
    BY <1>1, <1>2
  <2>2. CASE x = 0 /\ \A m \in 1 .. k : v.unwind[m].what # "param"
    BY <2>1, <2>2 DEF IsLastParam
  <2>3. CASE \E m \in 1 .. k : /\ v.unwind[m].what = "param" /\ v.unwind[m].id = x
                               /\ \A l \in m + 1 .. k : v.unwind[l].what # "param"
    <3>1. PICK m \in 1 .. k : /\ v.unwind[m].what = "param" /\ v.unwind[m].id = x
                              /\ \A l \in m + 1 .. k : v.unwind[l].what # "param"
      BY <2>3
    <3>2. \A l \in m + 1 .. k : l \in 1 .. k
      BY <1>1
    <3> QED BY <2>1, <3>1, <3>2 DEF IsLastParam
  <2> QED BY <1>3, <2>2, <2>3 DEF IsLastParam
<1>4. IsLastParam(v, w.param, L - 1)
  <2>1. CASE v.unwind[L].what = "param"
    BY <1>1, <2>1 DEF ParamsOK, L
  <2>2. CASE v.unwind[L].what # "param"
    <3>1. IsLastParam(v, v.param, L) /\ w.param = v.param
      BY <2>2 DEF ParamsOK, L
    <3>2. CASE v.param = 0 /\ \A m \in 1 .. L : v.unwind[m].what # "param"
      <4>1. \A m \in 1 .. L - 1 : m \in 1 .. L
        BY <1>1
      <4> QED BY <3>1, <3>2, <4>1 DEF IsLastParam
    <3>3. CASE \E m \in 1 .. L : /\ v.unwind[m].what = "param" /\ v.unwind[m].id = v.param
                                 /\ \A l \in m + 1 .. L : v.unwind[l].what # "param"
      <4>1. PICK m \in 1 .. L : /\ v.unwind[m].what = "param" /\ v.unwind[m].id = v.param
                                /\ \A l \in m + 1 .. L : v.unwind[l].what # "param"
        BY <3>3
      <4>2. m # L
        BY <2>2, <4>1
      <4>3. m \in 1 .. L - 1 /\ \A l \in m + 1 .. L - 1 : l \in m + 1 .. L
        BY <1>1, <4>2
      <4> QED BY <3>1, <4>1, <4>3 DEF IsLastParam
    <3> QED BY <3>1, <3>2, <3>3 DEF IsLastParam
  <2> QED BY <2>1, <2>2
<1>5. IsLastParam(w, w.param, L - 1)
  <2>1. L - 1 \in 0 .. L - 1
    BY <1>1
  <2> QED BY <1>3, <1>4, <2>1
<1>6. ASSUME NEW k \in 1 .. L - 1, w.unwind[k].what = "param" PROVE IsLastParam(w, w.unwind[k].saved, k - 1)
  <2>1. k \in 1 .. L /\ k - 1 \in 0 .. L - 1
    BY <1>1
  <2>2. IsLastParam(v, v.unwind[k].saved, k - 1)
    BY <1>2, <1>6, <2>1 DEF ParamsOK, L
  <2> QED BY <1>2, <1>3, <2>1, <2>2
<1> QED BY <1>1, <1>5, <1>6 DEF ParamsOK

-----------------------------------------------------------------------------
(* Unwinding: what is at t drains the unwind stack.                        *)

DrainsAt(v, w, t) ==
  /\ w \in ControlVM /\ ~ w.bad /\ Continues(v, w, t) /\ Len(w.c) = t /\ Drains(w.c[t])
  /\ w.nh = GuardsAt(v, t) /\ w.handlers = v.handlers /\ w.exc = v.exc
  /\ SamePending(v, w, t) /\ GuardsStay(v, w, t) /\ GuardOK(w, t)
  /\ \A i \in 1 .. t : FirstOK(w, i, t + 1) /\ SavedOK(w, i, t + 1)
  /\ DipOK(w, t) /\ EscapeOK(w, t)
  /\ \A k \in 1 .. Len(w.unwind) : w.unwind[k].what = "weh" => w.unwind[k].saved <= CREME_EXC_HANDLERS_CAP
  /\ \A p \in 1 .. t : \A x \in Nat : Kept(w, p, Here(w), x) => Kept(v, p, Here(v), x)

LEMMA DrainKeeps ==
  ASSUME NEW v \in ControlVM, NEW w, NEW t, ControlInv(v), DrainsAt(v, w, t),
         ClausesOK(w), IdsOK(w), PlacesOK(w), ParamsOK(w), AftersOK(w)
  PROVE  ControlInv(w)
<1>1. /\ w \in ControlVM /\ ~ w.bad /\ Continues(v, w, t) /\ Len(w.c) = t /\ Drains(w.c[t])
      /\ w.nh = GuardsAt(v, t) /\ w.handlers = v.handlers /\ w.exc = v.exc
  BY DEF DrainsAt
<1>2. /\ t \in Nat /\ t >= 1 /\ Here(w) = t + 1 /\ GuardsAt(w, t + 1) = w.nh /\ GuardsAt(w, t) = w.nh /\ w.nh \in Nat
      /\ t + 1 - 1 = t /\ t \in 1 .. t
  <2>1. t \in Nat /\ t >= 1 /\ Here(w) = t + 1
    BY <1>1, ContinueBelow DEF Here
  <2>2. GuardsAt(w, t + 1) = w.nh /\ w.nh \in Nat
    BY <1>1, <2>1, AtHere, VMFields
  <2>3. t \in 1 .. t
    BY <2>1
  <2>4. GuardsAt(w, t) = GuardsAt(v, t)
    BY <1>1, <2>3, ContinueBelow
  <2> QED BY <1>1, <2>1, <2>2, <2>3, <2>4
<1>3. /\ ChangesOK(v) /\ GuardsOK(v) /\ UsedOK(v) /\ ClausesOK(v) /\ CountsOK(v) /\ OwnersOK(v)
      /\ FirstsOK(v) /\ SavedsOK(v) /\ DipsOK(v) /\ EscapesOK(v)
      /\ RaisesOK(v) /\ SlotsOK(v)
  BY DEF ControlInv
<1>4. w.c[t].kind \in {"escape", "guard"} /\ ~ Installed(w.c[t]) /\ ~ Unwound(w.c[t])
  BY <1>1 DEF Drains, Draining, Installed, Unwound
<1>5. /\ \A j \in 1 .. t : j \in 1 .. t - 1 \/ j = t
      /\ \A j \in 1 .. t + 1 : j \in 1 .. t \/ j = t + 1
  BY <1>2
<1>6. ~ Calm(w, t + 1)
  BY <1>1, <1>2 DEF Calm
<1>7. ChangesOK(w)
  <2>1. Change(w, t)
    BY <1>1, <1>2, <1>4 DEF Change, One
  <2> QED BY <1>1, <1>3, <1>5, <2>1, ContinueChanges DEF ChangesOK
<1>8. GuardsOK(w)
  <2>1. SamePending(v, w, t) /\ GuardsStay(v, w, t) /\ GuardOK(w, t)
    BY DEF DrainsAt
  <2> QED BY <1>1, <1>3, <1>5, <2>1, ContinueGuards DEF GuardsOK
<1>9. UsedOK(w)
  <2>1. \A p \in 1 .. t : \A s \in 1 .. GuardsAt(w, p) : SlotUsed(w, p, s)
    BY <1>1, <1>3, ContinueUsed
  <2>2. ASSUME NEW s \in 1 .. GuardsAt(w, t + 1) PROVE SlotUsed(w, t + 1, s)
    <3>1. SlotUsed(w, t, s)
      BY <1>2, <2>1
    <3>2. \A g \in 1 .. t - 1 : g \in 1 .. (t + 1) - 1
      BY <1>2
    <3> QED BY <3>1, <3>2 DEF SlotUsed
  <2> QED BY <1>2, <1>5, <2>1, <2>2 DEF UsedOK
<1>10. CountsOK(w)
  <2>1. \A p \in 1 .. t : CountOK(w, p)
    BY <1>1, <1>3, ContinueCounts
  <2>2. InstalledBelow(w, t + 1) = InstalledBelow(w, t)
    BY <1>2, <1>4, <1>5 DEF InstalledBelow
  <2>3. CountOK(w, t + 1)
    BY <1>2, <1>6, <2>1, <2>2 DEF CountOK
  <2> QED BY <1>2, <1>5, <2>1, <2>3 DEF CountsOK
<1>11. OwnersOK(w)
  <2>1. OwnerOK(w, t)
    BY <1>4 DEF OwnerOK
  <2> QED BY <1>1, <1>3, <1>5, <2>1, ContinueOwners DEF OwnersOK
<1>12. MarkAt(w, t + 1) \in Nat /\ Wehs(w, t + 1, t + 1) = {}
  <2>1. MarkAt(w, t + 1) \in Nat
    BY <1>1, <1>2, AtFields
  <2> QED BY <2>1 DEF Wehs
<1>13. FirstsOK(w)
  <2>1. \A p \in 1 .. t : \A i \in 1 .. p : FirstOK(w, i, p)
    BY <1>1, <1>3, ContinueFirsts
  <2>2. \A i \in 1 .. t : FirstOK(w, i, t + 1)
    BY DEF DrainsAt
  <2>3. FirstOK(w, t + 1, t + 1)
    BY <1>12 DEF FirstOK
  <2> QED BY <1>2, <1>5, <2>1, <2>2, <2>3 DEF FirstsOK
<1>14. SavedsOK(w)
  <2>1. \A p \in 1 .. t : \A i \in 1 .. p : SavedOK(w, i, p)
    BY <1>1, <1>3, ContinueSaveds
  <2>2. /\ \A i \in 1 .. t : SavedOK(w, i, t + 1)
        /\ \A k \in 1 .. Len(w.unwind) : w.unwind[k].what = "weh" => w.unwind[k].saved <= CREME_EXC_HANDLERS_CAP
    BY DEF DrainsAt
  <2>3. SavedOK(w, t + 1, t + 1)
    BY <1>12 DEF SavedOK
  <2> QED BY <1>2, <1>5, <2>1, <2>2, <2>3 DEF SavedsOK
<1>15. DipsOK(w) /\ EscapesOK(w)
  <2>1. DipOK(w, t) /\ EscapeOK(w, t)
    BY DEF DrainsAt
  <2> QED BY <1>1, <1>3, <1>5, <2>1, ContinueDips, ContinueEscapes DEF DipsOK, EscapesOK
<1>16. RaisesOK(w)
  <2>1. RaiseOK(w, t)
    BY <1>4 DEF RaiseOK
  <2> QED BY <1>1, <1>3, <1>5, <2>1, ContinueRaises DEF RaisesOK
<1>17. SlotsOK(w)
  <2>1. \A p \in 1 .. t : \A x \in Nat : Kept(w, p, Here(w), x) => Kept(v, p, Here(v), x)
    BY DEF DrainsAt
  <2>2. \A p \in 1 .. t : \A x \in HandlingBelow(w, p) : SlotOK(w, p, x)
    BY <1>1, <1>3, <2>1, ContinueSlots
  <2>3. \A x : SlotOK(w, t + 1, x)
    BY <1>6 DEF SlotOK
  <2> QED BY <1>2, <1>5, <2>2, <2>3 DEF SlotsOK
<1> QED BY <1>1, <1>7, <1>8, <1>9, <1>10, <1>11, <1>13, <1>14, <1>15, <1>16, <1>17 DEF ControlInv

\* w is v after the jump to the guard at g, which it has still to unwind to.
Jumped(v, w, g) ==
  /\ w \in ControlVM /\ ~ w.bad /\ g \in 1 .. Len(v.c) /\ Installed(v.c[g])
  /\ v.nh = v.c[g].guards + 1 /\ w.nh = v.c[g].guards
  /\ Len(w.c) = g /\ \A j \in 1 .. g - 1 : w.c[j] = v.c[j]
  /\ w.c[g] = [v.c[g] EXCEPT !.ref = v.nh, !.want = w.pending]
  /\ w.unwind = v.unwind /\ w.nexc = v.nexc /\ w.depth = v.depth
  /\ w.handlers = v.handlers /\ w.exc = v.exc /\ w.param = v.param /\ w.after = v.after /\ w.n >= v.n
  /\ \A j \in g .. Here(v) : ExcsAt(v, j) >= ExcsAt(v, g)

JumpedView(v, w, g) ==
  /\ w \in ControlVM /\ ~ w.bad /\ g \in Nat /\ g >= 1 /\ g \in 1 .. Len(v.c) /\ Len(w.c) = g /\ Here(w) = g + 1
  /\ Draining(w.c[g]) /\ w.c[g].ref = v.nh /\ w.c[g].want = w.pending /\ w.c[g].id = v.c[g].id
  /\ w.c[g].kind = "guard" /\ w.c[g].depth = v.c[g].depth /\ w.c[g].mark = v.c[g].mark /\ w.c[g].guards = v.c[g].guards
  /\ \A j \in 1 .. g - 1 : w.c[j] = v.c[j]
  /\ SameTo(v, w, g - 1) /\ SameAt(v, w, g)
  /\ MarkAt(w, g + 1) = MarkAt(v, Here(v)) /\ ExcsAt(w, g + 1) = ExcsAt(v, Here(v)) /\ GuardsAt(w, g + 1) = v.c[g].guards
  /\ HeldFrom(v, g) /\ g \in 1 .. Here(v)

LEMMA JumpView ==
  ASSUME NEW v \in ControlVM, NEW w, NEW g, Jumped(v, w, g), GuardsOK(v)
  PROVE  JumpedView(v, w, g)
<1>1. /\ w \in ControlVM /\ ~ w.bad /\ g \in 1 .. Len(v.c) /\ Installed(v.c[g])
      /\ v.nh = v.c[g].guards + 1 /\ w.nh = v.c[g].guards
      /\ Len(w.c) = g /\ \A j \in 1 .. g - 1 : w.c[j] = v.c[j]
      /\ w.c[g] = [v.c[g] EXCEPT !.ref = v.nh, !.want = w.pending]
      /\ w.unwind = v.unwind /\ w.nexc = v.nexc
  BY DEF Jumped
<1>2. g \in Nat /\ g >= 1 /\ Here(w) = g + 1 /\ Len(v.c) \in Nat /\ Here(v) = Len(v.c) + 1 /\ g \in 1 .. Here(v)
  BY <1>1, VMFields DEF Here
<1>3. /\ v.c[g] \in Activation /\ v.c[g].kind = "guard" /\ v.c[g].guards \in Nat
      /\ w.c[g].kind = "guard" /\ w.c[g].ref = v.nh /\ w.c[g].want = w.pending /\ w.c[g].id = v.c[g].id
      /\ w.c[g].depth = v.c[g].depth /\ w.c[g].mark = v.c[g].mark /\ w.c[g].guards = v.c[g].guards /\ w.c[g].excs = v.c[g].excs
  BY <1>1, EntryFields DEF Activation, Installed
<1>4. Draining(w.c[g])
  BY <1>1, <1>3 DEF Draining
<1>5. /\ \A j \in 1 .. g : /\ MarkAt(w, j) = w.c[j].mark /\ ExcsAt(w, j) = w.c[j].excs
                           /\ DepthAt(w, j) = w.c[j].depth /\ GuardsAt(w, j) = w.c[j].guards
      /\ MarkAt(w, g + 1) = Len(w.unwind) /\ ExcsAt(w, g + 1) = w.nexc /\ GuardsAt(w, g + 1) = w.nh
  BY <1>1, <1>2, AtHere
<1>6. /\ \A j \in 1 .. Len(v.c) : /\ MarkAt(v, j) = v.c[j].mark /\ ExcsAt(v, j) = v.c[j].excs
                                  /\ DepthAt(v, j) = v.c[j].depth /\ GuardsAt(v, j) = v.c[j].guards
      /\ MarkAt(v, Here(v)) = Len(v.unwind) /\ ExcsAt(v, Here(v)) = v.nexc
  BY AtHere
<1>7. SameAt(v, w, g)
  <2> SUFFICES ASSUME NEW j \in 1 .. g
               PROVE  /\ MarkAt(w, j) = MarkAt(v, j) /\ ExcsAt(w, j) = ExcsAt(v, j)
                      /\ DepthAt(w, j) = DepthAt(v, j) /\ GuardsAt(w, j) = GuardsAt(v, j)
    BY DEF SameAt
  <2>1. j \in 1 .. Len(v.c) /\ (j \in 1 .. g - 1 \/ j = g)
    BY <1>1, <1>2
  <2>2. CASE j = g
    BY <1>3, <1>5, <1>6, <2>1, <2>2
  <2>3. CASE j \in 1 .. g - 1
    BY SMTT(60), <1>1, <1>5, <1>6, <2>1, <2>3
  <2> QED BY <2>1, <2>2, <2>3
<1>8. SameTo(v, w, g - 1)
  BY <1>1, <1>2 DEF SameTo
<1>9. HeldFrom(v, g)
  <2>1. GuardOK(v, g)
    BY <1>1 DEF GuardsOK
  <2>2. \A j \in g + 1 .. Here(v) : MarkAt(v, j) >= v.c[g].mark
    BY <1>1, <1>3, <2>1 DEF GuardOK
  <2>3. \A j \in g .. Here(v) : j = g \/ j \in g + 1 .. Here(v)
    BY <1>2
  <2>4. MarkAt(v, g) = v.c[g].mark /\ v.c[g].mark \in Nat
    BY <1>1, <1>6, EntryFields
  <2> QED BY <2>2, <2>3, <2>4 DEF HeldFrom
<1> QED BY <1>1, <1>2, <1>3, <1>4, <1>5, <1>6, <1>7, <1>8, <1>9 DEF JumpedView

LEMMA JumpContinues ==
  ASSUME NEW v \in ControlVM, NEW w, NEW g, Jumped(v, w, g), GuardsOK(v)
  PROVE  Continues(v, w, g)
<1>1. JumpedView(v, w, g)
  BY JumpView
<1>2. /\ g \in Nat /\ g >= 1 /\ Here(w) = g + 1 /\ g \in 1 .. Here(v) /\ HeldFrom(v, g)
      /\ SameTo(v, w, g - 1) /\ SameAt(v, w, g)
  BY <1>1 DEF JumpedView
<1>3. ASSUME NEW p \in 1 .. g, Held(w, p, g + 1) PROVE Held(v, p, Here(v))
  <2>1. Held(w, p, g)
    BY <1>2, <1>3 DEF Held
  <2>2. g \in 0 .. g
    BY <1>2
  <2>3. Held(v, p, g)
    BY <1>2, <2>1, <2>2, SameKept
  <2> QED BY <1>2, <2>3, HeldOn
<1>4. w.unwind = v.unwind /\ w.n >= v.n
  BY DEF Jumped
<1>5. g \in 1 .. Here(w) /\ Here(w) <= g + 1
  BY <1>2
<1> QED BY <1>2, <1>3, <1>4, <1>5 DEF Continues

\* The moment of the jump is that of the guard's unwinding.
LEMMA JumpKept ==
  ASSUME NEW v \in ControlVM, NEW w, NEW g, Jumped(v, w, g), GuardsOK(v), NEW i \in 1 .. g
  PROVE  /\ Held(w, i, g + 1) => Held(v, i, Here(v))
         /\ \A x \in Nat : Kept(w, i, g + 1, x) => Kept(v, i, Here(v), x)
         /\ Wehs(w, i, g + 1) = Wehs(v, i, Here(v))
<1>1. JumpedView(v, w, g) /\ Continues(v, w, g)
  BY JumpView, JumpContinues
<1>2. /\ g \in Nat /\ g >= 1 /\ Here(w) = g + 1 /\ g \in 1 .. Here(v) /\ HeldFrom(v, g)
      /\ SameAt(v, w, g) /\ MarkAt(w, g + 1) = MarkAt(v, Here(v))
  BY <1>1 DEF JumpedView
<1>3. ASSUME NEW x \in Nat, Kept(w, i, g + 1, x) PROVE Kept(v, i, Here(v), x)
  <2>1. Kept(w, i, g, x)
    BY <1>2, <1>3 DEF Kept
  <2>2. g \in 0 .. g
    BY <1>2
  <2>3. Kept(v, i, g, x)
    BY <1>2, <2>1, <2>2, SameKept
  <2>4. \A j \in g .. Here(v) : ExcsAt(v, j) >= ExcsAt(v, g)
    BY DEF Jumped
  <2> QED BY <1>2, <2>3, <2>4, HeldOn
<1>4. Wehs(w, i, g + 1) = Wehs(v, i, Here(v))
  <2>1. MarkAt(w, i) = MarkAt(v, i) /\ w.unwind = v.unwind
    BY <1>2 DEF SameAt, Jumped
  <2> QED BY <1>2, <2>1 DEF Wehs
<1> QED BY <1>1, <1>2, <1>3, <1>4 DEF Continues

LEMMA JumpDrains ==
  ASSUME NEW v \in ControlVM, NEW w, NEW g, ControlInv(v), Jumped(v, w, g)
  PROVE  DrainsAt(v, w, g)
<1>1. GuardsOK(v) /\ ClausesOK(v) /\ FirstsOK(v) /\ SavedsOK(v)
  BY DEF ControlInv
<1>2. JumpedView(v, w, g) /\ Continues(v, w, g) /\ Jumped(v, w, g)
  BY <1>1, JumpView, JumpContinues
<1>3. /\ w \in ControlVM /\ ~ w.bad /\ g \in Nat /\ g >= 1 /\ g \in 1 .. Len(v.c) /\ Len(w.c) = g /\ Here(w) = g + 1
      /\ Draining(w.c[g]) /\ w.c[g].ref = v.nh /\ w.c[g].want = w.pending /\ w.c[g].id = v.c[g].id
      /\ w.c[g].kind = "guard" /\ w.c[g].depth = v.c[g].depth /\ w.c[g].mark = v.c[g].mark /\ w.c[g].guards = v.c[g].guards
      /\ MarkAt(w, g + 1) = MarkAt(v, Here(v)) /\ ExcsAt(w, g + 1) = ExcsAt(v, Here(v)) /\ GuardsAt(w, g + 1) = v.c[g].guards
      /\ HeldFrom(v, g) /\ g \in 1 .. Here(v)
  BY <1>2 DEF JumpedView
<1>4. /\ Installed(v.c[g]) /\ v.c[g].kind = "guard" /\ v.nh = v.c[g].guards + 1 /\ w.nh = v.c[g].guards
      /\ w.handlers = v.handlers /\ w.exc = v.exc /\ w.unwind = v.unwind
      /\ \A j \in g .. Here(v) : ExcsAt(v, j) >= ExcsAt(v, g)
  BY DEF Jumped, Installed
<1>5. /\ GuardsAt(v, g) = v.c[g].guards /\ MarkAt(v, g) = v.c[g].mark /\ Here(v) \in Nat /\ Here(v) = Len(v.c) + 1
      /\ Here(v) \in g .. Here(v) /\ g \in 1 .. g
  BY <1>3, AtHere
<1>6. SamePending(v, w, g)
  <2>1. ASSUME NEW j \in 1 .. g - 1 PROVE v.c[j].kind # "tests" /\ ~ Draining(v.c[j])
    <3>1. ClauseOK(v, j) /\ g \in j + 1 .. Len(v.c)
      BY <1>1, <1>3, VMFields DEF ClausesOK
    <3> QED BY <1>4, <3>1 DEF ClauseOK
  <2> QED BY <2>1 DEF SamePending
<1>7. GuardsStay(v, w, g)
  <2> SUFFICES ASSUME NEW f \in 1 .. g - 1, Installed(v.c[f])
               PROVE  MarkAt(w, g + 1) >= v.c[f].mark /\ GuardsAt(w, g + 1) >= v.c[f].guards + 1
    <3>1. \A j \in g + 1 .. Here(w) : j = g + 1
      BY <1>3
    <3> QED BY <3>1 DEF GuardsStay
  <2>1. f \in 1 .. Len(v.c) /\ g \in f + 1 .. Here(v) /\ Here(v) \in f + 1 .. Here(v)
    BY <1>3, <1>5
  <2>2. GuardOK(v, f) /\ v.c[f].kind = "guard"
    BY <1>1, <2>1 DEF GuardsOK, Installed
  <2> QED BY <1>3, <1>5, <2>1, <2>2 DEF GuardOK
<1>8. GuardOK(w, g)
  <2>1. /\ GuardOK(v, g)
        /\ MarkAt(v, Here(v)) >= v.c[g].mark
    BY <1>1, <1>3, <1>5 DEF GuardsOK, HeldFrom
  <2>2. /\ v.c[g].guards + 1 <= CREME_HANDLERS_CAP
        /\ v.handlers[v.c[g].guards + 1] = [id |-> v.c[g].id, depth |-> v.c[g].depth, mark |-> v.c[g].mark]
    BY <1>4, <2>1 DEF GuardOK
  <2>3. ~ Installed(w.c[g])
    BY <1>3 DEF Installed, Draining
  <2> QED BY <1>3, <1>4, <2>1, <2>2, <2>3 DEF GuardOK
<1>9. ASSUME NEW i \in 1 .. g PROVE FirstOK(w, i, g + 1)
  <2> SUFFICES ASSUME Kept(w, i, g + 1, ExcsAt(w, i)) PROVE FirstOK(w, i, g + 1)
    BY DEF FirstOK
  <2>1. /\ i \in 1 .. Here(v) /\ ExcsAt(w, i) = ExcsAt(v, i) /\ i \in Nat /\ 1 <= i
    BY <1>2, <1>3, ContinueBelow
  <2>2. ExcsAt(v, i) \in Nat
    BY <2>1, AtFields
  <2>3. Kept(v, i, Here(v), ExcsAt(v, i)) /\ Wehs(w, i, g + 1) = Wehs(v, i, Here(v))
    BY <1>1, <2>1, <2>2, JumpKept
  <2>4. Held(v, Here(v), Here(v))
    <3>1. MarkAt(v, Here(v)) \in Nat /\ \A j \in Here(v) .. Here(v) : j = Here(v)
      BY <1>5, AtHere, VMFields
    <3> QED BY <3>1 DEF Held
  <2>5. Here(v) \in 1 .. Here(v)
    BY <1>5, AtHere
  <2>6. FirstOK(v, i, Here(v))
    BY <1>1, <2>1, <2>5 DEF FirstsOK
  <2> QED BY <1>3, <1>4, <2>1, <2>3, <2>4, <2>6 DEF FirstOK
<1>10. ASSUME NEW i \in 1 .. g PROVE SavedOK(w, i, g + 1)
  <2> SUFFICES ASSUME Held(w, i, g + 1), NEW k \in Wehs(w, i, g + 1)
               PROVE  \E j \in i .. (g + 1) - 1 : ExcsAt(w, j) <= w.unwind[k].saved
    BY DEF SavedOK
  <2>1. /\ i \in 1 .. Here(v) /\ i \in Nat /\ 1 <= i
    BY <1>2, <1>3, ContinueBelow
  <2>2. Held(v, i, Here(v)) /\ k \in Wehs(v, i, Here(v))
    BY <1>1, JumpKept
  <2>3. Held(v, Here(v), Here(v))
    <3>1. MarkAt(v, Here(v)) \in Nat /\ \A j \in Here(v) .. Here(v) : j = Here(v)
      BY <1>5, AtHere, VMFields
    <3> QED BY <3>1 DEF Held
  <2>4. Here(v) \in 1 .. Here(v)
    BY <1>5, AtHere
  <2>5. SavedOK(v, i, Here(v))
    BY <1>1, <2>1, <2>4 DEF SavedsOK
  <2>6. PICK j \in i .. Here(v) - 1 : ExcsAt(v, j) <= v.unwind[k].saved
    BY <2>2, <2>3, <2>5 DEF SavedOK
  <2>7. j \in Nat /\ 1 <= j /\ (j \in i .. g \/ j \in g .. Here(v))
    BY <1>3, <1>5, <2>1
  <2>8. ExcsAt(v, j) \in Nat /\ ExcsAt(v, g) \in Nat
    BY <1>3, <2>7, AtFields
  <2>9. v.unwind[k].saved \in Nat
    <3>1. k \in 1 .. Len(v.unwind)
      <4>1. MarkAt(v, i) \in Nat /\ MarkAt(v, Here(v)) = Len(v.unwind) /\ Len(v.unwind) \in Nat
        BY <2>1, AtFields, AtHere, VMFields
      <4> QED BY <2>2, <4>1 DEF Wehs
    <3> QED BY <3>1, ActionFields
  <2>10. \E l \in i .. g : ExcsAt(v, l) <= v.unwind[k].saved
    <3>1. CASE j \in i .. g
      BY <2>6, <3>1
    <3>2. CASE j \in g .. Here(v)
      <4>1. ExcsAt(v, g) <= v.unwind[k].saved
        BY <1>4, <2>6, <2>8, <2>9, <3>2
      <4>2. g \in i .. g
        BY <1>3
      <4> QED BY <4>1, <4>2
    <3> QED BY <2>7, <3>1, <3>2
  <2>11. PICK l \in i .. g : ExcsAt(v, l) <= v.unwind[k].saved
    BY <2>10
  <2>12. l \in 1 .. g /\ l \in i .. (g + 1) - 1
    BY <1>3
  <2>13. ExcsAt(w, l) = ExcsAt(v, l)
    BY <1>2, <1>3, <2>12, ContinueBelow
  <2> QED BY <1>4, <2>11, <2>12, <2>13
<1>11. DipOK(w, g)
  <2>1. ExcsAt(w, g) = ExcsAt(v, g)
    BY <1>2, <1>3, <1>5, ContinueBelow
  <2>2. ExcsAt(v, g) \in Nat /\ ExcsAt(v, Here(v)) \in Nat /\ ExcsAt(v, Here(v)) >= ExcsAt(v, g)
    <3>1. Here(v) >= 1
      BY AtHere
    <3> QED BY <1>3, <1>4, <1>5, <3>1, AtFields
  <2>3. ExcsAt(w, g) <= ExcsAt(w, g + 1)
    BY <1>3, <2>1, <2>2
  <2>4. \A i \in 1 .. g : g \in i .. g
    BY <1>3
  <2> QED BY <2>3, <2>4 DEF DipOK
<1>12. EscapeOK(w, g)
  BY <1>3 DEF EscapeOK
<1>13. \A k \in 1 .. Len(w.unwind) : w.unwind[k].what = "weh" => w.unwind[k].saved <= CREME_EXC_HANDLERS_CAP
  BY <1>1, <1>4 DEF SavedsOK
<1>14. \A p \in 1 .. g : \A x \in Nat : Kept(w, p, Here(w), x) => Kept(v, p, Here(v), x)
  BY <1>1, <1>3, JumpKept
<1> QED BY <1>2, <1>3, <1>4, <1>5, <1>6, <1>7, <1>8, <1>9, <1>10, <1>11, <1>12, <1>13, <1>14 DEF DrainsAt, Drains

LEMMA JumpKeeps ==
  ASSUME NEW v \in ControlVM, NEW w, NEW g, ControlInv(v), Jumped(v, w, g)
  PROVE  ControlInv(w)
<1>1. GuardsOK(v) /\ ClausesOK(v) /\ ParamsOK(v) /\ AftersOK(v) /\ IdsOK(v) /\ PlacesOK(v)
  BY DEF ControlInv
<1>2. JumpedView(v, w, g) /\ DrainsAt(v, w, g) /\ Continues(v, w, g)
  BY <1>1, JumpView, JumpDrains, JumpContinues
<1>3. /\ w \in ControlVM /\ g \in Nat /\ g >= 1 /\ g \in 1 .. Len(v.c) /\ Len(w.c) = g
      /\ w.c[g].kind = "guard" /\ w.c[g].id = v.c[g].id
      /\ \A j \in 1 .. g - 1 : w.c[j] = v.c[j]
  BY <1>2 DEF JumpedView
<1>4. /\ v.c[g].kind = "guard" /\ w.unwind = v.unwind /\ w.exc = v.exc /\ w.param = v.param /\ w.after = v.after
      /\ w.n >= v.n /\ w.n \in Nat /\ v.n \in Nat
  BY <1>3, VMFields DEF Jumped, Installed
<1>5. \A j \in 1 .. g : j \in 1 .. Len(v.c) /\ (j \in 1 .. g - 1 \/ j = g)
  BY <1>3, VMFields
<1>6. ASSUME NEW j \in 1 .. g PROVE w.c[j].kind = v.c[j].kind /\ w.c[j].id = v.c[j].id
  BY <1>3, <1>4, <1>5
<1>7. ClausesOK(w)
  <2> SUFFICES ASSUME NEW j \in 1 .. g PROVE ClauseOK(w, j)
    BY <1>3 DEF ClausesOK
  <2>1. CASE j \in 1 .. g - 1
    <3>1. ClauseOK(v, j) /\ g \in j + 1 .. Len(v.c)
      BY <1>1, <1>3, <1>5, <2>1, VMFields DEF ClausesOK
    <3>2. v.c[j].kind # "tests" /\ ~ Draining(v.c[j])
      BY <1>4, <3>1 DEF ClauseOK
    <3> QED BY <1>3, <2>1, <3>2 DEF ClauseOK
  <2>2. CASE j = g
    <3>1. \A i \in j + 1 .. Len(w.c) : FALSE
      BY <1>3, <2>2
    <3> QED BY <1>3, <2>2, <3>1 DEF ClauseOK
  <2> QED BY <1>5, <2>1, <2>2
<1>8. IdsOK(w)
  <2>1. ASSUME NEW i \in 1 .. g PROVE IdOK(w, i)
    <3>1. IdOK(v, i)
      BY <1>1, <1>5 DEF IdsOK
    <3>2. HasNumber(w.c[i]) => w.c[i].id \in 1 .. w.n
      BY <1>4, <1>6, <3>1 DEF IdOK, HasNumber
    <3>3. ASSUME HasNumber(w.c[i]), NEW j \in 1 .. g, HasNumber(w.c[j]), w.c[i].id = w.c[j].id PROVE i = j
      <4>1. HasNumber(v.c[i]) /\ HasNumber(v.c[j]) /\ v.c[i].id = v.c[j].id /\ j \in 1 .. Len(v.c)
        BY <1>5, <1>6, <3>3 DEF HasNumber
      <4> QED BY <3>1, <4>1 DEF IdOK
    <3> QED BY <1>3, <3>2, <3>3 DEF IdOK
  <2>2. ASSUME NEW k \in 1 .. CREME_EXC_HANDLERS_CAP PROVE w.exc[k] <= w.n
    <3>1. v.exc[k] <= v.n /\ v.exc[k] \in Nat
      BY <1>1, VMFields DEF IdsOK
    <3> QED BY <1>4, <3>1
  <2> QED BY <1>3, <2>1, <2>2 DEF IdsOK
<1>9. PlacesOK(w)
  <2>1. \A j \in 1 .. g - 1 : PlaceOK(w, j)
    BY <1>1, <1>2, <1>3, ContinuePlaces
  <2>2. g > 1 /\ OfScheme(v.c[g - 1])
    BY <1>1, <1>3, <1>4 DEF PlacesOK, PlaceOK
  <2>3. g - 1 \in 1 .. g - 1
    BY <1>3, <2>2
  <2>4. PlaceOK(w, g)
    BY <1>3, <2>2, <2>3 DEF PlaceOK
  <2>5. w.c[1].kind = "run"
    <3>1. 1 \in 1 .. g - 1
      BY <1>3, <2>2
    <3> QED BY <1>1, <1>3, <3>1 DEF PlacesOK
  <2> QED BY <1>3, <1>5, <2>1, <2>4, <2>5 DEF PlacesOK
<1>10. ParamsOK(w)
  BY <1>1, <1>4, SameParams
<1>11. AftersOK(w)
  <2>1. ASSUME NEW j \in 1 .. Len(w.c), w.c[j].kind = "wind" PROVE \E i \in 1 .. Len(v.c) : w.c[j] = v.c[i]
    BY <1>3, <1>5, <2>1
  <2> QED BY <1>1, <1>3, <1>4, <2>1, SameAfters
<1> QED BY <1>2, <1>7, <1>8, <1>9, <1>10, <1>11, DrainKeeps

\* w is v after the last action of the unwind stack, if what is there drains.
Drained(v, w) ==
  LET N == Len(v.c)
      L == Len(v.unwind)
      last == v.unwind[L]
  IN /\ w \in ControlVM /\ ~ w.bad /\ N >= 1 /\ Drains(v.c[N]) /\ L >= 1
     /\ w.c = v.c /\ Len(w.unwind) = L - 1 /\ \A k \in 1 .. L - 1 : w.unwind[k] = v.unwind[k]
     /\ w.nexc = (IF last.what = "weh" THEN last.saved ELSE v.nexc)
     /\ w.param = (IF last.what = "param" THEN last.saved ELSE v.param)
     /\ w.depth = v.depth /\ w.nh = v.nh /\ w.handlers = v.handlers /\ w.exc = v.exc
     /\ w.pending = v.pending /\ w.n = v.n
     /\ Draining(v.c[N]) => L > v.c[N].mark
     /\ v.c[N].kind = "escape" => \E t \in 1 .. N - 1 : Leads(v, N, t) /\ L > MarkAt(v, t)

DrainedView(v, w) ==
  LET N == Len(v.c)
      L == Len(v.unwind)
  IN /\ w \in ControlVM /\ ~ w.bad /\ N \in Nat /\ N >= 1 /\ N \in 1 .. N /\ L \in Nat /\ L >= 1 /\ L \in 1 .. L
     /\ Here(v) = N + 1 /\ Here(w) = N + 1 /\ Len(w.c) = N /\ w.c = v.c
     /\ SameTo(v, w, N) /\ SameAt(v, w, N)
     /\ MarkAt(v, N + 1) = L /\ MarkAt(w, N + 1) = L - 1 /\ Len(w.unwind) = L - 1
     /\ \A k \in 1 .. L - 1 : w.unwind[k] = v.unwind[k]
     /\ ExcsAt(v, N + 1) = v.nexc /\ v.nexc \in Nat
     /\ v.unwind[L].what # "weh" => ExcsAt(w, N + 1) = ExcsAt(v, N + 1)
     /\ v.unwind[L].what = "weh" => ExcsAt(w, N + 1) = v.unwind[L].saved
     /\ v.unwind[L].saved \in Nat
     /\ GuardsAt(w, N + 1) = GuardsAt(v, N + 1)

LEMMA DrainView ==
  ASSUME NEW v \in ControlVM, NEW w, Drained(v, w)
  PROVE  DrainedView(v, w)
<1> DEFINE N == Len(v.c)
           L == Len(v.unwind)
<1>1. /\ w \in ControlVM /\ ~ w.bad /\ N >= 1 /\ L >= 1 /\ w.c = v.c /\ Len(w.unwind) = L - 1
      /\ \A k \in 1 .. L - 1 : w.unwind[k] = v.unwind[k]
      /\ w.nexc = (IF v.unwind[L].what = "weh" THEN v.unwind[L].saved ELSE v.nexc)
      /\ w.nh = v.nh
  BY DEF Drained
<1>2. N \in Nat /\ L \in Nat /\ v.nexc \in Nat /\ N \in 1 .. N /\ L \in 1 .. L
  BY <1>1, VMFields
<1>3. Here(v) = N + 1 /\ Here(w) = N + 1 /\ Len(w.c) = N
  BY <1>1 DEF Here
<1>4. /\ \A j \in 1 .. N : /\ MarkAt(v, j) = v.c[j].mark /\ ExcsAt(v, j) = v.c[j].excs
                           /\ DepthAt(v, j) = v.c[j].depth /\ GuardsAt(v, j) = v.c[j].guards
      /\ MarkAt(v, N + 1) = L /\ ExcsAt(v, N + 1) = v.nexc /\ GuardsAt(v, N + 1) = v.nh
  BY <1>3, AtHere
<1>5. /\ \A j \in 1 .. N : /\ MarkAt(w, j) = w.c[j].mark /\ ExcsAt(w, j) = w.c[j].excs
                           /\ DepthAt(w, j) = w.c[j].depth /\ GuardsAt(w, j) = w.c[j].guards
      /\ MarkAt(w, N + 1) = Len(w.unwind) /\ ExcsAt(w, N + 1) = w.nexc /\ GuardsAt(w, N + 1) = w.nh
  BY <1>1, <1>3, AtHere
<1>6. SameAt(v, w, N)
  BY <1>1, <1>4, <1>5 DEF SameAt
<1>7. SameTo(v, w, N)
  BY <1>1, <1>2 DEF SameTo
<1>8. v.unwind[L].saved \in Nat
  BY <1>2, ActionFields
<1> QED BY <1>1, <1>2, <1>3, <1>4, <1>5, <1>6, <1>7, <1>8 DEF DrainedView

LEMMA DrainedWas ==
  ASSUME NEW v \in ControlVM, NEW w, Drained(v, w), DipsOK(v), NEW i \in 1 .. Len(v.c)
  PROVE  /\ Held(w, i, Here(w)) => Held(v, i, Here(v))
         /\ \A x \in Nat : Kept(w, i, Here(w), x) => Kept(v, i, Here(v), x)
<1> DEFINE N == Len(v.c)
           L == Len(v.unwind)
<1>1. DrainedView(v, w) /\ Drains(v.c[N])
  BY DrainView DEF Drained
<1>2. /\ N \in Nat /\ N >= 1 /\ N \in 1 .. N /\ L \in Nat /\ L >= 1 /\ Here(v) = N + 1 /\ Here(w) = N + 1 /\ SameAt(v, w, N)
      /\ MarkAt(v, N + 1) = L /\ MarkAt(w, N + 1) = L - 1
      /\ v.unwind[L].what # "weh" => ExcsAt(w, N + 1) = ExcsAt(v, N + 1)
  BY <1>1 DEF DrainedView
<1>3. i \in Nat /\ 1 <= i /\ i \in 1 .. N /\ N + 1 \in i .. N + 1
  BY <1>2
<1>4. /\ \A j \in i .. N + 1 : j \in 1 .. N \/ j = N + 1
      /\ \A j \in 1 .. N : MarkAt(w, j) = MarkAt(v, j) /\ ExcsAt(w, j) = ExcsAt(v, j)
      /\ \A j \in 1 .. N + 1 : MarkAt(v, j) \in Nat /\ ExcsAt(v, j) \in Nat
  <2>1. \A j \in 1 .. N : MarkAt(w, j) = MarkAt(v, j) /\ ExcsAt(w, j) = ExcsAt(v, j)
    BY <1>2 DEF SameAt
  <2>2. \A j \in 1 .. N + 1 : j \in Nat /\ 1 <= j
    BY <1>2
  <2>3. \A j \in i .. N + 1 : j \in 1 .. N \/ j = N + 1
    BY <1>2, <1>3
  <2> QED BY <2>1, <2>2, <2>3, AtFields
<1> HIDE DEF N, L
<1>5. ASSUME Held(w, i, N + 1) PROVE Held(v, i, N + 1)
  <2>1. MarkAt(v, N + 1) >= MarkAt(v, i)
    <3>1. MarkAt(w, N + 1) >= MarkAt(w, i) /\ MarkAt(v, i) \in Nat /\ MarkAt(w, i) = MarkAt(v, i)
      BY <1>2, <1>3, <1>4, <1>5 DEF Held
    <3> QED BY <1>2, <3>1
  <2> QED BY <1>3, <1>4, <1>5, <2>1 DEF Held
<1>6. ASSUME NEW x \in Nat, Kept(w, i, N + 1, x) PROVE Kept(v, i, N + 1, x)
  <2>1. Held(v, i, N + 1)
    BY <1>5, <1>6 DEF Kept, Held
  <2>2. \A j \in i .. N + 1 : j \in 1 .. N => ExcsAt(v, j) >= x
    BY <1>4, <1>6 DEF Kept
  <2>3. ExcsAt(v, N + 1) >= x
    <3>1. PICK j \in i .. N : ExcsAt(v, j) <= ExcsAt(v, N + 1)
      BY <1>1, <1>2, <1>3, <2>1 DEF DipsOK, DipOK, N
    <3>2. j \in i .. N + 1 /\ j \in 1 .. N + 1 /\ j \in 1 .. N /\ N + 1 \in 1 .. N + 1
      BY <1>2, <1>3
    <3>3. ExcsAt(v, j) >= x /\ ExcsAt(v, j) \in Nat /\ ExcsAt(v, N + 1) \in Nat
      BY <1>4, <2>2, <3>2
    <3> QED BY <3>1, <3>3
  <2> QED BY <1>4, <2>1, <2>2, <2>3 DEF Kept, Held
<1> QED BY <1>2, <1>5, <1>6 DEF N

LEMMA DrainContinues ==
  ASSUME NEW v \in ControlVM, NEW w, Drained(v, w), DipsOK(v)
  PROVE  Continues(v, w, Len(v.c))
<1> DEFINE N == Len(v.c)
           L == Len(v.unwind)
<1>1. DrainedView(v, w) /\ w.n = v.n
  BY DrainView DEF Drained
<1>2. /\ N \in Nat /\ N >= 1 /\ N \in 1 .. N /\ L \in Nat /\ L >= 1 /\ Here(v) = N + 1 /\ Here(w) = N + 1
      /\ SameTo(v, w, N) /\ SameAt(v, w, N) /\ Len(w.unwind) = L - 1
      /\ \A k \in 1 .. L - 1 : w.unwind[k] = v.unwind[k]
  BY <1>1 DEF DrainedView
<1>3. SameTo(v, w, N - 1)
  BY <1>2 DEF SameTo
<1>4. \A k \in 1 .. Len(v.unwind) : k <= Len(w.unwind) => w.unwind[k] = v.unwind[k]
  BY <1>2
<1>5. \A p \in 1 .. N : Held(w, p, Here(w)) => Held(v, p, Here(v))
  BY DrainedWas
<1>6. w.n >= v.n /\ N \in 1 .. N + 1 /\ N + 1 <= N + 1
  BY <1>1, <1>2, VMFields
<1> QED BY <1>2, <1>3, <1>4, <1>5, <1>6 DEF Continues

\* The actions of handlers that are left.
LEMMA DrainedWehs ==
  ASSUME NEW v \in ControlVM, NEW w, Drained(v, w), NEW i \in 1 .. Len(v.c), MarkAt(v, i) <= Len(v.unwind) - 1
  PROVE  LET S == Wehs(v, i, Here(v))
             T == Wehs(w, i, Here(w))
             L == Len(v.unwind)
         IN /\ v.unwind[L].what # "weh" => S = T
            /\ v.unwind[L].what = "weh" => S = T \cup {L}
            /\ \A k \in T : k \in S /\ k \in Nat /\ k < L /\ w.unwind[k] = v.unwind[k]
<1> DEFINE L == Len(v.unwind)
           S == Wehs(v, i, Here(v))
           T == Wehs(w, i, Here(w))
           m == MarkAt(v, i)
<1>1. DrainedView(v, w)
  BY DrainView
<1>2. L \in Nat /\ L >= 1 /\ \A k \in 1 .. L - 1 : w.unwind[k] = v.unwind[k]
  BY <1>1 DEF DrainedView
<1>3. MarkAt(w, i) = m /\ MarkAt(v, Here(v)) = L /\ MarkAt(w, Here(w)) = L - 1
  BY <1>1 DEF DrainedView, SameAt
<1>4. m \in Nat /\ m <= L - 1
  BY <1>1, AtFields DEF DrainedView
<1>5. S = {k \in m + 1 .. L : v.unwind[k].what = "weh"} /\ T = {k \in m + 1 .. L - 1 : w.unwind[k].what = "weh"}
  BY <1>3 DEF Wehs
<1> HIDE DEF L, S, T, m
<1>6. \A k : k \in m + 1 .. L <=> k \in m + 1 .. L - 1 \/ k = L
  BY <1>2, <1>4
<1>7. \A k \in m + 1 .. L - 1 : k \in 1 .. L - 1 /\ k < L /\ k \in Nat /\ k # L
  BY <1>2, <1>4
<1>8. \A k \in T : k \in S /\ k \in Nat /\ k < L /\ w.unwind[k] = v.unwind[k]
  BY <1>2, <1>5, <1>6, <1>7
<1>9. v.unwind[L].what # "weh" => S = T
  BY <1>2, <1>5, <1>6, <1>7
<1>10. v.unwind[L].what = "weh" => S = T \cup {L}
  BY <1>2, <1>5, <1>6, <1>7
<1> QED BY <1>8, <1>9, <1>10 DEF L, S, T

LEMMA DrainedFirst ==
  ASSUME NEW v \in ControlVM, NEW w, Drained(v, w), DipsOK(v), FirstsOK(v), NEW i \in 1 .. Len(v.c)
  PROVE  FirstOK(w, i, Here(w))
<1> DEFINE H == Here(v)
           L == Len(v.unwind)
           S == Wehs(v, i, H)
           T == Wehs(w, i, H)
           x == ExcsAt(v, i)
<1>1. DrainedView(v, w)
  BY DrainView
<1>2. /\ H \in Nat /\ H >= 1 /\ H = Len(v.c) + 1 /\ Here(w) = H /\ i \in 1 .. H /\ i \in Nat /\ 1 <= i
      /\ L \in Nat /\ L >= 1 /\ MarkAt(v, H) = L /\ MarkAt(w, H) = L - 1
      /\ MarkAt(w, i) = MarkAt(v, i) /\ ExcsAt(w, i) = x
      /\ v.unwind[L].what # "weh" => ExcsAt(w, H) = ExcsAt(v, H)
      /\ v.unwind[L].what = "weh" => ExcsAt(w, H) = v.unwind[L].saved
  BY <1>1 DEF DrainedView, SameAt
<1>3. x \in Nat /\ MarkAt(v, i) \in Nat
  BY <1>2, AtFields
<1> SUFFICES ASSUME Kept(w, i, H, x) PROVE FirstOK(w, i, H)
  BY <1>2 DEF FirstOK
<1>4. Kept(v, i, H, x)
  BY <1>2, <1>3, DrainedWas
<1>5. MarkAt(v, i) <= L - 1
  <2>1. H \in i .. H
    BY <1>2
  <2> QED BY <1>2, <1>3, <2>1 DEF Kept
<1>6. Held(v, H, H)
  <2>1. \A j \in H .. H : j = H
    BY <1>2
  <2> QED BY <1>2, <2>1 DEF Held
<1>7. FirstOK(v, i, H)
  <2>1. H \in 1 .. H
    BY <1>2
  <2> QED BY <1>2, <2>1 DEF FirstsOK
<1>8. /\ S = {} => ExcsAt(v, H) = x
      /\ \A k \in S : (\A m \in S : k <= m) => v.unwind[k].saved = x
  BY <1>4, <1>6, <1>7 DEF FirstOK
<1>9. /\ v.unwind[L].what # "weh" => S = T
      /\ v.unwind[L].what = "weh" => S = T \cup {L}
      /\ \A k \in T : k \in S /\ k \in Nat /\ k < L /\ w.unwind[k] = v.unwind[k]
  BY <1>2, <1>5, DrainedWehs
<1> HIDE DEF S, T, x, L, H
<1>10. ASSUME T = {} PROVE ExcsAt(w, H) = x
  <2>1. CASE v.unwind[L].what # "weh"
    BY <1>2, <1>8, <1>9, <1>10, <2>1
  <2>2. CASE v.unwind[L].what = "weh"
    <3>1. S = {L} /\ L <= L
      BY <1>2, <1>9, <1>10, <2>2
    <3> QED BY <1>2, <1>8, <2>2, <3>1
  <2> QED BY <2>1, <2>2
<1>11. ASSUME NEW k \in T, \A m \in T : k <= m PROVE w.unwind[k].saved = x
  <2>1. \A m \in S : m \in T \/ m = L
    BY <1>9
  <2>2. \A m \in S : k <= m
    BY <1>2, <1>9, <1>11, <2>1
  <2> QED BY <1>8, <1>9, <2>2
<1> QED BY <1>2, <1>10, <1>11 DEF FirstOK, T

LEMMA DrainedSaved ==
  ASSUME NEW v \in ControlVM, NEW w, Drained(v, w), DipsOK(v), SavedsOK(v), NEW i \in 1 .. Len(v.c)
  PROVE  /\ SavedOK(w, i, Here(w))
         /\ Held(w, i, Here(w)) => \E j \in i .. Len(v.c) : ExcsAt(w, j) <= ExcsAt(w, Here(w))
<1> DEFINE H == Here(v)
           N == Len(v.c)
           L == Len(v.unwind)
           S == Wehs(v, i, H)
           T == Wehs(w, i, H)
<1>1. DrainedView(v, w) /\ Drains(v.c[N])
  BY DrainView DEF Drained
<1>2. /\ H \in Nat /\ H >= 1 /\ H = N + 1 /\ H - 1 = N /\ N \in 1 .. N /\ Here(w) = H /\ i \in 1 .. H /\ i \in Nat /\ 1 <= i
      /\ L \in Nat /\ L >= 1 /\ MarkAt(v, H) = L /\ MarkAt(w, H) = L - 1
      /\ MarkAt(w, i) = MarkAt(v, i) /\ \A j \in 1 .. N : ExcsAt(w, j) = ExcsAt(v, j)
      /\ v.unwind[L].what # "weh" => ExcsAt(w, H) = ExcsAt(v, H)
      /\ v.unwind[L].what = "weh" => ExcsAt(w, H) = v.unwind[L].saved
  BY <1>1 DEF DrainedView, SameAt
<1>3. MarkAt(v, i) \in Nat /\ i \in 1 .. N /\ i <= N
  BY <1>2, AtFields
<1> SUFFICES ASSUME Held(w, i, H)
             PROVE  /\ \A k \in T : \E j \in i .. N : ExcsAt(w, j) <= w.unwind[k].saved
                    /\ \E j \in i .. N : ExcsAt(w, j) <= ExcsAt(w, H)
  BY <1>2 DEF SavedOK
<1>4. Held(v, i, H)
  BY <1>2, DrainedWas
<1>5. MarkAt(v, i) <= L - 1
  <2>1. H \in i .. H
    BY <1>2
  <2> QED BY <1>2, <1>3, <2>1 DEF Held
<1>6. Held(v, H, H)
  <2>1. \A j \in H .. H : j = H
    BY <1>2
  <2> QED BY <1>2, <2>1 DEF Held
<1>7. SavedOK(v, i, H)
  <2>1. H \in 1 .. H
    BY <1>2
  <2> QED BY <1>2, <2>1 DEF SavedsOK
<1>8. \A k \in S : \E j \in i .. N : ExcsAt(v, j) <= v.unwind[k].saved
  BY <1>2, <1>4, <1>6, <1>7 DEF SavedOK
<1>9. /\ v.unwind[L].what # "weh" => S = T
      /\ v.unwind[L].what = "weh" => S = T \cup {L}
      /\ \A k \in T : k \in S /\ w.unwind[k] = v.unwind[k]
  BY <1>2, <1>5, DrainedWehs
<1>10. \A j \in i .. N : ExcsAt(w, j) = ExcsAt(v, j)
  <2>1. \A j \in i .. N : j \in 1 .. N
    BY <1>2
  <2> QED BY <1>2, <2>1
<1>11. v.unwind[L].what # "weh" => \E j \in i .. N : ExcsAt(v, j) <= ExcsAt(v, H)
  BY <1>1, <1>2, <1>3, <1>4 DEF DipsOK, DipOK
<1> HIDE DEF S, T, L, H, N
<1>12. \A k \in T : \E j \in i .. N : ExcsAt(w, j) <= w.unwind[k].saved
  BY <1>8, <1>9, <1>10
<1>13. \E j \in i .. N : ExcsAt(w, j) <= ExcsAt(w, H)
  <2>1. CASE v.unwind[L].what # "weh"
    BY <1>2, <1>10, <1>11, <2>1
  <2>2. CASE v.unwind[L].what = "weh"
    <3>1. L \in S
      BY <1>9, <2>2
    <3> QED BY <1>2, <1>8, <1>10, <2>2, <3>1
  <2> QED BY <2>1, <2>2
<1> QED BY <1>12, <1>13

LEMMA DrainedDrains ==
  ASSUME NEW v \in ControlVM, NEW w, ControlInv(v), Drained(v, w)
  PROVE  DrainsAt(v, w, Len(v.c))
<1> DEFINE N == Len(v.c)
           L == Len(v.unwind)
<1>1. ChangesOK(v) /\ GuardsOK(v) /\ FirstsOK(v) /\ SavedsOK(v) /\ DipsOK(v) /\ EscapesOK(v)
  BY DEF ControlInv
<1>2. DrainedView(v, w) /\ Continues(v, w, N)
  BY <1>1, DrainView, DrainContinues
<1>3. /\ w \in ControlVM /\ ~ w.bad /\ N \in Nat /\ N >= 1 /\ N \in 1 .. N /\ L \in Nat /\ L >= 1 /\ L \in 1 .. L
      /\ Here(v) = N + 1 /\ Here(w) = N + 1 /\ Len(w.c) = N /\ w.c = v.c
      /\ SameAt(v, w, N) /\ Len(w.unwind) = L - 1
      /\ MarkAt(v, N + 1) = L /\ MarkAt(w, N + 1) = L - 1
      /\ \A k \in 1 .. L - 1 : w.unwind[k] = v.unwind[k]
      /\ GuardsAt(w, N + 1) = GuardsAt(v, N + 1)
  BY <1>2 DEF DrainedView
<1>4. /\ Drains(v.c[N]) /\ w.handlers = v.handlers /\ w.exc = v.exc /\ w.pending = v.pending /\ w.nh = v.nh
      /\ Draining(v.c[N]) => L > v.c[N].mark
      /\ v.c[N].kind = "escape" => \E t \in 1 .. N - 1 : Leads(v, N, t) /\ L > MarkAt(v, t)
  BY DEF Drained
<1>5. v.c[N].kind \in {"escape", "guard"} /\ ~ Installed(v.c[N])
  BY <1>4 DEF Drains, Draining, Installed
<1>6. w.nh = GuardsAt(v, N) /\ w.nh \in Nat
  <2>1. GuardsAt(v, N + 1) = GuardsAt(v, N) + One(Installed(v.c[N]))
    BY <1>1, <1>3 DEF ChangesOK, Change
  <2>2. GuardsAt(v, N + 1) = v.nh /\ GuardsAt(v, N) \in Nat
    BY <1>3, AtHere, AtFields
  <2> QED BY <1>4, <1>5, <2>1, <2>2, VMFields DEF One
<1>7. SamePending(v, w, N)
  BY <1>4 DEF SamePending
<1>8. GuardsStay(v, w, N)
  <2> SUFFICES ASSUME NEW f \in 1 .. N - 1, Installed(v.c[f])
               PROVE  MarkAt(w, N + 1) >= v.c[f].mark /\ GuardsAt(w, N + 1) >= v.c[f].guards + 1
    <3>1. \A j \in N + 1 .. Here(w) : j = N + 1
      BY <1>3
    <3> QED BY <3>1 DEF GuardsStay
  <2>1. f \in Nat /\ f >= 1 /\ f \in 1 .. N /\ N \in f + 1 .. N + 1 /\ N + 1 \in f + 1 .. N + 1
    BY <1>3
  <2>2. \A j \in f + 1 .. N + 1 : MarkAt(v, j) >= v.c[f].mark /\ GuardsAt(v, j) >= v.c[f].guards + 1
    <3>1. GuardOK(v, f) /\ v.c[f].kind = "guard"
      BY <1>1, <2>1 DEF GuardsOK, Installed
    <3> QED BY <1>3, <3>1 DEF GuardOK
  <2>3. v.c[f].mark \in Nat /\ v.c[f].guards \in Nat /\ MarkAt(v, N) \in Nat
    BY <1>3, <2>1, EntryFields, AtFields
  <2>4. MarkAt(w, N + 1) >= v.c[f].mark
    <3>1. CASE v.c[N].kind = "guard"
      <4>1. Draining(v.c[N])
        BY <1>4, <3>1 DEF Drains
      <4>2. L > v.c[N].mark /\ MarkAt(v, N) = v.c[N].mark
        BY <1>3, <1>4, <4>1, AtHere
      <4>3. MarkAt(v, N) >= v.c[f].mark
        BY <2>1, <2>2
      <4> QED BY <1>3, <2>3, <4>2, <4>3
    <3>2. CASE v.c[N].kind = "escape"
      <4>1. PICK t \in 1 .. N - 1 : Leads(v, N, t) /\ L > MarkAt(v, t)
        BY <1>4, <3>2
      <4>2. \A j \in t .. N : ~ Installed(v.c[j])
        BY <4>1 DEF Leads
      <4>3. ~ (f \in t .. N)
        BY <4>2
      <4>4. t \in f + 1 .. N + 1 /\ t \in Nat /\ 1 <= t
        BY <1>3, <2>1, <4>3
      <4>5. MarkAt(v, t) >= v.c[f].mark /\ MarkAt(v, t) \in Nat
        BY <2>2, <4>4, AtFields
      <4> QED BY <1>3, <2>3, <4>1, <4>5
    <3> QED BY <1>5, <3>1, <3>2
  <2> QED BY <1>3, <2>1, <2>2, <2>4
<1>9. GuardOK(w, N)
  <2> SUFFICES ASSUME v.c[N].kind = "guard" PROVE GuardOK(w, N)
    BY <1>3 DEF GuardOK
  <2>1. Draining(v.c[N]) /\ GuardOK(v, N)
    BY <1>1, <1>3, <1>4 DEF Drains, GuardsOK
  <2>2. L > v.c[N].mark /\ v.c[N].mark \in Nat
    BY <1>3, <1>4, <2>1, EntryFields
  <2>3. MarkAt(w, N + 1) >= v.c[N].mark
    BY <1>3, <2>2
  <2> QED BY <1>3, <1>4, <1>5, <2>1, <2>3 DEF GuardOK
<1>10. \A i \in 1 .. N : FirstOK(w, i, N + 1) /\ SavedOK(w, i, N + 1)
  BY <1>1, <1>3, DrainedFirst, DrainedSaved
<1>11. DipOK(w, N)
  <2> SUFFICES ASSUME NEW i \in 1 .. N, Held(w, i, N + 1)
               PROVE  \E j \in i .. N : ExcsAt(w, j) <= ExcsAt(w, N + 1)
    BY DEF DipOK
  <2> QED BY <1>1, <1>3, DrainedSaved
<1>12. EscapeOK(w, N)
  <2> SUFFICES ASSUME v.c[N].kind = "escape" PROVE \E t \in 1 .. N - 1 : Leads(w, N, t)
    BY <1>3 DEF EscapeOK
  <2>1. PICK t \in 1 .. N - 1 : Leads(v, N, t) /\ L > MarkAt(v, t)
    BY <1>4
  <2>2. t \in 1 .. N /\ t \in Nat /\ 1 <= t /\ N \in 0 .. N
    BY <1>3
  <2>3. /\ MarkAt(w, t) = MarkAt(v, t) /\ ExcsAt(w, t) = ExcsAt(v, t) /\ MarkAt(v, t) \in Nat
        /\ Kept(w, t, N, ExcsAt(v, t)) <=> Kept(v, t, N, ExcsAt(v, t))
    BY <1>3, <2>2, SameKept, AtFields DEF SameAt
  <2>4. MarkAt(w, N + 1) >= MarkAt(w, t)
    BY <1>3, <2>1, <2>3
  <2>5. Leads(w, N, t)
    BY <1>3, <2>1, <2>3, <2>4 DEF Leads
  <2> QED BY <2>5
<1>13. \A k \in 1 .. Len(w.unwind) : w.unwind[k].what = "weh" => w.unwind[k].saved <= CREME_EXC_HANDLERS_CAP
  <2>1. \A k \in 1 .. Len(w.unwind) : k \in 1 .. L /\ w.unwind[k] = v.unwind[k]
    BY <1>3
  <2> QED BY <1>1, <2>1 DEF SavedsOK
<1>14. \A p \in 1 .. N : \A x \in Nat : Kept(w, p, Here(w), x) => Kept(v, p, Here(v), x)
  BY <1>1, DrainedWas
<1> QED BY <1>2, <1>3, <1>4, <1>6, <1>7, <1>8, <1>9, <1>10, <1>11, <1>12, <1>13, <1>14 DEF DrainsAt

LEMMA DrainedKeeps ==
  ASSUME NEW v \in ControlVM, NEW w, ControlInv(v), Drained(v, w), AftersOK(w)
  PROVE  ControlInv(w)
<1>1. w \in ControlVM /\ w.c = v.c /\ w.pending = v.pending /\ w.exc = v.exc /\ w.n = v.n
  BY DEF Drained
<1>2. ClausesOK(v) /\ IdsOK(v) /\ PlacesOK(v) /\ ParamsOK(v)
  BY DEF ControlInv
<1>3. ClausesOK(w) /\ PlacesOK(w) /\ IdsOK(w)
  BY <1>1, <1>2 DEF ClausesOK, ClauseOK, PlacesOK, PlaceOK, IdsOK, IdOK
<1>4. ParamsOK(w)
  <2>1. /\ Len(v.unwind) >= 1 /\ Len(w.unwind) = Len(v.unwind) - 1
        /\ \A k \in 1 .. Len(w.unwind) : w.unwind[k] = v.unwind[k]
        /\ w.param = IF v.unwind[Len(v.unwind)].what = "param" THEN v.unwind[Len(v.unwind)].saved ELSE v.param
    BY DEF Drained
  <2> QED BY <1>2, <2>1, PoppedParams
<1>5. DrainsAt(v, w, Len(v.c))
  BY DrainedDrains
<1> QED BY <1>3, <1>4, <1>5, DrainKeeps

-----------------------------------------------------------------------------
(* The operations, in terms of entering, leaving and unwinding.            *)

LEMMA EntryType ==
  ASSUME NEW v \in ControlVM, NEW kind \in Kind, NEW id \in Nat
  PROVE  /\ Entry(v, kind, id) \in Activation
         /\ Entry(v, kind, id).kind = kind /\ Entry(v, kind, id).id = id /\ Entry(v, kind, id).phase = ""
         /\ Entry(v, kind, id).ref = 0 /\ Entry(v, kind, id).want = 0
         /\ Entry(v, kind, id).depth = v.depth /\ Entry(v, kind, id).mark = Len(v.unwind)
         /\ Entry(v, kind, id).excs = v.nexc /\ Entry(v, kind, id).guards = v.nh
<1>1. v.depth \in Nat /\ Len(v.unwind) \in Nat /\ v.nexc \in 0 .. CREME_EXC_HANDLERS_CAP /\ v.nh \in Nat
  BY VMFields, CapAssumption
<1>2. "" \in Phase /\ 0 \in Nat
  BY DEF Phase
<1> QED BY <1>1, <1>2 DEF Entry, Activation

\* A dispatch loop is entered.
LEMMA RunKeeps ==
  ASSUME NEW v, ControlInv(v)
  PROVE  ControlInv(RunThunk(v))
<1> DEFINE a == Entry(v, "run", 0)
           w == RunThunk(v)
<1>1. v \in ControlVM /\ ~ v.bad /\ AftersOK(v)
  BY DEF ControlInv
<1>2. /\ a \in Activation /\ a.kind = "run" /\ a.ref = 0
      /\ a.depth = v.depth /\ a.mark = Len(v.unwind) /\ a.excs = v.nexc /\ a.guards = v.nh
  <2>1. "run" \in Kind /\ 0 \in Nat
    BY DEF Kind
  <2> QED BY <1>1, <2>1, EntryType
<1>3. ~ Draining(a) /\ ~ Installed(a) /\ ~ Unwound(a) /\ ~ HasNumber(a)
  BY <1>2 DEF Draining, Installed, Unwound, HasNumber
<1> HIDE DEF a
<1>4. /\ w.c = Append(v.c, a) /\ w.depth = v.depth + 1 /\ w.unwind = v.unwind /\ w.nexc = v.nexc /\ w.nh = v.nh
      /\ w.handlers = v.handlers /\ w.exc = v.exc /\ w.param = v.param /\ w.pending = v.pending
      /\ w.n = v.n /\ w.after = v.after /\ w.bad = v.bad
  BY <1>1 DEF RunThunk, Enter, ControlVM, a
<1>5. w \in ControlVM
  <2>1. Append(v.c, a) \in Seq(Activation) /\ v.depth + 1 \in Nat
    BY <1>1, <1>2, VMFields, AppendProperties
  <2> QED BY <1>1, <2>1 DEF RunThunk, Enter, ControlVM, a
<1> HIDE DEF w
<1>6. v.nexc \in Nat /\ v.nh \in Nat /\ v.n \in Nat
  BY <1>1, VMFields
<1>7. Entering(v, w, a)
  BY <1>1, <1>2, <1>3, <1>4, <1>5, <1>6 DEF Entering, One
<1>8. Fits(v, w, a)
  BY <1>2, <1>3 DEF Fits
<1>9. AftersOK(w)
  BY <1>1, <1>2, <1>4, <1>7, EnterAfters
<1>10. ControlInv(w)
  BY <1>1, <1>7, <1>8, <1>9, EnterKeeps
<1> QED BY <1>10 DEF w

LEMMA FreshId ==
  ASSUME NEW v, ControlInv(v), v.n < MaxEntries
  PROVE  /\ Fresh(v) \in Nat /\ Fresh(v) = v.n + 1 /\ Fresh(v) \in 1 .. v.n + 1 /\ v.n + 1 \in 0 .. MaxEntries
         /\ \A j \in 1 .. Len(v.c) : HasNumber(v.c[j]) => v.c[j].id # Fresh(v)
<1>1. v.n \in Nat /\ MaxEntries \in Nat
  BY VMFields, CapAssumption DEF ControlInv
<1>2. \A j \in 1 .. Len(v.c) : HasNumber(v.c[j]) => v.c[j].id \in 1 .. v.n
  BY DEF ControlInv, IdsOK, IdOK
<1> QED BY <1>1, <1>2 DEF Fresh

\* What changes in neither the entries nor the arrays.
LEMMA NothingKeeps ==
  ASSUME NEW v, ControlInv(v), NEW w \in ControlVM,
         w.c = v.c, w.depth = v.depth, w.unwind = v.unwind, w.nexc = v.nexc, w.nh = v.nh,
         w.handlers = v.handlers, w.exc = v.exc, w.param = v.param, w.pending = v.pending,
         w.after = v.after, w.bad = v.bad, w.n >= v.n
  PROVE  ControlInv(w)
<1>1. v \in ControlVM /\ v.n \in Nat /\ w.n \in Nat
  BY VMFields DEF ControlInv
<1>2. /\ ~ w.bad /\ ChangesOK(v) /\ GuardsOK(v) /\ UsedOK(v) /\ ClausesOK(v) /\ CountsOK(v) /\ OwnersOK(v)
      /\ FirstsOK(v) /\ SavedsOK(v) /\ DipsOK(v) /\ EscapesOK(v) /\ ParamsOK(v)
      /\ RaisesOK(v) /\ SlotsOK(v) /\ IdsOK(v) /\ PlacesOK(v) /\ AftersOK(v)
  BY DEF ControlInv
<1>3. Here(w) = Here(v)
  BY DEF Here
<1>4. \A j : /\ MarkAt(w, j) = MarkAt(v, j) /\ ExcsAt(w, j) = ExcsAt(v, j)
             /\ DepthAt(w, j) = DepthAt(v, j) /\ GuardsAt(w, j) = GuardsAt(v, j)
  BY DEF MarkAt, ExcsAt, DepthAt, GuardsAt
<1>5. /\ \A p : Calm(w, p) <=> Calm(v, p)
      /\ \A p : /\ InstalledBelow(w, p) = InstalledBelow(v, p) /\ UnwoundBelow(w, p) = UnwoundBelow(v, p)
                /\ RunsBelow(w, p) = RunsBelow(v, p) /\ HandlingBelow(w, p) = HandlingBelow(v, p)
  BY DEF Calm, InstalledBelow, UnwoundBelow, RunsBelow, HandlingBelow
<1>6. /\ \A i, p : Held(w, i, p) <=> Held(v, i, p)
      /\ \A i, p, x : Kept(w, i, p, x) <=> Kept(v, i, p, x)
  BY <1>4 DEF Held, Kept
<1>7. /\ \A p, x : Rank(w, p, x) = Rank(v, p, x)
      /\ \A i, p : Wehs(w, i, p) = Wehs(v, i, p)
  BY <1>4, <1>5 DEF Rank, Wehs
<1>8. ChangesOK(w)
  BY <1>2, <1>4 DEF ChangesOK, Change
<1>9. GuardsOK(w)
  BY <1>2, <1>3, <1>4 DEF GuardsOK, GuardOK
<1>10. UsedOK(w)
  BY <1>2, <1>3, <1>4 DEF UsedOK, SlotUsed
<1>11. ClausesOK(w)
  BY <1>2 DEF ClausesOK, ClauseOK
<1>12. CountsOK(w)
  BY <1>2, <1>3, <1>4, <1>5 DEF CountsOK, CountOK
<1>13. OwnersOK(w)
  BY <1>2, <1>3, <1>4, <1>6 DEF OwnersOK, OwnerOK
<1>14. FirstsOK(w)
  BY <1>2, <1>3, <1>4, <1>6, <1>7 DEF FirstsOK, FirstOK
<1>15. SavedsOK(w)
  BY <1>2, <1>3, <1>4, <1>6, <1>7 DEF SavedsOK, SavedOK
<1>16. DipsOK(w)
  BY <1>2, <1>4, <1>6 DEF DipsOK, DipOK
<1>17. EscapesOK(w)
  BY <1>2, <1>4, <1>6 DEF EscapesOK, EscapeOK, Leads
<1>18. ParamsOK(w)
  BY <1>1, <1>2, SameParams
<1>19. RaisesOK(w)
  <2> SUFFICES ASSUME NEW r \in 1 .. Len(v.c), v.c[r].kind = "raise" PROVE RaiseOK(w, r)
    BY DEF RaisesOK, RaiseOK
  <2>1. RaiseOK(v, r) /\ v.c[r].ref \in Nat
    BY <1>1, <1>2, EntryFields DEF RaisesOK
  <2>2. w.c[r].excs >= 1 /\ w.c[r].ref <= w.n
    BY <1>1, <2>1 DEF RaiseOK
  <2> QED BY <1>5, <1>6, <1>7, <2>1, <2>2 DEF RaiseOK
<1>20. SlotsOK(w)
  BY <1>2, <1>3, <1>5, <1>6, <1>7 DEF SlotsOK, SlotOK
<1>21. IdsOK(w)
  <2>1. ASSUME NEW i \in 1 .. Len(w.c) PROVE IdOK(w, i)
    <3>1. IdOK(v, i)
      BY <1>2 DEF IdsOK
    <3> QED BY <1>1, <3>1 DEF IdOK
  <2>2. ASSUME NEW k \in 1 .. CREME_EXC_HANDLERS_CAP PROVE w.exc[k] <= w.n
    <3>1. v.exc[k] <= v.n /\ v.exc[k] \in Nat
      BY <1>1, <1>2, VMFields DEF IdsOK
    <3> QED BY <1>1, <3>1
  <2> QED BY <2>1, <2>2 DEF IdsOK
<1>22. PlacesOK(w)
  BY <1>2 DEF PlacesOK, PlaceOK
<1>23. AftersOK(w)
  BY <1>1, <1>2, SameAfters
<1> QED BY <1>2, <1>8, <1>9, <1>10, <1>11, <1>12, <1>13, <1>14, <1>15, <1>16, <1>17, <1>18, <1>19, <1>20,
           <1>21, <1>22, <1>23 DEF ControlInv

LEMMA NumberedKeeps ==
  ASSUME NEW v, ControlInv(v), v.n < MaxEntries
  PROVE  /\ ControlInv(Numbered(v))
         /\ Numbered(v).c = v.c /\ Numbered(v).nh = v.nh /\ Numbered(v).handlers = v.handlers
         /\ Numbered(v).nexc = v.nexc
<1> DEFINE w == Numbered(v)
<1>1. v \in ControlVM /\ v.n + 1 \in 0 .. MaxEntries /\ v.n \in Nat
  BY FreshId, VMFields DEF ControlInv
<1>2. /\ w.c = v.c /\ w.depth = v.depth /\ w.unwind = v.unwind /\ w.nexc = v.nexc /\ w.nh = v.nh
      /\ w.handlers = v.handlers /\ w.exc = v.exc /\ w.param = v.param /\ w.pending = v.pending
      /\ w.after = v.after /\ w.bad = v.bad /\ w.n = v.n + 1 /\ w \in ControlVM
  BY <1>1 DEF Numbered, ControlVM
<1> HIDE DEF w
<1>3. ControlInv(w)
  BY <1>1, <1>2, NothingKeeps
<1> QED BY <1>2, <1>3 DEF w

LEMMA ExitKeeps ==
  ASSUME NEW v, ControlInv(v)
  PROVE  ControlInv([v EXCEPT !.exited = TRUE])
<1> DEFINE w == [v EXCEPT !.exited = TRUE]
<1>1. v \in ControlVM /\ v.n \in Nat
  BY VMFields DEF ControlInv
<1>2. /\ w.c = v.c /\ w.depth = v.depth /\ w.unwind = v.unwind /\ w.nexc = v.nexc /\ w.nh = v.nh
      /\ w.handlers = v.handlers /\ w.exc = v.exc /\ w.param = v.param /\ w.pending = v.pending
      /\ w.after = v.after /\ w.bad = v.bad /\ w.n = v.n /\ w \in ControlVM
  BY <1>1 DEF ControlVM
<1> HIDE DEF w
<1>3. ControlInv(w)
  BY <1>1, <1>2, NothingKeeps
<1> QED BY <1>3 DEF w

\* What Scheme code is inside of.
LEMMA SchemeTop ==
  ASSUME NEW v, ControlInv(v), Scheme(v)
  PROVE  /\ v \in ControlVM /\ ~ v.bad /\ Len(v.c) \in Nat /\ Len(v.c) >= 1 /\ Len(v.c) \in 1 .. Len(v.c)
         /\ OfScheme(v.c[Len(v.c)])
<1>1. v \in ControlVM /\ ~ v.bad /\ Len(v.c) \in Nat /\ Len(v.c) >= 1
  BY VMFields DEF ControlInv, PlacesOK
<1> QED BY <1>1 DEF Scheme, Top, OfScheme

LEMMA KeptHere ==
  ASSUME NEW v, ControlInv(v), OfScheme(v.c[Len(v.c)]), NEW j \in 1 .. Len(v.c), KeepsHandlers(v, j)
  PROVE  \A i \in j .. Here(v) : ExcsAt(v, i) >= ExcsAt(v, j)
<1> DEFINE N == Len(v.c)
<1>1. v \in ControlVM /\ N \in Nat /\ N >= 1 /\ N \in 1 .. N /\ Here(v) = N + 1 /\ ChangesOK(v)
  BY VMFields DEF ControlInv, PlacesOK, Here
<1>2. ~ Drains(v.c[N]) /\ v.c[N].kind # "weh" /\ v.c[N].kind # "raise"
  BY DEF OfScheme, Drains, Installed, Draining
<1>3. ExcsAt(v, N) \in Nat /\ ExcsAt(v, N + 1) \in Nat
  <2>1. N \in Nat /\ N + 1 \in Nat /\ 1 <= N /\ 1 <= N + 1
    BY <1>1
  <2> HIDE DEF N
  <2> QED BY <1>1, <2>1, AtFields
<1>4. ExcsAt(v, N + 1) = ExcsAt(v, N)
  <2>1. Change(v, N)
    BY <1>1 DEF ChangesOK
  <2> QED BY <1>2, <1>3, <2>1 DEF Change, One
<1>5. \A i \in j .. N : ExcsAt(v, i) >= ExcsAt(v, j)
  <2>1. \A i \in j .. N : i \in 1 .. N /\ v.c[i].excs >= v.c[j].excs
    BY <1>1 DEF KeepsHandlers
  <2> QED BY <1>1, <2>1, AtHere
<1>6. \A i \in j .. N + 1 : i \in j .. N \/ i = N + 1
  BY <1>1
<1>7. N \in j .. N
  BY <1>1
<1> QED BY <1>1, <1>4, <1>5, <1>6, <1>7

\* A condition is raised to the innermost guard, which is still there.
LEMMA RaiseKeeps ==
  ASSUME NEW v, ControlInv(v), OfScheme(v.c[Len(v.c)]), NEW cond \in Nat,
         v.nh = 0 \/ \A j \in Catching(v) : KeepsHandlers(v, j)
  PROVE  ControlInv(raise_uncaught_or_to_guard(v, cond))
<1>1. v \in ControlVM /\ v.nh \in Nat /\ Len(v.c) \in Nat /\ Here(v) = Len(v.c) + 1 /\ ~ v.bad /\ v.n \in Nat
      /\ v.c \in Seq(Activation)
  BY VMFields DEF ControlInv, Here
<1>2. GuardsOK(v) /\ UsedOK(v) /\ IdsOK(v) /\ PlacesOK(v)
  BY DEF ControlInv
<1>3. CASE v.nh = 0
  BY <1>1, <1>3, ExitKeeps DEF raise_uncaught_or_to_guard
<1>4. CASE v.nh # 0
  <2>1. v.nh \in 1 .. v.nh /\ Here(v) \in 1 .. Here(v) /\ GuardsAt(v, Here(v)) = v.nh
    BY <1>1, <1>4, AtHere
  <2>2. PICK g \in 1 .. Here(v) - 1 : Installed(v.c[g]) /\ v.c[g].guards + 1 = v.nh
    BY <1>2, <2>1 DEF UsedOK, SlotUsed
  <2>3. g \in 1 .. Len(v.c) /\ v.c[g].kind = "guard" /\ HasNumber(v.c[g]) /\ v.c[g] \in Activation
    BY <1>1, <2>2, EntryFields DEF Installed, HasNumber
  <2>4. v.handlers[v.nh].id = v.c[g].id
    <3>1. GuardOK(v, g)
      BY <1>2, <2>3 DEF GuardsOK
    <3> QED BY <2>2, <2>3, <3>1 DEF GuardOK
  <2>5. Catching(v) = {g}
    <3>1. g \in Catching(v)
      BY <1>1, <2>2, <2>3, <2>4 DEF Catching
    <3>2. ASSUME NEW j \in Catching(v) PROVE j = g
      <4>1. j \in 1 .. Len(v.c) /\ HasNumber(v.c[j]) /\ v.c[j].id = v.c[g].id
        BY <1>1, <2>4 DEF Catching, HasNumber, Installed
      <4> QED BY <1>2, <2>3, <4>1 DEF IdsOK, IdOK
    <3> QED BY <3>1, <3>2
  <2> DEFINE w0 == [v EXCEPT !.nh = @ - 1, !.pending = cond]
             b == [v.c[g] EXCEPT !.ref = v.nh, !.want = cond]
             w == Enter(CutTo(w0, g), b)
  <2>6. raise_uncaught_or_to_guard(v, cond) = w
    <3>1. v.nh > 0
      BY <1>1, <1>4
    <3>2. (CHOOSE j \in Catching(v) : TRUE) = g /\ Catching(v) # {}
      BY <2>5
    <3> QED BY <3>1, <3>2 DEF raise_uncaught_or_to_guard, creme_raise_condition
  <2>7. b \in Activation
    BY <1>1, <2>3 DEF Activation
  <2>8. v.nh - 1 \in Nat
    BY <1>1, <1>4
  <2>9. SubSeq(v.c, 1, g - 1) \in Seq(Activation) /\ Len(SubSeq(v.c, 1, g - 1)) = g - 1
        /\ \A j \in 1 .. g - 1 : SubSeq(v.c, 1, g - 1)[j] = v.c[j]
    <3>1. 1 \in 1 .. Len(v.c) + 1 /\ g - 1 \in 0 .. Len(v.c)
      BY <1>1, <2>3
    <3> QED BY <1>1, <2>3, <3>1, SubSeqProperties
  <2> HIDE DEF b
  <2>10. /\ w.c = Append(SubSeq(v.c, 1, g - 1), b)
         /\ w.nh = v.nh - 1 /\ w.pending = cond /\ w.unwind = v.unwind /\ w.nexc = v.nexc /\ w.depth = v.depth
         /\ w.handlers = v.handlers /\ w.exc = v.exc /\ w.param = v.param /\ w.after = v.after /\ w.n = v.n /\ w.bad = v.bad
    BY <1>1 DEF Enter, CutTo, ControlVM
  <2>11. w \in ControlVM
    <3>1. Append(SubSeq(v.c, 1, g - 1), b) \in Seq(Activation)
      BY <2>7, <2>9, AppendProperties
    <3> QED BY <1>1, <2>8, <3>1 DEF Enter, CutTo, ControlVM
  <2> HIDE DEF w
  <2>12. Len(w.c) = g /\ w.c[g] = b /\ \A j \in 1 .. g - 1 : w.c[j] = v.c[j]
    <3> DEFINE s == SubSeq(v.c, 1, g - 1)
    <3>1. Len(s) = g - 1 /\ s \in Seq(Activation) /\ (g - 1) + 1 = g
      BY <2>3, <2>9
    <3>2. Len(Append(s, b)) = g /\ Append(s, b)[g] = b /\ \A j \in 1 .. g - 1 : Append(s, b)[j] = s[j]
      <4> HIDE DEF s
      <4> QED BY <2>7, <3>1, AppendProperties
    <3> QED BY <2>9, <2>10, <3>2
  <2>13. \A j \in g .. Here(v) : ExcsAt(v, j) >= ExcsAt(v, g)
    <3>1. KeepsHandlers(v, g)
      BY <1>4, <2>5
    <3> QED BY <2>3, <3>1, KeptHere
  <2>14. Jumped(v, w, g)
    <3>1. w.n >= v.n /\ ~ w.bad /\ v.nh = v.c[g].guards + 1 /\ w.nh = v.c[g].guards
      <4>1. v.c[g].guards \in Nat
        BY <1>1, <2>3, EntryFields
      <4> QED BY <1>1, <2>2, <2>10, <4>1
    <3>2. w.c[g] = [v.c[g] EXCEPT !.ref = v.nh, !.want = w.pending]
      BY <2>10, <2>12 DEF b
    <3> QED BY <2>2, <2>3, <2>10, <2>11, <2>12, <2>13, <3>1, <3>2 DEF Jumped
  <2>15. ControlInv(w)
    BY <1>1, <2>14, JumpKeeps
  <2> QED BY <2>6, <2>15
<1> QED BY <1>3, <1>4

\* The after thunk of the last action is called.
LEMMA AfterCalled ==
  ASSUME NEW v \in ControlVM, NEW w \in ControlVM, AftersOK(v), IdsOK(v), Len(v.unwind) >= 1,
         v.unwind[Len(v.unwind)].what = "wind",
         Len(w.unwind) = Len(v.unwind) - 1, \A k \in 1 .. Len(w.unwind) : w.unwind[k] = v.unwind[k],
         w.after = [v.after EXCEPT ![v.unwind[Len(v.unwind)].id] = @ + 1], w.n = v.n,
         \A j \in 1 .. Len(w.c) : w.c[j].kind = "wind" =>
           \/ \E i \in 1 .. Len(v.c) : w.c[j] = v.c[i]
           \/ w.c[j].phase = "after" /\ w.c[j].id = v.unwind[Len(v.unwind)].id
  PROVE  AftersOK(w)
<1> DEFINE L == Len(v.unwind)
           d == v.unwind[L].id
<1>1. L \in Nat /\ L >= 1 /\ L \in 1 .. L /\ v.n \in Nat /\ v.n <= MaxEntries /\ v.after \in [1 .. MaxEntries -> Nat]
      /\ MaxEntries \in Nat
  BY VMFields, CapAssumption
<1>2. /\ d \in 1 .. v.n /\ v.after[d] = 0
      /\ \A m \in 1 .. L : v.unwind[m].what = "wind" /\ v.unwind[m].id = d => m = L
  BY <1>1 DEF AftersOK
<1>3. d \in 1 .. MaxEntries
  BY <1>1, <1>2
<1>4. Len(w.unwind) = L - 1 /\ w.after = [v.after EXCEPT ![d] = @ + 1]
      /\ \A k \in 1 .. L - 1 : w.unwind[k] = v.unwind[k] /\ k \in 1 .. L /\ k # L
  BY <1>1
<1> HIDE DEF L, d
<1>5. w.after[d] = 1 /\ \A x \in 1 .. MaxEntries : x # d => w.after[x] = v.after[x]
  BY <1>1, <1>2, <1>3, <1>4
<1>6. ASSUME NEW id \in 1 .. MaxEntries PROVE w.after[id] <= 1 /\ (id > w.n => w.after[id] = 0)
  <2>1. v.after[id] <= 1 /\ (id > v.n => v.after[id] = 0)
    BY DEF AftersOK
  <2>2. CASE id = d
    BY <1>1, <1>2, <1>5, <2>2
  <2>3. CASE id # d
    BY <1>5, <2>1, <2>3
  <2> QED BY <2>2, <2>3
<1>7. ASSUME NEW k \in 1 .. Len(w.unwind), w.unwind[k].what = "wind"
      PROVE  /\ w.unwind[k].id \in 1 .. w.n /\ w.after[w.unwind[k].id] = 0
             /\ \A m \in 1 .. Len(w.unwind) :
                  w.unwind[m].what = "wind" /\ w.unwind[m].id = w.unwind[k].id => m = k
  <2>1. w.unwind[k] = v.unwind[k] /\ k \in 1 .. L /\ k # L
    BY <1>4
  <2>2. /\ v.unwind[k].id \in 1 .. v.n /\ v.after[v.unwind[k].id] = 0
        /\ \A m \in 1 .. L : v.unwind[m].what = "wind" /\ v.unwind[m].id = v.unwind[k].id => m = k
    BY <1>7, <2>1 DEF AftersOK, L
  <2>3. v.unwind[k].id # d /\ v.unwind[k].id \in 1 .. MaxEntries
    BY SMTT(60), <1>1, <1>2, <1>7, <2>1, <2>2
  <2>4. \A m \in 1 .. Len(w.unwind) : m \in 1 .. L /\ w.unwind[m] = v.unwind[m]
    BY <1>4
  <2> QED BY <1>5, <2>1, <2>2, <2>3, <2>4
<1>8. ASSUME NEW j \in 1 .. Len(w.c), w.c[j].kind = "wind"
      PROVE  /\ w.c[j].phase = "before" =>
                  /\ w.after[w.c[j].id] = 0
                  /\ \A k \in 1 .. Len(w.unwind) : ~ (w.unwind[k].what = "wind" /\ w.unwind[k].id = w.c[j].id)
             /\ w.c[j].phase = "after" => w.after[w.c[j].id] = 1
  <2>1. CASE w.c[j].phase = "after" /\ w.c[j].id = d
    BY <1>5, <2>1
  <2>2. CASE \E i \in 1 .. Len(v.c) : w.c[j] = v.c[i]
    <3>1. PICK i \in 1 .. Len(v.c) : w.c[j] = v.c[i]
      BY <2>2
    <3>2. /\ v.c[i].phase = "before" =>
               /\ v.after[v.c[i].id] = 0
               /\ \A k \in 1 .. L : ~ (v.unwind[k].what = "wind" /\ v.unwind[k].id = v.c[i].id)
          /\ v.c[i].phase = "after" => v.after[v.c[i].id] = 1
      BY <1>8, <3>1 DEF AftersOK, L
    <3>3. v.c[i].id \in 1 .. MaxEntries
      <4>1. v.c[i].id \in 1 .. v.n
        BY <1>8, <3>1 DEF IdsOK, IdOK, HasNumber
      <4> QED BY <1>1, <4>1
    <3>4. v.c[i].phase = "before" => v.c[i].id # d
      BY <1>1, <3>2 DEF d, L
    <3>5. v.c[i].phase = "after" => v.c[i].id # d
      BY <1>2, <3>2
    <3>6. \A m \in 1 .. Len(w.unwind) : m \in 1 .. L /\ w.unwind[m] = v.unwind[m]
      BY <1>4
    <3> QED BY <1>5, <3>1, <3>2, <3>3, <3>4, <3>5, <3>6
  <2> QED BY <1>8, <2>1, <2>2 DEF d, L
<1> QED BY <1>6, <1>7, <1>8 DEF AftersOK

LEMMA PopFields ==
  ASSUME NEW v \in ControlVM, Len(v.unwind) >= 1
  PROVE  LET w == PopUnwind(v)
             L == Len(v.unwind)
         IN /\ w \in ControlVM /\ Len(w.unwind) = L - 1 /\ \A k \in 1 .. L - 1 : w.unwind[k] = v.unwind[k]
            /\ w = [v EXCEPT !.unwind = w.unwind] /\ w.unwind \in Seq(UnwindAction)
<1> DEFINE L == Len(v.unwind)
           s == SubSeq(v.unwind, 1, L - 1)
<1>1. L \in Nat /\ v.unwind \in Seq(UnwindAction) /\ 1 \in 1 .. L + 1 /\ L - 1 \in 0 .. L
  BY VMFields
<1>2. s \in Seq(UnwindAction) /\ Len(s) = L - 1 /\ \A k \in 1 .. L - 1 : s[k] = v.unwind[k]
  BY <1>1, SubSeqProperties
<1> HIDE DEF s
<1>3. PopUnwind(v) = [v EXCEPT !.unwind = s]
  BY DEF PopUnwind, s
<1>4. PopUnwind(v) \in ControlVM /\ PopUnwind(v).unwind = s
  BY <1>2, <1>3 DEF ControlVM
<1> QED BY <1>2, <1>3, <1>4

LEMMA OneCall ==
  ASSUME NEW S, NEW f \in [S -> Nat], NEW d \in S
  PROVE  [f EXCEPT ![d] = @ + 1] \in [S -> Nat]
<1>1. f[d] + 1 \in Nat
  OBVIOUS
<1> QED BY <1>1

\* What drains may unwind once more.
MayUnwind(v) ==
  LET N == Len(v.c)
      L == Len(v.unwind)
  IN /\ Drains(v.c[N]) /\ L >= 1
     /\ Draining(v.c[N]) => L > v.c[N].mark
     /\ v.c[N].kind = "escape" => \E t \in 1 .. N - 1 : Leads(v, N, t) /\ L > MarkAt(v, t)

LEMMA UnwindKeeps ==
  ASSUME NEW v, ControlInv(v), MayUnwind(v)
  PROVE  ControlInv(Unwind(v))
<1> DEFINE L == Len(v.unwind)
           last == v.unwind[L]
           u == PopUnwind(v)
<1>1. v \in ControlVM /\ ~ v.bad /\ AftersOK(v) /\ IdsOK(v) /\ SavedsOK(v) /\ PlacesOK(v) /\ L \in Nat /\ L >= 1
      /\ L \in 1 .. L /\ v.n \in Nat /\ v.n <= MaxEntries /\ MaxEntries \in Nat
  BY VMFields, CapAssumption DEF ControlInv, MayUnwind
<1>2. last.what \in {"param", "weh", "wind"} /\ last.id \in Nat /\ last.saved \in Nat
  BY <1>1, ActionFields
<1>3. /\ u \in ControlVM /\ Len(u.unwind) = L - 1 /\ \A k \in 1 .. L - 1 : u.unwind[k] = v.unwind[k]
      /\ u = [v EXCEPT !.unwind = u.unwind] /\ u.unwind \in Seq(UnwindAction)
  BY <1>1, PopFields
<1> HIDE DEF u, last
<1>4. /\ u.c = v.c /\ u.depth = v.depth /\ u.nexc = v.nexc /\ u.nh = v.nh /\ u.handlers = v.handlers
      /\ u.exc = v.exc /\ u.param = v.param /\ u.pending = v.pending /\ u.n = v.n /\ u.after = v.after /\ u.bad = v.bad
  BY <1>1, <1>3 DEF ControlVM
<1>5. Unwind(v) = run_unwind_action(u, last)
  BY DEF Unwind, u, last
<1>6. ASSUME NEW w \in ControlVM, w.c = v.c, Len(w.unwind) = L - 1, \A k \in 1 .. L - 1 : w.unwind[k] = v.unwind[k],
             w.nexc = IF last.what = "weh" THEN last.saved ELSE v.nexc,
             w.param = IF last.what = "param" THEN last.saved ELSE v.param,
             w.depth = v.depth, w.nh = v.nh, w.handlers = v.handlers, w.exc = v.exc, w.pending = v.pending,
             w.n = v.n, ~ w.bad
      PROVE  Drained(v, w)
  <2>1. Len(v.c) >= 1
    BY <1>1 DEF PlacesOK
  <2> QED BY <1>1, <1>6, <2>1 DEF Drained, MayUnwind, last
<1>7. ASSUME NEW w \in ControlVM, w.c = v.c, Len(w.unwind) = L - 1, \A k \in 1 .. L - 1 : w.unwind[k] = v.unwind[k],
             w.after = v.after, w.n = v.n
      PROVE  AftersOK(w)
  <2>1. \A k \in 1 .. Len(w.unwind) : k \in 1 .. L /\ w.unwind[k] = v.unwind[k]
    BY <1>1, <1>7
  <2> QED BY SMTT(60), <1>1, <1>7, <2>1, SameAfters
<1>8. CASE last.what = "wind"
  <2> DEFINE w == [u EXCEPT !.after[last.id] = @ + 1]
  <2>1. last.id \in 1 .. v.n
    BY <1>1, <1>8 DEF AftersOK, last
  <2>2. [v.after EXCEPT ![last.id] = @ + 1] \in [1 .. MaxEntries -> Nat]
    <3>1. last.id \in 1 .. MaxEntries /\ v.after \in [1 .. MaxEntries -> Nat]
      BY <1>1, <2>1, VMFields
    <3> QED BY <3>1, OneCall
  <2>3. /\ w \in ControlVM /\ w.c = v.c /\ w.unwind = u.unwind /\ w.nexc = v.nexc /\ w.param = v.param
        /\ w.depth = v.depth /\ w.nh = v.nh /\ w.handlers = v.handlers /\ w.exc = v.exc /\ w.pending = v.pending
        /\ w.n = v.n /\ w.bad = v.bad /\ w.after = [v.after EXCEPT ![last.id] = @ + 1]
    BY <1>3, <1>4, <2>2 DEF ControlVM
  <2>4. Unwind(v) = RunThunk(w)
    BY <1>5, <1>8 DEF run_unwind_action, CallAfter
  <2> HIDE DEF w
  <2>5. Drained(v, w)
    BY <1>1, <1>3, <1>6, <1>8, <2>3
  <2>6. AftersOK(w)
    BY ZenonT(60), <1>1, <1>3, <1>8, <2>3, AfterCalled DEF last
  <2>7. ControlInv(w)
    BY <1>1, <2>5, <2>6, DrainedKeeps
  <2> QED BY <2>4, <2>7, RunKeeps
<1>9. CASE last.what = "weh"
  <2> DEFINE w == [u EXCEPT !.nexc = last.saved]
  <2>1. last.saved \in 0 .. CREME_EXC_HANDLERS_CAP
    <3>1. last.saved <= CREME_EXC_HANDLERS_CAP
      BY <1>1, <1>9 DEF SavedsOK, last
    <3> QED BY <1>2, <3>1, CapAssumption
  <2>2. /\ w \in ControlVM /\ w.c = v.c /\ w.unwind = u.unwind /\ w.nexc = last.saved /\ w.param = v.param
        /\ w.depth = v.depth /\ w.nh = v.nh /\ w.handlers = v.handlers /\ w.exc = v.exc /\ w.pending = v.pending
        /\ w.n = v.n /\ w.bad = v.bad /\ w.after = v.after
    BY <1>3, <1>4, <2>1 DEF ControlVM
  <2>3. Unwind(v) = w
    BY <1>5, <1>9 DEF run_unwind_action
  <2> HIDE DEF w
  <2>4. Drained(v, w)
    BY <1>1, <1>3, <1>6, <1>9, <2>2
  <2>5. AftersOK(w)
    BY <1>3, <1>7, <2>2
  <2> QED BY <1>1, <2>3, <2>4, <2>5, DrainedKeeps
<1>10. CASE last.what = "param"
  <2> DEFINE w == [u EXCEPT !.param = last.saved]
  <2>1. /\ w \in ControlVM /\ w.c = v.c /\ w.unwind = u.unwind /\ w.nexc = v.nexc /\ w.param = last.saved
        /\ w.depth = v.depth /\ w.nh = v.nh /\ w.handlers = v.handlers /\ w.exc = v.exc /\ w.pending = v.pending
        /\ w.n = v.n /\ w.bad = v.bad /\ w.after = v.after
    BY <1>2, <1>3, <1>4 DEF ControlVM
  <2>2. Unwind(v) = w
    BY <1>5, <1>10 DEF run_unwind_action
  <2> HIDE DEF w
  <2>3. Drained(v, w)
    BY <1>1, <1>3, <1>6, <1>10, <2>1
  <2>4. AftersOK(w)
    BY <1>3, <1>7, <2>1
  <2> QED BY <1>1, <2>2, <2>3, <2>4, DrainedKeeps
<1> QED BY <1>2, <1>8, <1>9, <1>10

\* The habits are those of no program that is considered.
LEMMA Tame ==
  ASSUME Habit = {}, NEW v
  PROVE  /\ MayRaise(v) => v.nh = 0 \/ \A j \in Catching(v) : KeepsHandlers(v, j)
         /\ MayGuard(v) => /\ v.nh < CREME_HANDLERS_CAP
                           /\ \A j \in DOMAIN v.c : ~ Draining(v.c[j]) /\ v.c[j].kind # "tests"
         /\ MayInstall(v) => v.nexc < CREME_EXC_HANDLERS_CAP /\ Len(v.unwind) < CREME_UNWIND_CAP
BY DEF MayRaise, MayGuard, MayInstall

LEMMA GuardKeeps ==
  ASSUME NEW v, ControlInv(v), Scheme(v), Habit = {}, v.n < MaxEntries, MayGuard(v)
  PROVE  ControlInv(OP_PUSHHANDLER(v))
<1> DEFINE a == Entry(v, "guard", Fresh(v))
           h == [id |-> Fresh(v), depth |-> v.depth, mark |-> Len(v.unwind)]
           w == OP_PUSHHANDLER(v)
<1>1. v \in ControlVM /\ ~ v.bad /\ AftersOK(v) /\ OfScheme(v.c[Len(v.c)]) /\ Len(v.c) >= 1
  BY SchemeTop DEF ControlInv
<1>2. /\ Fresh(v) \in Nat /\ Fresh(v) = v.n + 1 /\ Fresh(v) \in 1 .. v.n + 1 /\ v.n + 1 \in 0 .. MaxEntries
      /\ \A j \in 1 .. Len(v.c) : HasNumber(v.c[j]) => v.c[j].id # Fresh(v)
  BY FreshId
<1>3. /\ a \in Activation /\ a.kind = "guard" /\ a.ref = 0 /\ a.id = Fresh(v)
      /\ a.depth = v.depth /\ a.mark = Len(v.unwind) /\ a.excs = v.nexc /\ a.guards = v.nh
  <2>1. "guard" \in Kind
    BY DEF Kind
  <2> QED BY ZenonT(60), <1>1, <1>2, <2>1, EntryType
<1>4. ~ Draining(a) /\ Installed(a) /\ ~ Unwound(a) /\ HasNumber(a)
  BY <1>3 DEF Draining, Installed, Unwound, HasNumber
<1> HIDE DEF a
<1>5. v.nexc \in Nat /\ v.nh \in Nat /\ v.n \in Nat /\ v.depth \in Nat /\ Len(v.unwind) \in Nat
      /\ v.handlers \in [1 .. CREME_HANDLERS_CAP -> Handler] /\ v.c \in Seq(Activation)
  BY <1>1, VMFields
<1>6. v.nh < CREME_HANDLERS_CAP /\ \A j \in 1 .. Len(v.c) : v.c[j].kind # "tests" /\ ~ Draining(v.c[j])
  BY <1>5, Tame
<1>7. h \in Handler
  BY <1>2, <1>5 DEF Handler
<1> HIDE DEF h
<1>8. [v.handlers EXCEPT ![v.nh + 1] = h] \in [1 .. CREME_HANDLERS_CAP -> Handler]
  BY <1>5, <1>7
<1>9. /\ w.c = Append(v.c, a) /\ w.depth = v.depth /\ w.unwind = v.unwind /\ w.nexc = v.nexc /\ w.nh = v.nh + 1
      /\ w.handlers = [v.handlers EXCEPT ![v.nh + 1] = h] /\ w.exc = v.exc /\ w.param = v.param
      /\ w.pending = v.pending /\ w.n = v.n + 1 /\ w.after = v.after /\ w.bad = v.bad
  BY <1>1 DEF OP_PUSHHANDLER, Enter, Numbered, ControlVM, a, h
<1>10. w \in ControlVM
  <2>1. Append(v.c, a) \in Seq(Activation) /\ v.nh + 1 \in Nat
    BY <1>3, <1>5, AppendProperties
  <2> QED BY <1>1, <1>2, <1>8, <2>1 DEF OP_PUSHHANDLER, Enter, Numbered, ControlVM, a, h
<1> HIDE DEF w
<1>11. h = [id |-> a.id, depth |-> a.depth, mark |-> a.mark]
  BY <1>3 DEF h
<1>12. Entering(v, w, a)
  BY <1>1, <1>3, <1>4, <1>5, <1>6, <1>9, <1>10, <1>11 DEF Entering, One
<1>13. Fits(v, w, a)
  BY <1>1, <1>2, <1>3, <1>6, <1>9 DEF Fits
<1>14. AftersOK(w)
  BY <1>1, <1>3, <1>9, <1>12, EnterAfters
<1>15. ControlInv(w)
  BY <1>1, <1>12, <1>13, <1>14, EnterKeeps
<1> QED BY <1>15 DEF w

\* How the innermost entry changed the arrays.
LEMMA TopChange ==
  ASSUME NEW v, ControlInv(v)
  PROVE  LET a == v.c[Len(v.c)] IN
         /\ v \in ControlVM /\ Len(v.c) \in Nat /\ Len(v.c) >= 1 /\ Len(v.c) \in 1 .. Len(v.c) /\ a \in Activation
         /\ a.guards \in Nat /\ a.mark \in Nat /\ a.excs \in Nat /\ a.depth \in Nat
         /\ v.nh \in Nat /\ v.nexc \in Nat /\ v.depth \in Nat /\ Len(v.unwind) \in Nat
         /\ v.nh = a.guards + One(Installed(a))
         /\ ~ Drains(a) => /\ Len(v.unwind) = a.mark + One(Unwound(a))
                           /\ v.nexc = a.excs + One(a.kind = "weh") - One(a.kind = "raise")
                           /\ v.depth = a.depth + One(a.kind = "run")
<1> DEFINE N == Len(v.c)
<1>1. v \in ControlVM /\ N \in Nat /\ N >= 1 /\ N \in 1 .. N /\ Here(v) = N + 1 /\ ChangesOK(v)
  BY VMFields DEF ControlInv, PlacesOK, Here
<1>2. Change(v, N)
  BY <1>1 DEF ChangesOK
<1>3. /\ MarkAt(v, N) = v.c[N].mark /\ ExcsAt(v, N) = v.c[N].excs
      /\ DepthAt(v, N) = v.c[N].depth /\ GuardsAt(v, N) = v.c[N].guards
      /\ MarkAt(v, N + 1) = Len(v.unwind) /\ ExcsAt(v, N + 1) = v.nexc
      /\ DepthAt(v, N + 1) = v.depth /\ GuardsAt(v, N + 1) = v.nh
  BY <1>1, AtHere
<1>4. v.nh \in Nat /\ v.nexc \in Nat /\ v.depth \in Nat /\ Len(v.unwind) \in Nat
  BY <1>1, VMFields
<1>5. v.c[N] \in Activation /\ v.c[N].guards \in Nat /\ v.c[N].mark \in Nat /\ v.c[N].excs \in Nat /\ v.c[N].depth \in Nat
  BY <1>1, EntryFields
<1> HIDE DEF N
<1>6. LET a == v.c[N] IN
      /\ v.nh = a.guards + One(Installed(a))
      /\ ~ Drains(a) => /\ Len(v.unwind) = a.mark + One(Unwound(a))
                        /\ v.nexc = a.excs + One(a.kind = "weh") - One(a.kind = "raise")
                        /\ v.depth = a.depth + One(a.kind = "run")
  BY <1>2, <1>3 DEF Change
<1> QED BY <1>1, <1>4, <1>5, <1>6 DEF N

LEMMA CutFields ==
  ASSUME NEW v \in ControlVM, NEW t \in 1 .. Len(v.c)
  PROVE  LET w == CutTo(v, t) IN
         /\ w \in ControlVM /\ w.c = SubSeq(v.c, 1, t - 1) /\ w.c \in Seq(Activation) /\ Len(w.c) = t - 1
         /\ \A j \in 1 .. t - 1 : w.c[j] = v.c[j]
         /\ w.depth = v.depth /\ w.unwind = v.unwind /\ w.nexc = v.nexc /\ w.nh = v.nh
         /\ w.handlers = v.handlers /\ w.exc = v.exc /\ w.param = v.param /\ w.pending = v.pending
         /\ w.after = v.after /\ w.n = v.n /\ w.bad = v.bad /\ w.exited = v.exited
<1> DEFINE s == SubSeq(v.c, 1, t - 1)
<1>1. Len(v.c) \in Nat /\ v.c \in Seq(Activation) /\ 1 \in 1 .. Len(v.c) + 1 /\ t - 1 \in 0 .. Len(v.c)
  BY VMFields
<1>2. s \in Seq(Activation) /\ Len(s) = t - 1 /\ \A j \in 1 .. t - 1 : s[j] = v.c[j]
  BY <1>1, SubSeqProperties
<1>3. CutTo(v, t) = [v EXCEPT !.c = s]
  BY DEF CutTo
<1> HIDE DEF s
<1>4. LET w == CutTo(v, t) IN
      /\ w \in ControlVM /\ w.c = s
      /\ w.depth = v.depth /\ w.unwind = v.unwind /\ w.nexc = v.nexc /\ w.nh = v.nh
      /\ w.handlers = v.handlers /\ w.exc = v.exc /\ w.param = v.param /\ w.pending = v.pending
      /\ w.after = v.after /\ w.n = v.n /\ w.bad = v.bad /\ w.exited = v.exited
  BY <1>2, <1>3 DEF ControlVM
<1> QED BY <1>2, <1>4 DEF s

\* What has no action and is no handler returns.
LEMMA LeaveTop ==
  ASSUME NEW v, ControlInv(v), Len(v.c) >= 2,
         ~ Drains(v.c[Len(v.c)]), ~ Unwound(v.c[Len(v.c)]), v.c[Len(v.c)].kind # "raise",
         NEW w \in ControlVM, w.c = SubSeq(v.c, 1, Len(v.c) - 1),
         w.depth = v.c[Len(v.c)].depth, w.nh = v.c[Len(v.c)].guards, w.unwind = v.unwind, w.nexc = v.nexc,
         w.handlers = v.handlers, w.exc = v.exc, w.param = v.param, w.pending = v.pending,
         w.after = v.after, w.n = v.n, w.bad = v.bad
  PROVE  ControlInv(w)
<1> DEFINE N == Len(v.c)
<1>1. /\ v \in ControlVM /\ N \in Nat /\ N \in 2 .. N /\ Here(v) = N + 1 /\ ~ v.bad /\ v.n \in Nat
      /\ SlotsOK(v) /\ ParamsOK(v) /\ AftersOK(v) /\ IdsOK(v) /\ N \in 1 .. Here(v)
  BY VMFields DEF ControlInv, Here
<1>2. v.c[N].kind # "weh"
  BY DEF Unwound
<1>3. Len(v.unwind) = v.c[N].mark /\ v.nexc = v.c[N].excs /\ v.c[N].mark \in Nat /\ v.c[N].excs \in Nat
  BY <1>2, TopChange DEF One
<1>4. /\ MarkAt(v, N) = v.c[N].mark /\ ExcsAt(v, N) = v.c[N].excs
      /\ MarkAt(v, N + 1) = Len(v.unwind) /\ ExcsAt(v, N + 1) = v.nexc
  BY <1>1, AtHere
<1>5. \A j \in N .. N + 1 : j = N \/ j = N + 1
  BY <1>1
<1>6. HeldFrom(v, N) /\ \A j \in N .. Here(v) : ExcsAt(v, j) >= ExcsAt(v, N)
  <2>1. ASSUME NEW j \in N .. N + 1 PROVE MarkAt(v, j) >= MarkAt(v, N) /\ ExcsAt(v, j) >= ExcsAt(v, N)
    <3>1. MarkAt(v, j) = MarkAt(v, N) /\ ExcsAt(v, j) = ExcsAt(v, N)
      BY <1>3, <1>4, <1>5
    <3>2. MarkAt(v, N) \in Nat /\ ExcsAt(v, N) \in Nat
      BY <1>3, <1>4
    <3> QED BY <3>1, <3>2
  <2> QED BY <1>1, <2>1 DEF HeldFrom
<1>7. Left(v, w, N)
  BY <1>1, <1>3, <1>6 DEF Left, IdsOK
<1>8. SlotsOK(w)
  BY <1>1, <1>6, <1>7, LeaveSlots
<1>9. ParamsOK(w)
  BY <1>1, SameParams
<1>10. AftersOK(w)
  <2>1. \A j \in 1 .. Len(w.c) : j \in 1 .. Len(v.c) /\ w.c[j] = v.c[j]
    <3>1. Len(w.c) = N - 1 /\ \A j \in 1 .. N - 1 : w.c[j] = v.c[j]
      <4>1. N \in 1 .. N
        BY <1>1
      <4> QED BY <1>1, <4>1, CutFields
    <3> QED BY <1>1, <3>1
  <2> QED BY SMTT(60), <1>1, <2>1, SameAfters
<1> QED BY <1>1, <1>7, <1>8, <1>9, <1>10, LeaveKeeps

LEMMA PopKeeps ==
  ASSUME NEW v, ControlInv(v), Len(v.c) >= 2,
         v.c[Len(v.c)].kind \in {"tests", "callcc"} \/ (v.c[Len(v.c)].kind = "wind" /\ v.c[Len(v.c)].phase # "thunk")
  PROVE  ControlInv(Pop(v))
<1> DEFINE N == Len(v.c)
           a == v.c[N]
           w == Pop(v)
<1>1. a.kind \notin {"guard", "param", "weh", "run", "raise", "escape"} /\ ~ Unwound(a)
  BY DEF Unwound
<1>2. ~ Drains(a) /\ ~ Unwound(a) /\ ~ Installed(a) /\ a.kind # "raise" /\ a.kind # "weh" /\ a.kind # "run"
  BY <1>1 DEF Drains, Draining, Installed
<1>3. /\ v \in ControlVM /\ N \in 1 .. N /\ N - 1 \in Nat /\ v.nh = a.guards /\ v.depth = a.depth
  <2>1. /\ v \in ControlVM /\ N \in 1 .. N /\ N \in Nat /\ N >= 1 /\ v.nh = a.guards + One(Installed(a))
        /\ v.depth = a.depth + One(a.kind = "run") /\ a.guards \in Nat /\ a.depth \in Nat
    BY <1>2, TopChange
  <2>2. One(Installed(a)) = 0 /\ One(a.kind = "run") = 0
    BY <1>2 DEF One
  <2> QED BY <2>1, <2>2
<1>4. /\ w \in ControlVM /\ w.c = SubSeq(v.c, 1, N - 1)
      /\ w.depth = v.depth /\ w.unwind = v.unwind /\ w.nexc = v.nexc /\ w.nh = v.nh
      /\ w.handlers = v.handlers /\ w.exc = v.exc /\ w.param = v.param /\ w.pending = v.pending
      /\ w.after = v.after /\ w.n = v.n /\ w.bad = v.bad
  BY <1>3, CutFields DEF Pop
<1> HIDE DEF w
<1>5. ControlInv(w)
  BY <1>2, <1>3, <1>4, LeaveTop
<1> QED BY <1>5 DEF w

LEMMA LeaveGuardKeeps ==
  ASSUME NEW v, ControlInv(v), Installed(Top(v))
  PROVE  ControlInv(OP_POPHANDLER(v))
<1> DEFINE N == Len(v.c)
           a == v.c[N]
           u == Pop(v)
           w == [u EXCEPT !.nh = @ - 1]
<1>1. a.kind = "guard" /\ Installed(a) /\ ~ Unwound(a) /\ ~ Drains(a)
  BY DEF Installed, Unwound, Drains, Draining, Top
<1>2. /\ v \in ControlVM /\ N \in 1 .. N /\ N \in Nat /\ v.nh = a.guards + 1 /\ v.depth = a.depth /\ a.guards \in Nat
  <2>1. /\ v \in ControlVM /\ N \in 1 .. N /\ N \in Nat /\ N >= 1 /\ v.nh = a.guards + One(Installed(a))
        /\ v.depth = a.depth + One(a.kind = "run") /\ a.guards \in Nat /\ a.depth \in Nat
    BY <1>1, TopChange
  <2>2. One(Installed(a)) = 1 /\ One(a.kind = "run") = 0
    BY <1>1 DEF One
  <2> QED BY <2>1, <2>2
<1>3. N >= 2
  <2>1. PlaceOK(v, N)
    BY <1>2 DEF ControlInv, PlacesOK
  <2> QED BY <1>1, <1>2, <2>1 DEF PlaceOK
<1>4. /\ u \in ControlVM /\ u.c = SubSeq(v.c, 1, N - 1)
      /\ u.depth = v.depth /\ u.unwind = v.unwind /\ u.nexc = v.nexc /\ u.nh = v.nh
      /\ u.handlers = v.handlers /\ u.exc = v.exc /\ u.param = v.param /\ u.pending = v.pending
      /\ u.after = v.after /\ u.n = v.n /\ u.bad = v.bad
  BY <1>2, CutFields DEF Pop
<1> HIDE DEF u
<1>5. /\ w \in ControlVM /\ w.c = u.c /\ w.nh = a.guards
      /\ w.depth = v.depth /\ w.unwind = v.unwind /\ w.nexc = v.nexc
      /\ w.handlers = v.handlers /\ w.exc = v.exc /\ w.param = v.param /\ w.pending = v.pending
      /\ w.after = v.after /\ w.n = v.n /\ w.bad = v.bad
  <2>1. v.nh - 1 \in Nat /\ v.nh - 1 = a.guards
    BY <1>2
  <2> HIDE DEF a
  <2> QED BY <1>4, <2>1 DEF ControlVM
<1>6. OP_POPHANDLER(v) = w
  BY DEF OP_POPHANDLER, u
<1> HIDE DEF w
<1>7. ControlInv(w)
  BY <1>1, <1>2, <1>3, <1>4, <1>5, LeaveTop
<1> QED BY <1>6, <1>7

LEMMA TakeClauseKeeps ==
  ASSUME NEW v, ControlInv(v), Top(v).kind = "tests"
  PROVE  /\ ControlInv(Pop(v)) /\ v.pending = Top(v).id
         /\ OfScheme(Pop(v).c[Len(Pop(v).c)]) /\ v.pending \in Nat
<1> DEFINE N == Len(v.c)
<1>1. v \in ControlVM /\ N \in 1 .. N /\ N \in Nat /\ ClausesOK(v) /\ PlacesOK(v) /\ v.c[N].kind = "tests" /\ v.pending \in Nat
  <2>1. v.c[N].kind = "tests"
    BY DEF Top
  <2> QED BY <2>1, TopChange, VMFields DEF ControlInv
<1>2. N >= 2 /\ OfScheme(v.c[N - 1])
  <2>1. PlaceOK(v, N)
    BY <1>1 DEF PlacesOK
  <2> QED BY <1>1, <2>1 DEF PlaceOK
<1>3. ControlInv(Pop(v))
  BY <1>1, <1>2, PopKeeps
<1>4. v.pending = Top(v).id
  BY <1>1 DEF ClausesOK, ClauseOK, Top
<1>5. Len(Pop(v).c) = N - 1 /\ Pop(v).c[N - 1] = v.c[N - 1]
  <2>1. N - 1 \in 1 .. N - 1
    BY <1>1, <1>2
  <2> QED BY <1>1, <2>1, CutFields DEF Pop
<1> QED BY <1>1, <1>2, <1>3, <1>4, <1>5

LEMMA ReraiseKeeps ==
  ASSUME NEW v, ControlInv(v), Top(v).kind = "tests", Habit = {}, MayRaise(Pop(v))
  PROVE  ControlInv(OP_GUARDRERAISE(v))
<1> DEFINE u == Pop(v)
<1>1. /\ ControlInv(u) /\ v.pending = Top(v).id /\ OfScheme(u.c[Len(u.c)]) /\ v.pending \in Nat
  BY TakeClauseKeeps
<1>2. u.nh = 0 \/ \A j \in Catching(u) : KeepsHandlers(u, j)
  BY Tame
<1>3. OP_GUARDRERAISE(v) = raise_uncaught_or_to_guard(u, v.pending)
  BY <1>1 DEF OP_GUARDRERAISE
<1> HIDE DEF u
<1>4. ControlInv(raise_uncaught_or_to_guard(u, v.pending))
  BY <1>1, <1>2, RaiseKeeps
<1> QED BY <1>3, <1>4

LEMMA ParamKeeps ==
  ASSUME NEW v, ControlInv(v), v.n < MaxEntries
  PROVE  ControlInv(OP_PARAMPUSH(v))
<1> DEFINE a == Entry(v, "param", Fresh(v))
           item == [what |-> "param", id |-> Fresh(v), saved |-> v.param]
           w == OP_PARAMPUSH(v)
<1>1. v \in ControlVM /\ ~ v.bad /\ AftersOK(v)
  BY DEF ControlInv
<1>2. /\ Fresh(v) \in Nat /\ Fresh(v) = v.n + 1 /\ Fresh(v) \in 1 .. v.n + 1 /\ v.n + 1 \in 0 .. MaxEntries
      /\ \A j \in 1 .. Len(v.c) : HasNumber(v.c[j]) => v.c[j].id # Fresh(v)
  BY FreshId
<1>3. /\ a \in Activation /\ a.kind = "param" /\ a.ref = 0 /\ a.id = Fresh(v)
      /\ a.depth = v.depth /\ a.mark = Len(v.unwind) /\ a.excs = v.nexc /\ a.guards = v.nh
  <2>1. "param" \in Kind
    BY DEF Kind
  <2> QED BY ZenonT(60), <1>1, <1>2, <2>1, EntryType
<1>4. ~ Draining(a) /\ ~ Installed(a) /\ Unwound(a) /\ HasNumber(a)
  BY <1>3 DEF Draining, Installed, Unwound, HasNumber
<1> HIDE DEF a
<1>5. v.nexc \in Nat /\ v.nh \in Nat /\ v.n \in Nat /\ v.depth \in Nat /\ v.param \in Nat
      /\ v.unwind \in Seq(UnwindAction) /\ v.c \in Seq(Activation)
  BY <1>1, VMFields
<1>6. item \in UnwindAction
  BY <1>2, <1>5 DEF UnwindAction
<1> HIDE DEF item
<1>7. Append(v.c, a) \in Seq(Activation) /\ Append(v.unwind, item) \in Seq(UnwindAction)
  BY <1>3, <1>5, <1>6, AppendProperties
<1>8. /\ w.c = Append(v.c, a) /\ w.depth = v.depth /\ w.unwind = Append(v.unwind, item) /\ w.nexc = v.nexc
      /\ w.nh = v.nh /\ w.handlers = v.handlers /\ w.exc = v.exc /\ w.param = Fresh(v)
      /\ w.pending = v.pending /\ w.n = v.n + 1 /\ w.after = v.after /\ w.bad = v.bad
  BY <1>1 DEF OP_PARAMPUSH, PushUnwind, Enter, Numbered, ControlVM, a, item
<1>9. w \in ControlVM
  BY <1>1, <1>2, <1>7 DEF OP_PARAMPUSH, PushUnwind, Enter, Numbered, ControlVM, a, item
<1> HIDE DEF w
<1>10. item = [what |-> a.kind, id |-> a.id, saved |-> Saved(v, a)]
  BY <1>3 DEF item, Saved
<1>11. Entering(v, w, a)
  BY <1>1, <1>3, <1>4, <1>5, <1>8, <1>9, <1>10 DEF Entering, One
<1>12. Fits(v, w, a)
  BY <1>2, <1>3, <1>4, <1>8 DEF Fits, Installed
<1>13. AftersOK(w)
  BY <1>1, <1>3, <1>8, <1>11, EnterAfters
<1>14. ControlInv(w)
  BY <1>1, <1>11, <1>12, <1>13, EnterKeeps
<1> QED BY <1>14 DEF w

LEMMA CallCCKeeps ==
  ASSUME NEW v, ControlInv(v), v.n < MaxEntries
  PROVE  ControlInv(bi_call_cc(v))
<1> DEFINE a == Entry(v, "callcc", Fresh(v))
           w == Enter(Numbered(v), a)
<1>1. v \in ControlVM /\ ~ v.bad /\ AftersOK(v)
  BY DEF ControlInv
<1>2. /\ Fresh(v) \in Nat /\ Fresh(v) = v.n + 1 /\ Fresh(v) \in 1 .. v.n + 1 /\ v.n + 1 \in 0 .. MaxEntries
      /\ \A j \in 1 .. Len(v.c) : HasNumber(v.c[j]) => v.c[j].id # Fresh(v)
  BY FreshId
<1>3. /\ a \in Activation /\ a.kind = "callcc" /\ a.ref = 0 /\ a.id = Fresh(v)
      /\ a.depth = v.depth /\ a.mark = Len(v.unwind) /\ a.excs = v.nexc /\ a.guards = v.nh
  <2>1. "callcc" \in Kind
    BY DEF Kind
  <2> QED BY ZenonT(60), <1>1, <1>2, <2>1, EntryType
<1>4. ~ Draining(a) /\ ~ Installed(a) /\ ~ Unwound(a) /\ HasNumber(a)
  BY <1>3 DEF Draining, Installed, Unwound, HasNumber
<1> HIDE DEF a
<1>5. v.nexc \in Nat /\ v.nh \in Nat /\ v.n \in Nat /\ v.depth \in Nat /\ v.c \in Seq(Activation)
  BY <1>1, VMFields
<1>6. Append(v.c, a) \in Seq(Activation)
  BY <1>3, <1>5, AppendProperties
<1>7. /\ w.c = Append(v.c, a) /\ w.depth = v.depth /\ w.unwind = v.unwind /\ w.nexc = v.nexc
      /\ w.nh = v.nh /\ w.handlers = v.handlers /\ w.exc = v.exc /\ w.param = v.param
      /\ w.pending = v.pending /\ w.n = v.n + 1 /\ w.after = v.after /\ w.bad = v.bad
  BY <1>1 DEF Enter, Numbered, ControlVM
<1>8. w \in ControlVM
  BY <1>1, <1>2, <1>6 DEF Enter, Numbered, ControlVM
<1>9. bi_call_cc(v) = RunThunk(w)
  BY DEF bi_call_cc, a
<1> HIDE DEF w
<1>10. Entering(v, w, a)
  BY <1>1, <1>3, <1>4, <1>5, <1>7, <1>8 DEF Entering, One
<1>11. Fits(v, w, a)
  BY <1>2, <1>3, <1>4, <1>7 DEF Fits
<1>12. AftersOK(w)
  BY <1>1, <1>3, <1>7, <1>10, EnterAfters
<1>13. ControlInv(w)
  BY <1>1, <1>10, <1>11, <1>12, EnterKeeps
<1> QED BY <1>9, <1>13, RunKeeps

\* A dynamic-wind calls its before thunk.
LEMMA WindKeeps ==
  ASSUME NEW v, ControlInv(v), v.n < MaxEntries
  PROVE  ControlInv(bi_dynamic_wind(v))
<1> DEFINE a == [Entry(v, "wind", Fresh(v)) EXCEPT !.phase = "before"]
           w == Enter(Numbered(v), a)
<1>1. v \in ControlVM /\ ~ v.bad /\ AftersOK(v)
  BY DEF ControlInv
<1>2. /\ Fresh(v) \in Nat /\ Fresh(v) = v.n + 1 /\ Fresh(v) \in 1 .. v.n + 1 /\ v.n + 1 \in 0 .. MaxEntries
      /\ \A j \in 1 .. Len(v.c) : HasNumber(v.c[j]) => v.c[j].id # Fresh(v)
  BY FreshId
<1>3. /\ a \in Activation /\ a.kind = "wind" /\ a.phase = "before" /\ a.ref = 0 /\ a.id = Fresh(v)
      /\ a.depth = v.depth /\ a.mark = Len(v.unwind) /\ a.excs = v.nexc /\ a.guards = v.nh
  <2> DEFINE b == Entry(v, "wind", Fresh(v))
  <2>1. "wind" \in Kind /\ "before" \in Phase
    BY DEF Kind, Phase
  <2>2. /\ b \in Activation /\ b.kind = "wind" /\ b.id = Fresh(v) /\ b.ref = 0
        /\ b.depth = v.depth /\ b.mark = Len(v.unwind) /\ b.excs = v.nexc /\ b.guards = v.nh
    BY ZenonT(60), <1>1, <1>2, <2>1, EntryType
  <2>3. a = [b EXCEPT !.phase = "before"]
    OBVIOUS
  <2> HIDE DEF b
  <2> QED BY <2>1, <2>2, <2>3 DEF Activation
<1>4. ~ Draining(a) /\ ~ Installed(a) /\ ~ Unwound(a) /\ HasNumber(a)
  BY <1>3 DEF Draining, Installed, Unwound, HasNumber
<1>5. bi_dynamic_wind(v) = RunThunk(w)
  BY DEF bi_dynamic_wind
<1> HIDE DEF a
<1>6. v.nexc \in Nat /\ v.nh \in Nat /\ v.n \in Nat /\ v.depth \in Nat /\ v.c \in Seq(Activation)
  BY <1>1, VMFields
<1>7. Append(v.c, a) \in Seq(Activation)
  BY <1>3, <1>6, AppendProperties
<1>8. /\ w.c = Append(v.c, a) /\ w.depth = v.depth /\ w.unwind = v.unwind /\ w.nexc = v.nexc
      /\ w.nh = v.nh /\ w.handlers = v.handlers /\ w.exc = v.exc /\ w.param = v.param
      /\ w.pending = v.pending /\ w.n = v.n + 1 /\ w.after = v.after /\ w.bad = v.bad
  BY <1>1 DEF Enter, Numbered, ControlVM
<1>9. w \in ControlVM
  BY <1>1, <1>2, <1>7 DEF Enter, Numbered, ControlVM
<1> HIDE DEF w
<1>10. Entering(v, w, a)
  BY <1>1, <1>3, <1>4, <1>6, <1>8, <1>9 DEF Entering, One
<1>11. Fits(v, w, a)
  BY <1>2, <1>3, <1>4, <1>8 DEF Fits
<1>12. AftersOK(w)
  <2>1. /\ \A id \in 1 .. MaxEntries : v.after[id] <= 1 /\ (id > v.n => v.after[id] = 0)
        /\ \A k \in 1 .. Len(v.unwind) : v.unwind[k].what = "wind" =>
             /\ v.unwind[k].id \in 1 .. v.n /\ v.after[v.unwind[k].id] = 0
             /\ \A m \in 1 .. Len(v.unwind) :
                  v.unwind[m].what = "wind" /\ v.unwind[m].id = v.unwind[k].id => m = k
    BY <1>1 DEF AftersOK
  <2>2. \A id \in 1 .. MaxEntries : w.after[id] <= 1 /\ (id > w.n => w.after[id] = 0)
    BY <1>6, <1>8, <2>1
  <2>3. \A k \in 1 .. Len(w.unwind) : w.unwind[k].what = "wind" =>
          /\ w.unwind[k].id \in 1 .. w.n /\ w.after[w.unwind[k].id] = 0
          /\ \A m \in 1 .. Len(w.unwind) :
               w.unwind[m].what = "wind" /\ w.unwind[m].id = w.unwind[k].id => m = k
    BY <1>6, <1>8, <2>1
  <2>4. ASSUME NEW j \in 1 .. Len(w.c), w.c[j].kind = "wind"
        PROVE  /\ w.c[j].phase = "before" =>
                    /\ w.after[w.c[j].id] = 0
                    /\ \A k \in 1 .. Len(w.unwind) : ~ (w.unwind[k].what = "wind" /\ w.unwind[k].id = w.c[j].id)
               /\ w.c[j].phase = "after" => w.after[w.c[j].id] = 1
    <3>1. Len(v.c) \in Nat /\ Len(w.c) = Len(v.c) + 1 /\ w.c[Len(v.c) + 1] = a /\ \A i \in 1 .. Len(v.c) : w.c[i] = v.c[i]
      BY <1>3, <1>6, <1>8, AppendProperties
    <3>2. CASE j = Len(v.c) + 1
      <4>1. w.c[j] = a
        BY <3>1, <3>2
      <4>2. Fresh(v) \in 1 .. MaxEntries /\ Fresh(v) > v.n /\ ~ (Fresh(v) \in 1 .. v.n)
        BY <1>2, <1>6, CapAssumption
      <4>3. w.after[Fresh(v)] = 0
        BY <1>8, <2>1, <4>2
      <4> QED BY <1>3, <1>8, <2>1, <4>1, <4>2, <4>3
    <3>3. CASE j \in 1 .. Len(v.c)
      <4>1. w.c[j] = v.c[j]
        BY <3>1, <3>3
      <4> QED BY <1>1, <1>8, <2>4, <3>3, <4>1 DEF AftersOK
    <3> QED BY <3>1, <3>2, <3>3
  <2> QED BY <2>2, <2>3, <2>4 DEF AftersOK
<1>13. ControlInv(w)
  BY <1>1, <1>10, <1>11, <1>12, EnterKeeps
<1> QED BY <1>5, <1>13, RunKeeps

\* The innermost entry is left.
LEMMA LeftTop ==
  ASSUME NEW v, ControlInv(v), Len(v.c) >= 2, ~ Drains(v.c[Len(v.c)]),
         NEW w \in ControlVM, ~ w.bad, w.c = SubSeq(v.c, 1, Len(v.c) - 1),
         w.depth = v.c[Len(v.c)].depth, w.nexc = v.c[Len(v.c)].excs, w.nh = v.c[Len(v.c)].guards,
         Len(w.unwind) = v.c[Len(v.c)].mark, \A k \in 1 .. Len(w.unwind) : w.unwind[k] = v.unwind[k],
         w.handlers = v.handlers, w.pending = v.pending, w.n = v.n,
         \A k \in 1 .. CREME_EXC_HANDLERS_CAP : w.exc[k] <= w.n
  PROVE  Left(v, w, Len(v.c))
<1> DEFINE N == Len(v.c)
<1>1. /\ v \in ControlVM /\ N \in Nat /\ N \in 2 .. N /\ Here(v) = N + 1 /\ v.n \in Nat
  BY VMFields DEF ControlInv, Here
<1>2. v.c[N].mark \in Nat /\ Len(v.unwind) \in Nat /\ Len(v.unwind) = v.c[N].mark + One(Unwound(v.c[N]))
  BY TopChange
<1>3. One(Unwound(v.c[N])) \in Nat
  BY DEF One
<1>4. Len(v.unwind) >= v.c[N].mark
  BY <1>2, <1>3
<1>5. N \in 1 .. N
  BY <1>1
<1>6. MarkAt(v, N) = v.c[N].mark /\ MarkAt(v, N + 1) = Len(v.unwind)
  BY <1>1, <1>5, AtHere
<1>7. HeldFrom(v, N)
  <2>1. ASSUME NEW j \in N .. N + 1 PROVE MarkAt(v, j) >= MarkAt(v, N)
    <3>1. CASE j = N
      BY <1>2, <1>6, <3>1
    <3>2. CASE j = N + 1
      BY <1>2, <1>4, <1>6, <3>2
    <3> QED BY <1>1, <3>1, <3>2
  <2> QED BY <1>1, <2>1 DEF HeldFrom
<1>8. w.n >= v.n
  BY <1>1
<1> QED BY <1>1, <1>7, <1>8 DEF Left

\* The action of the innermost entry is the last one.
LEMMA TopAction ==
  ASSUME NEW v, ControlInv(v), Unwound(v.c[Len(v.c)])
  PROVE  /\ Len(v.unwind) \in Nat /\ Len(v.unwind) >= 1 /\ Len(v.unwind) = v.c[Len(v.c)].mark + 1
         /\ v.c[Len(v.c)].mark = Len(v.unwind) - 1
         /\ v.unwind[Len(v.unwind)].what = v.c[Len(v.c)].kind /\ v.unwind[Len(v.unwind)].id = v.c[Len(v.c)].id
         /\ Len(v.c) >= 2 /\ ~ Drains(v.c[Len(v.c)]) /\ ~ Installed(v.c[Len(v.c)])
         /\ v.c[Len(v.c)].kind # "run" /\ v.c[Len(v.c)].kind # "raise"
         /\ v.nh = v.c[Len(v.c)].guards /\ v.depth = v.c[Len(v.c)].depth
         /\ v.nexc = v.c[Len(v.c)].excs + One(v.c[Len(v.c)].kind = "weh")
<1> DEFINE N == Len(v.c)
           a == v.c[N]
<1>1. a.kind \in {"param", "weh", "wind"}
  BY DEF Unwound
<1>2. ~ Drains(a) /\ ~ Installed(a) /\ a.kind # "run" /\ a.kind # "raise"
  BY <1>1 DEF Drains, Draining, Installed
<1>3. /\ v \in ControlVM /\ N \in Nat /\ N >= 1 /\ N \in 1 .. N /\ Len(v.unwind) \in Nat
      /\ a.guards \in Nat /\ a.mark \in Nat /\ a.excs \in Nat /\ a.depth \in Nat
      /\ v.nh = a.guards + One(Installed(a)) /\ Len(v.unwind) = a.mark + One(Unwound(a))
      /\ v.nexc = a.excs + One(a.kind = "weh") - One(a.kind = "raise")
      /\ v.depth = a.depth + One(a.kind = "run")
  BY <1>2, TopChange
<1>11. a.mark \in Nat /\ Len(v.unwind) \in Nat
  BY <1>3
<1>4. One(Installed(a)) = 0 /\ One(Unwound(a)) = 1 /\ One(a.kind = "raise") = 0 /\ One(a.kind = "run") = 0
      /\ One(a.kind = "weh") \in Nat
  BY <1>2 DEF One
<1>5. /\ v.nh = a.guards /\ Len(v.unwind) = a.mark + 1 /\ v.depth = a.depth /\ Len(v.unwind) >= 1
      /\ v.nexc = a.excs + One(a.kind = "weh") /\ a.mark = Len(v.unwind) - 1
  <2>1. v.nh = a.guards
    BY <1>3, <1>4
  <2>2. v.depth = a.depth
    BY <1>3, <1>4
  <2>3. Len(v.unwind) = a.mark + 1
    BY <1>3, <1>4
  <2>4. Len(v.unwind) >= 1 /\ a.mark = Len(v.unwind) - 1
    BY <1>11, <2>3
  <2>5. v.nexc = a.excs + One(a.kind = "weh")
    <3> DEFINE x == One(a.kind = "weh")
               y == One(a.kind = "raise")
    <3>1. x \in Nat /\ y = 0 /\ v.nexc = a.excs + x - y /\ a.excs \in Nat
      BY <1>3, <1>4
    <3> HIDE DEF x, y
    <3>2. v.nexc = a.excs + x
      BY <3>1
    <3> QED BY <3>2 DEF x
  <2> HIDE DEF a
  <2> QED BY <2>1, <2>2, <2>3, <2>4, <2>5
<1>6. Here(v) = N + 1 /\ MarkAt(v, N + 1) = Len(v.unwind)
  BY <1>3, AtHere
<1>7. Held(v, N + 1, Here(v))
  <2>1. ASSUME NEW j \in N + 1 .. N + 1 PROVE MarkAt(v, j) >= MarkAt(v, N + 1)
    <3>1. j = N + 1
      BY <1>3
    <3> QED BY <1>11, <1>6, <3>1
  <2> QED BY <1>6, <2>1 DEF Held
<1>8. OwnerOK(v, N)
  BY <1>3 DEF ControlInv, OwnersOK
<1>9. v.unwind[Len(v.unwind)].what = a.kind /\ v.unwind[Len(v.unwind)].id = a.id
  BY <1>6, <1>7, <1>8 DEF OwnerOK
<1>10. N >= 2
  <2>1. v.c[1].kind = "run"
    BY DEF ControlInv, PlacesOK
  <2> QED BY <1>2, <1>3, <2>1
<1> HIDE DEF a
<1> QED BY <1>2, <1>3, <1>5, <1>9, <1>10 DEF a

\* What is left with its action.
LEMMA LeaveActionKeeps ==
  ASSUME NEW v, ControlInv(v), Unwound(v.c[Len(v.c)]),
         NEW w \in ControlVM, w.c = SubSeq(v.c, 1, Len(v.c) - 1), Len(w.unwind) = Len(v.unwind) - 1,
         \A k \in 1 .. Len(v.unwind) - 1 : w.unwind[k] = v.unwind[k],
         w.depth = v.depth, w.nexc = v.c[Len(v.c)].excs, w.nh = v.nh, w.handlers = v.handlers, w.exc = v.exc,
         w.param = IF v.c[Len(v.c)].kind = "param" THEN v.unwind[Len(v.unwind)].saved ELSE v.param,
         w.pending = v.pending, w.n = v.n, w.bad = v.bad, w.after = v.after
  PROVE  ControlInv(w)
<1> DEFINE N == Len(v.c)
           a == v.c[N]
           L == Len(v.unwind)
<1>1. /\ v \in ControlVM /\ N \in Nat /\ Here(v) = N + 1 /\ ~ v.bad /\ v.n \in Nat
      /\ SlotsOK(v) /\ ParamsOK(v) /\ AftersOK(v) /\ IdsOK(v)
  BY VMFields DEF ControlInv, Here
<1>2. /\ L \in Nat /\ L >= 1 /\ a.mark = L - 1 /\ v.unwind[L].what = a.kind
      /\ N >= 2 /\ ~ Drains(a) /\ v.nh = a.guards /\ v.depth = a.depth /\ v.nexc = a.excs + One(a.kind = "weh")
  BY TopAction
<1>3. Left(v, w, N)
  <2>1. \A k \in 1 .. CREME_EXC_HANDLERS_CAP : w.exc[k] <= w.n
    BY <1>1 DEF IdsOK
  <2>2. Len(w.unwind) = a.mark /\ \A k \in 1 .. Len(w.unwind) : w.unwind[k] = v.unwind[k]
    BY <1>2
  <2> QED BY <1>1, <1>2, <2>1, <2>2, LeftTop
<1>4. SlotsOK(w)
  <2>1. N \in 1 .. N /\ N \in Nat /\ 1 <= N
    BY <1>1, <1>2
  <2>2. ExcsAt(v, N) = a.excs /\ ExcsAt(v, N + 1) = v.nexc /\ a.excs \in Nat
    BY <1>1, <2>1, AtHere, EntryFields
  <2>3. v.nexc >= a.excs
    <3>1. v.nexc = a.excs + One(a.kind = "weh") /\ One(a.kind = "weh") \in Nat
      BY <1>2 DEF One
    <3>2. v.nexc \in Nat
      BY <1>1, VMFields
    <3> HIDE DEF a
    <3> QED BY <2>2, <3>1, <3>2
  <2>4. ASSUME NEW j \in N .. Here(v) PROVE ExcsAt(v, j) >= ExcsAt(v, N)
    <3>1. j = N \/ j = N + 1
      BY <1>1
    <3> HIDE DEF a
    <3> QED BY <2>2, <2>3, <3>1
  <2> QED BY <1>1, <1>3, <2>4, LeaveSlots
<1>5. ParamsOK(w)
  <2>1. \A k \in 1 .. Len(w.unwind) : w.unwind[k] = v.unwind[k]
    BY <1>2
  <2>2. w.param = IF v.unwind[L].what = "param" THEN v.unwind[L].saved ELSE v.param
    BY <1>2
  <2> QED BY <1>1, <1>2, <2>1, <2>2, PoppedParams
<1>6. AftersOK(w)
  <2>1. \A j \in 1 .. Len(w.c) : j \in 1 .. Len(v.c) /\ w.c[j] = v.c[j]
    <3>1. N \in 1 .. N
      BY <1>1, <1>2
    <3>2. Len(w.c) = N - 1 /\ \A j \in 1 .. N - 1 : w.c[j] = v.c[j]
      BY <1>1, <3>1, CutFields
    <3> QED BY <1>1, <3>2
  <2>2. \A k \in 1 .. Len(w.unwind) : k \in 1 .. L /\ w.unwind[k] = v.unwind[k]
    BY <1>2
  <2>3. w.n >= v.n
    BY <1>1
  <2> QED BY <1>1, <2>1, <2>2, <2>3, SameAfters
<1> QED BY <1>1, <1>3, <1>4, <1>5, <1>6, LeaveKeeps

\* The innermost entry and its action are taken away.
LEMMA PopBoth ==
  ASSUME NEW v, ControlInv(v), Unwound(v.c[Len(v.c)])
  PROVE  LET w == PopUnwind(Pop(v)) IN
         /\ w \in ControlVM /\ w.c = SubSeq(v.c, 1, Len(v.c) - 1) /\ Len(w.unwind) = Len(v.unwind) - 1
         /\ \A k \in 1 .. Len(v.unwind) - 1 : w.unwind[k] = v.unwind[k]
         /\ w.depth = v.depth /\ w.nexc = v.nexc /\ w.nh = v.nh /\ w.handlers = v.handlers /\ w.exc = v.exc
         /\ w.param = v.param /\ w.pending = v.pending /\ w.n = v.n /\ w.bad = v.bad /\ w.after = v.after
         /\ Len(w.c) = Len(v.c) - 1 /\ \A j \in 1 .. Len(v.c) - 1 : w.c[j] = v.c[j]
         /\ Pop(v).unwind = v.unwind
<1> DEFINE N == Len(v.c)
           u == Pop(v)
           w == PopUnwind(u)
<1>1. v \in ControlVM /\ N \in 1 .. N /\ N \in Nat /\ Len(v.unwind) >= 1
  BY TopAction, TopChange
<1>2. /\ u \in ControlVM /\ u.c = SubSeq(v.c, 1, N - 1) /\ Len(u.c) = N - 1 /\ \A j \in 1 .. N - 1 : u.c[j] = v.c[j]
      /\ u.depth = v.depth /\ u.unwind = v.unwind /\ u.nexc = v.nexc /\ u.nh = v.nh
      /\ u.handlers = v.handlers /\ u.exc = v.exc /\ u.param = v.param /\ u.pending = v.pending
      /\ u.after = v.after /\ u.n = v.n /\ u.bad = v.bad
  BY <1>1, CutFields DEF Pop
<1> HIDE DEF u
<1>3. /\ w \in ControlVM /\ Len(w.unwind) = Len(u.unwind) - 1
      /\ \A k \in 1 .. Len(u.unwind) - 1 : w.unwind[k] = u.unwind[k]
      /\ w = [u EXCEPT !.unwind = w.unwind]
  BY <1>1, <1>2, PopFields
<1> HIDE DEF w
<1>4. /\ w.c = u.c /\ w.depth = u.depth /\ w.nexc = u.nexc /\ w.nh = u.nh /\ w.handlers = u.handlers
      /\ w.exc = u.exc /\ w.param = u.param /\ w.pending = u.pending /\ w.n = u.n /\ w.bad = u.bad /\ w.after = u.after
  BY <1>2, <1>3 DEF ControlVM
<1> QED BY <1>2, <1>3, <1>4 DEF w, u

LEMMA LeaveParamsKeeps ==
  ASSUME NEW v, ControlInv(v), Top(v).kind = "param"
  PROVE  ControlInv(OP_PARAMPOP(v))
<1> DEFINE a == v.c[Len(v.c)]
           u == PopUnwind(Pop(v))
           x == v.unwind[Len(v.unwind)].saved
           w == [u EXCEPT !.param = x]
<1>1. a.kind = "param" /\ Unwound(a)
  BY DEF Top, Unwound
<1>2. /\ u \in ControlVM /\ u.c = SubSeq(v.c, 1, Len(v.c) - 1) /\ Len(u.unwind) = Len(v.unwind) - 1
      /\ \A k \in 1 .. Len(v.unwind) - 1 : u.unwind[k] = v.unwind[k]
      /\ u.depth = v.depth /\ u.nexc = v.nexc /\ u.nh = v.nh /\ u.handlers = v.handlers /\ u.exc = v.exc
      /\ u.param = v.param /\ u.pending = v.pending /\ u.n = v.n /\ u.bad = v.bad /\ u.after = v.after
      /\ Pop(v).unwind = v.unwind
  BY <1>1, PopBoth
<1>3. /\ Len(v.unwind) \in 1 .. Len(v.unwind) /\ v.unwind[Len(v.unwind)].what = "param"
      /\ v.nexc = a.excs + One(a.kind = "weh") /\ v \in ControlVM /\ a.excs \in Nat
  <2>1. Len(v.unwind) \in Nat /\ Len(v.unwind) >= 1 /\ v.unwind[Len(v.unwind)].what = a.kind
    BY <1>1, TopAction
  <2>2. v.nexc = a.excs + One(a.kind = "weh")
    BY <1>1, TopAction
  <2>3. v \in ControlVM /\ a.excs \in Nat
    BY TopChange
  <2> QED BY <1>1, <2>1, <2>2, <2>3
<1>4. x \in Nat
  BY <1>3, ActionFields
<1>5. v.nexc = a.excs
  <2>1. One(a.kind = "weh") = 0
    BY <1>1 DEF One
  <2> QED BY <1>3, <2>1
<1>6. OP_PARAMPOP(v) = w
  BY <1>2, <1>3 DEF OP_PARAMPOP, Unwind, run_unwind_action
<1> HIDE DEF u, x
<1>7. /\ w \in ControlVM /\ w.c = u.c /\ w.unwind = u.unwind /\ w.param = x
      /\ w.depth = v.depth /\ w.nexc = v.nexc /\ w.nh = v.nh /\ w.handlers = v.handlers /\ w.exc = v.exc
      /\ w.pending = v.pending /\ w.n = v.n /\ w.bad = v.bad /\ w.after = v.after
  BY <1>2, <1>4 DEF ControlVM
<1> HIDE DEF w
<1>8. w.param = IF a.kind = "param" THEN v.unwind[Len(v.unwind)].saved ELSE v.param
  BY <1>1, <1>7 DEF x
<1>9. ControlInv(w)
  BY <1>1, <1>2, <1>5, <1>7, <1>8, LeaveActionKeeps
<1> QED BY <1>6, <1>9

LEMMA HandlerReturns ==
  ASSUME NEW v, ControlInv(v), v.c[Len(v.c)].kind = "weh"
  PROVE  ControlInv([PopUnwind(Pop(v)) EXCEPT !.nexc = v.c[Len(v.c)].excs])
<1> DEFINE a == v.c[Len(v.c)]
           u == PopUnwind(Pop(v))
           w == [u EXCEPT !.nexc = a.excs]
<1>1. Unwound(a)
  BY DEF Unwound
<1>2. /\ u \in ControlVM /\ u.c = SubSeq(v.c, 1, Len(v.c) - 1) /\ Len(u.unwind) = Len(v.unwind) - 1
      /\ \A k \in 1 .. Len(v.unwind) - 1 : u.unwind[k] = v.unwind[k]
      /\ u.depth = v.depth /\ u.nexc = v.nexc /\ u.nh = v.nh /\ u.handlers = v.handlers /\ u.exc = v.exc
      /\ u.param = v.param /\ u.pending = v.pending /\ u.n = v.n /\ u.bad = v.bad /\ u.after = v.after
  BY <1>1, PopBoth
<1>3. a.excs \in 0 .. CREME_EXC_HANDLERS_CAP
  <2>1. a \in Activation
    BY TopChange
  <2> QED BY <2>1 DEF Activation
<1> HIDE DEF u
<1>4. /\ w \in ControlVM /\ w.c = u.c /\ w.unwind = u.unwind /\ w.nexc = a.excs
      /\ w.depth = v.depth /\ w.param = v.param /\ w.nh = v.nh /\ w.handlers = v.handlers /\ w.exc = v.exc
      /\ w.pending = v.pending /\ w.n = v.n /\ w.bad = v.bad /\ w.after = v.after
  <2> HIDE DEF a
  <2> QED BY <1>2, <1>3 DEF ControlVM
<1>5. w.param = IF a.kind = "param" THEN v.unwind[Len(v.unwind)].saved ELSE v.param
  BY <1>4
<1> HIDE DEF w
<1>6. ControlInv(w)
  BY <1>1, <1>2, <1>4, <1>5, LeaveActionKeeps
<1> QED BY <1>6 DEF w, u

\* The innermost entry goes on in its next phase.
LEMMA NextPhase ==
  ASSUME NEW v \in ControlVM, NEW j \in 1 .. Len(v.c), NEW ph \in Phase, v.c[j].kind = "wind"
  PROVE  LET a == v.c[j]
             b == [a EXCEPT !.phase = ph]
         IN /\ b \in Activation /\ b.kind = "wind" /\ b.phase = ph /\ b.id = a.id /\ b.ref = a.ref
            /\ b.depth = a.depth /\ b.mark = a.mark /\ b.excs = a.excs /\ b.guards = a.guards
            /\ ~ Draining(b) /\ ~ Installed(b) /\ HasNumber(b) /\ (Unwound(b) <=> ph = "thunk")
<1> DEFINE a == v.c[j]
           b == [a EXCEPT !.phase = ph]
<1>1. a \in Activation /\ a.kind = "wind"
  BY EntryFields
<1> HIDE DEF a
<1>2. /\ b \in Activation /\ b.kind = "wind" /\ b.phase = ph /\ b.id = a.id /\ b.ref = a.ref
      /\ b.depth = a.depth /\ b.mark = a.mark /\ b.excs = a.excs /\ b.guards = a.guards
  BY <1>1 DEF Activation
<1> HIDE DEF b
<1>3. ~ Draining(b) /\ ~ Installed(b) /\ HasNumber(b) /\ (Unwound(b) <=> ph = "thunk")
  BY <1>2 DEF Draining, Installed, HasNumber, Unwound
<1> QED BY <1>2, <1>3 DEF a, b

LEMMA OtherIds ==
  ASSUME NEW v, ControlInv(v), NEW j \in 1 .. Len(v.c), HasNumber(v.c[j])
  PROVE  /\ v.c[j].id \in 1 .. v.n /\ v.c[j].id \in 1 .. MaxEntries
         /\ \A i \in 1 .. Len(v.c) : i # j /\ HasNumber(v.c[i]) => v.c[i].id # v.c[j].id
<1>1. v \in ControlVM /\ IdOK(v, j) /\ v.n \in Nat /\ v.n <= MaxEntries /\ MaxEntries \in Nat
  BY VMFields, CapAssumption DEF ControlInv, IdsOK
<1>2. v.c[j].id \in 1 .. v.n /\ \A i \in 1 .. Len(v.c) : HasNumber(v.c[i]) /\ v.c[j].id = v.c[i].id => j = i
  BY <1>1 DEF IdOK
<1> QED BY <1>1, <1>2

\* The before thunk has returned: the action is pushed, and the thunk called.
LEMMA WindEnters ==
  ASSUME NEW v, ControlInv(v), v.c[Len(v.c)].kind = "wind", v.c[Len(v.c)].phase = "before"
  PROVE  LET a == v.c[Len(v.c)] IN
         ControlInv(RunThunk(PushUnwind(Enter(Pop(v), [a EXCEPT !.phase = "thunk"]), "wind", a.id, 0)))
<1> DEFINE N == Len(v.c)
           a == v.c[N]
           b == [a EXCEPT !.phase = "thunk"]
           u == Pop(v)
           item == [what |-> "wind", id |-> a.id, saved |-> 0]
           w == PushUnwind(Enter(u, b), "wind", a.id, 0)
<1>1. ~ Drains(a) /\ ~ Unwound(a) /\ ~ Installed(a) /\ a.kind # "weh" /\ a.kind # "raise" /\ a.kind # "run" /\ HasNumber(a)
  BY DEF Drains, Draining, Installed, Unwound, HasNumber
<1>2. v \in ControlVM /\ N \in Nat /\ N >= 1 /\ N \in 1 .. N /\ AftersOK(v) /\ ~ v.bad
  BY TopChange DEF ControlInv
<1>3. v.nh = a.guards /\ Len(v.unwind) = a.mark /\ v.nexc = a.excs /\ v.depth = a.depth
  <2>1. /\ v.nh = a.guards + One(Installed(a)) /\ Len(v.unwind) = a.mark + One(Unwound(a))
        /\ v.nexc = a.excs + One(a.kind = "weh") - One(a.kind = "raise") /\ v.depth = a.depth + One(a.kind = "run")
        /\ a.guards \in Nat /\ a.mark \in Nat /\ a.excs \in Nat /\ a.depth \in Nat
    BY <1>1, TopChange
  <2>2. One(Installed(a)) = 0 /\ One(Unwound(a)) = 0 /\ One(a.kind = "weh") = 0 /\ One(a.kind = "raise") = 0
        /\ One(a.kind = "run") = 0
    BY <1>1 DEF One
  <2> HIDE DEF a
  <2> QED BY <2>1, <2>2
<1>4. /\ b \in Activation /\ b.kind = "wind" /\ b.phase = "thunk" /\ b.id = a.id
      /\ b.depth = a.depth /\ b.mark = a.mark /\ b.excs = a.excs /\ b.guards = a.guards
      /\ ~ Draining(b) /\ ~ Installed(b) /\ HasNumber(b) /\ Unwound(b)
  <2>1. "thunk" \in Phase
    BY DEF Phase
  <2> QED BY <1>2, <2>1, NextPhase
<1>5. N >= 2
  <2>1. v.c[1].kind = "run"
    BY DEF ControlInv, PlacesOK
  <2> QED BY <1>1, <1>2, <2>1
<1>6. ControlInv(u)
  BY <1>5, PopKeeps
<1>7. /\ u \in ControlVM /\ u.c \in Seq(Activation) /\ Len(u.c) = N - 1 /\ \A j \in 1 .. N - 1 : u.c[j] = v.c[j]
      /\ u.depth = v.depth /\ u.unwind = v.unwind /\ u.nexc = v.nexc /\ u.nh = v.nh
      /\ u.handlers = v.handlers /\ u.exc = v.exc /\ u.param = v.param /\ u.pending = v.pending
      /\ u.after = v.after /\ u.n = v.n /\ u.bad = v.bad
  BY <1>2, CutFields DEF Pop
<1>8. a.id \in 1 .. v.n /\ a.id \in 1 .. MaxEntries /\ \A i \in 1 .. N : i # N /\ HasNumber(v.c[i]) => v.c[i].id # a.id
  BY <1>1, <1>2, OtherIds
<1>9. v.after[a.id] = 0 /\ \A k \in 1 .. Len(v.unwind) : ~ (v.unwind[k].what = "wind" /\ v.unwind[k].id = a.id)
  BY <1>2 DEF AftersOK
<1> HIDE DEF u, b, a
<1>10. item \in UnwindAction
  BY <1>8 DEF UnwindAction
<1>11. w.unwind = Append(u.unwind, item) /\ u.unwind \in Seq(UnwindAction) /\ Len(u.unwind) \in Nat
  BY <1>7, VMFields DEF PushUnwind, Enter, ControlVM
<1> HIDE DEF item
<1>12. Append(u.c, b) \in Seq(Activation) /\ Append(u.unwind, item) \in Seq(UnwindAction)
  BY <1>4, <1>7, <1>10, <1>11, AppendProperties
<1>13. /\ w.c = Append(u.c, b) /\ w.depth = u.depth /\ w.nexc = u.nexc
       /\ w.nh = u.nh /\ w.handlers = u.handlers /\ w.exc = u.exc /\ w.param = u.param
       /\ w.pending = u.pending /\ w.n = u.n /\ w.after = u.after /\ w.bad = u.bad
  BY <1>7 DEF PushUnwind, Enter, ControlVM
<1>14. w \in ControlVM
  BY <1>7, <1>12 DEF PushUnwind, Enter, ControlVM, item
<1> HIDE DEF w
<1>15. item = [what |-> b.kind, id |-> b.id, saved |-> Saved(u, b)]
  BY <1>4 DEF item, Saved
<1>16. Entering(u, w, b)
  <2>1. u.nexc \in Nat /\ u.depth \in Nat /\ u.nh \in Nat /\ u.n \in Nat
    BY <1>7, VMFields
  <2> QED BY <1>2, <1>3, <1>4, <1>7, <1>11, <1>13, <1>14, <1>15, <2>1 DEF Entering, One
<1>17. Fits(u, w, b)
  <2>1. \A j \in 1 .. Len(u.c) : HasNumber(u.c[j]) => u.c[j].id # b.id
    BY <1>2, <1>4, <1>7, <1>8
  <2> QED BY <1>4, <1>7, <1>8, <1>13, <2>1 DEF Fits
<1>18. AftersOK(w)
  <2>1. /\ \A id \in 1 .. MaxEntries : v.after[id] <= 1 /\ (id > v.n => v.after[id] = 0)
        /\ \A k \in 1 .. Len(v.unwind) : v.unwind[k].what = "wind" =>
             /\ v.unwind[k].id \in 1 .. v.n /\ v.after[v.unwind[k].id] = 0
             /\ \A m \in 1 .. Len(v.unwind) :
                  v.unwind[m].what = "wind" /\ v.unwind[m].id = v.unwind[k].id => m = k
    BY <1>2 DEF AftersOK
  <2> DEFINE L == Len(v.unwind)
  <2>2. /\ L \in Nat /\ Len(w.unwind) = L + 1 /\ w.unwind[L + 1] = item /\ \A k \in 1 .. L : w.unwind[k] = v.unwind[k]
    BY <1>7, <1>10, <1>11, AppendProperties
  <2>3. item.id = a.id /\ item.what = "wind"
    BY DEF item
  <2>4. ASSUME NEW k \in 1 .. Len(w.unwind), w.unwind[k].what = "wind"
        PROVE  /\ w.unwind[k].id \in 1 .. w.n /\ w.after[w.unwind[k].id] = 0
               /\ \A m \in 1 .. Len(w.unwind) :
                    w.unwind[m].what = "wind" /\ w.unwind[m].id = w.unwind[k].id => m = k
    <3>1. \A m \in 1 .. Len(w.unwind) : m \in 1 .. L \/ m = L + 1
      BY <2>2
    <3>2. CASE k = L + 1
      BY SMTT(60), <1>7, <1>8, <1>9, <1>13, <2>2, <2>3, <3>1, <3>2
    <3>3. CASE k \in 1 .. L
      <4>1. /\ w.unwind[k] = v.unwind[k] /\ v.unwind[k].what = "wind" /\ v.unwind[k].id # a.id
        BY <1>9, <2>2, <2>4, <3>3
      <4>2. /\ v.unwind[k].id \in 1 .. v.n /\ v.after[v.unwind[k].id] = 0
            /\ \A m \in 1 .. L : v.unwind[m].what = "wind" /\ v.unwind[m].id = v.unwind[k].id => m = k
        BY <2>1, <3>3, <4>1
      <4>3. \A m \in 1 .. Len(w.unwind) : w.unwind[m].what = "wind" /\ w.unwind[m].id = w.unwind[k].id => m = k
        BY <2>2, <2>3, <3>1, <4>1, <4>2
      <4> QED BY <1>7, <1>13, <4>1, <4>2, <4>3
    <3> QED BY <3>1, <3>2, <3>3
  <2>5. ASSUME NEW j \in 1 .. Len(w.c), w.c[j].kind = "wind"
        PROVE  /\ w.c[j].phase = "before" =>
                    /\ w.after[w.c[j].id] = 0
                    /\ \A k \in 1 .. Len(w.unwind) : ~ (w.unwind[k].what = "wind" /\ w.unwind[k].id = w.c[j].id)
               /\ w.c[j].phase = "after" => w.after[w.c[j].id] = 1
    <3>1. (N - 1) + 1 = N /\ Len(w.c) = N /\ w.c[N] = b /\ \A i \in 1 .. N - 1 : w.c[i] = v.c[i]
      <4>1. (N - 1) + 1 = N
        BY <1>2
      <4>2. Len(w.c) = Len(u.c) + 1 /\ w.c[Len(u.c) + 1] = b /\ \A i \in 1 .. Len(u.c) : w.c[i] = u.c[i]
        BY <1>4, <1>7, <1>13, AppendProperties
      <4> QED BY <1>7, <4>1, <4>2
    <3>2. CASE j = N
      BY <1>4, <3>1, <3>2
    <3>3. CASE j \in 1 .. N - 1
      <4>1. w.c[j] = v.c[j] /\ j \in 1 .. N /\ j # N /\ HasNumber(v.c[j])
        BY <1>2, <2>5, <3>1, <3>3 DEF HasNumber
      <4>2. /\ v.c[j].phase = "before" =>
                 /\ v.after[v.c[j].id] = 0
                 /\ \A k \in 1 .. Len(v.unwind) : ~ (v.unwind[k].what = "wind" /\ v.unwind[k].id = v.c[j].id)
            /\ v.c[j].phase = "after" => v.after[v.c[j].id] = 1
        BY <1>2, <2>5, <4>1 DEF AftersOK
      <4>3. v.c[j].id # a.id
        BY <1>8, <4>1
      <4>4. \A m \in 1 .. Len(w.unwind) : m \in 1 .. L \/ m = L + 1
        BY <2>2
      <4> QED BY SMTT(60), <1>7, <1>13, <2>2, <2>3, <4>1, <4>2, <4>3, <4>4
    <3> QED BY <1>2, <3>1, <3>2, <3>3
  <2>6. \A id \in 1 .. MaxEntries : w.after[id] <= 1 /\ (id > w.n => w.after[id] = 0)
    BY <1>7, <1>13, <2>1
  <2> QED BY <2>4, <2>5, <2>6 DEF AftersOK
<1>19. ControlInv(w)
  BY <1>6, <1>7, <1>16, <1>17, <1>18, EnterKeeps
<1>20. ControlInv(RunThunk(w))
  BY <1>19, RunKeeps
<1> QED BY <1>20 DEF w, u, b, a

\* The thunk has returned: its action is popped, and the after thunk called.
LEMMA WindLeaves ==
  ASSUME NEW v, ControlInv(v), v.c[Len(v.c)].kind = "wind", v.c[Len(v.c)].phase = "thunk"
  PROVE  LET a == v.c[Len(v.c)] IN
         ControlInv(CallAfter(PopUnwind(Enter(Pop(v), [a EXCEPT !.phase = "after"])), a.id))
<1> DEFINE N == Len(v.c)
           L == Len(v.unwind)
           a == v.c[N]
           b == [a EXCEPT !.phase = "after"]
           u == PopUnwind(Pop(v))
           x == Enter(Pop(v), b)
           y == PopUnwind(x)
           w == [y EXCEPT !.after[a.id] = @ + 1]
<1>1. Unwound(a) /\ a.kind # "weh" /\ a.kind # "param" /\ HasNumber(a)
  BY DEF Unwound, HasNumber
<1>2. v \in ControlVM /\ N \in Nat /\ N >= 1 /\ N \in 1 .. N /\ AftersOK(v) /\ IdsOK(v) /\ ~ v.bad /\ v.n \in Nat
  BY TopChange, VMFields DEF ControlInv
<1>3. /\ L \in Nat /\ L >= 1 /\ a.mark = L - 1 /\ v.unwind[L].what = "wind" /\ v.unwind[L].id = a.id
      /\ N >= 2 /\ v.nh = a.guards /\ v.depth = a.depth
  BY <1>1, TopAction
<1>4. v.nexc = a.excs
  <2>1. v.nexc = a.excs + One(a.kind = "weh") /\ a.excs \in Nat
    BY <1>1, TopAction, TopChange
  <2>2. One(a.kind = "weh") = 0
    BY <1>1 DEF One
  <2> HIDE DEF a
  <2> QED BY <2>1, <2>2
<1>5. /\ b \in Activation /\ b.kind = "wind" /\ b.phase = "after" /\ b.id = a.id
      /\ b.depth = a.depth /\ b.mark = a.mark /\ b.excs = a.excs /\ b.guards = a.guards
      /\ ~ Draining(b) /\ ~ Installed(b) /\ HasNumber(b) /\ ~ Unwound(b)
  <2>1. "after" \in Phase
    BY DEF Phase
  <2> QED BY <1>2, <2>1, NextPhase
<1>6. /\ u \in ControlVM /\ u.c = SubSeq(v.c, 1, N - 1) /\ Len(u.unwind) = L - 1
      /\ \A k \in 1 .. L - 1 : u.unwind[k] = v.unwind[k]
      /\ u.depth = v.depth /\ u.nexc = v.nexc /\ u.nh = v.nh /\ u.handlers = v.handlers /\ u.exc = v.exc
      /\ u.param = v.param /\ u.pending = v.pending /\ u.n = v.n /\ u.bad = v.bad /\ u.after = v.after
      /\ Len(u.c) = N - 1 /\ \A j \in 1 .. N - 1 : u.c[j] = v.c[j]
  BY <1>1, PopBoth
<1>7. ControlInv(u)
  <2>1. u.param = IF a.kind = "param" THEN v.unwind[L].saved ELSE v.param
    BY <1>1, <1>6
  <2>2. u.nexc = a.excs
    BY <1>4, <1>6
  <2> QED BY <1>1, <1>6, <2>1, <2>2, LeaveActionKeeps
<1>8. a.id \in 1 .. v.n /\ a.id \in 1 .. MaxEntries /\ \A i \in 1 .. N : i # N /\ HasNumber(v.c[i]) => v.c[i].id # a.id
  BY <1>1, <1>2, OtherIds
<1>9. u = [v EXCEPT !.c = u.c, !.unwind = u.unwind]
  BY <1>2, <1>6 DEF PopUnwind, Pop, CutTo, ControlVM
<1>10. /\ y = [v EXCEPT !.c = Append(u.c, b), !.unwind = u.unwind]
  BY <1>2, <1>6 DEF PopUnwind, Enter, Pop, CutTo, ControlVM
<1>11. CallAfter(y, a.id) = RunThunk(w)
  BY DEF CallAfter
<1> HIDE DEF u, b, a, y
<1>12. [v.after EXCEPT ![a.id] = @ + 1] \in [1 .. MaxEntries -> Nat]
  BY <1>2, <1>8, VMFields, OneCall
<1>13. u.c \in Seq(Activation) /\ u.unwind \in Seq(UnwindAction)
  BY <1>6, VMFields
<1>14. Append(u.c, b) \in Seq(Activation)
  BY <1>5, <1>13, AppendProperties
<1>15. /\ w \in ControlVM /\ w.c = Append(u.c, b) /\ w.unwind = u.unwind /\ w.depth = v.depth /\ w.nexc = v.nexc
       /\ w.nh = v.nh /\ w.handlers = v.handlers /\ w.exc = v.exc /\ w.param = v.param
       /\ w.pending = v.pending /\ w.n = v.n /\ w.bad = v.bad
       /\ w.after = [v.after EXCEPT ![a.id] = @ + 1]
  BY <1>2, <1>10, <1>12, <1>13, <1>14 DEF ControlVM
<1> HIDE DEF w
<1>16. Entering(u, w, b)
  <2>1. u.nexc \in Nat /\ u.depth \in Nat /\ u.nh \in Nat /\ u.n \in Nat
    BY <1>6, VMFields
  <2> QED BY <1>2, <1>3, <1>4, <1>5, <1>6, <1>15, <2>1 DEF Entering, One
<1>17. Fits(u, w, b)
  <2>1. \A j \in 1 .. Len(u.c) : HasNumber(u.c[j]) => u.c[j].id # b.id
    BY <1>2, <1>5, <1>6, <1>8
  <2> QED BY <1>5, <1>6, <1>8, <1>15, <2>1 DEF Fits
<1>18. AftersOK(w)
  <2>1. (N - 1) + 1 = N /\ Len(w.c) = N /\ w.c[N] = b /\ \A i \in 1 .. N - 1 : w.c[i] = v.c[i]
    <3>1. (N - 1) + 1 = N
      BY <1>2
    <3>2. Len(w.c) = Len(u.c) + 1 /\ w.c[Len(u.c) + 1] = b /\ \A i \in 1 .. Len(u.c) : w.c[i] = u.c[i]
      BY <1>5, <1>13, <1>15, AppendProperties
    <3> QED BY <1>6, <3>1, <3>2
  <2>2. ASSUME NEW j \in 1 .. Len(w.c), w.c[j].kind = "wind"
        PROVE  \/ \E i \in 1 .. N : w.c[j] = v.c[i]
               \/ w.c[j].phase = "after" /\ w.c[j].id = v.unwind[L].id
    <3>1. CASE j = N
      BY <1>3, <1>5, <2>1, <3>1
    <3>2. CASE j # N
      <4>1. j \in 1 .. N - 1 /\ j \in 1 .. N
        BY <1>2, <2>1, <3>2
      <4> QED BY <2>1, <4>1
    <3> QED BY <3>1, <3>2
  <2>3. Len(w.unwind) = L - 1 /\ \A k \in 1 .. Len(w.unwind) : w.unwind[k] = v.unwind[k]
    BY <1>6, <1>15
  <2>4. w.after = [v.after EXCEPT ![v.unwind[L].id] = @ + 1]
    BY <1>3, <1>15
  <2> QED BY <1>2, <1>3, <1>15, <2>2, <2>3, <2>4, AfterCalled
<1>19. ControlInv(w)
  BY <1>6, <1>7, <1>16, <1>17, <1>18, EnterKeeps
<1>20. ControlInv(CallAfter(y, a.id))
  BY <1>11, <1>19, RunKeeps
<1> QED BY <1>20 DEF y, b, a

\* The handler of a raise has returned: it is installed again.
LEMMA RaiseReturns ==
  ASSUME NEW v, ControlInv(v), v.c[Len(v.c)].kind = "raise"
  PROVE  LET w == PushExc(Pop(v), v.c[Len(v.c)].ref) IN
         /\ ControlInv(w) /\ w.nh = v.nh /\ w.handlers = v.handlers /\ w.c = Pop(v).c
         /\ Len(w.c) >= 1 /\ OfScheme(w.c[Len(w.c)])
<1> DEFINE N == Len(v.c)
           a == v.c[N]
           u == Pop(v)
           w == PushExc(u, a.ref)
<1>1. ~ Drains(a) /\ ~ Unwound(a) /\ ~ Installed(a) /\ a.kind # "weh" /\ a.kind # "run"
  BY DEF Drains, Draining, Installed, Unwound
<1>2. /\ v \in ControlVM /\ N \in Nat /\ N >= 1 /\ N \in 1 .. N /\ AftersOK(v) /\ IdsOK(v) /\ ~ v.bad /\ v.n \in Nat
      /\ RaisesOK(v) /\ PlacesOK(v) /\ SlotsOK(v) /\ ParamsOK(v)
  BY TopChange, VMFields DEF ControlInv
<1>3. /\ v.nh = a.guards /\ Len(v.unwind) = a.mark /\ v.depth = a.depth /\ a.excs = v.nexc + 1 /\ a.excs \in Nat
      /\ a.mark \in Nat /\ v.nexc \in Nat
  <2>1. /\ v.nh = a.guards + One(Installed(a)) /\ Len(v.unwind) = a.mark + One(Unwound(a))
        /\ v.depth = a.depth + One(a.kind = "run")
        /\ a.guards \in Nat /\ a.mark \in Nat /\ a.excs \in Nat /\ a.depth \in Nat /\ v.nexc \in Nat
    BY <1>1, TopChange
  <2>2. v.nexc = a.excs + One(a.kind = "weh") - One(a.kind = "raise")
    BY <1>1, TopChange
  <2>3. One(Installed(a)) = 0 /\ One(Unwound(a)) = 0 /\ One(a.kind = "weh") = 0 /\ One(a.kind = "raise") = 1
        /\ One(a.kind = "run") = 0
    BY <1>1 DEF One
  <2>4. v.nh = a.guards /\ Len(v.unwind) = a.mark /\ v.depth = a.depth
    <3> HIDE DEF a
    <3> QED BY <2>1, <2>3
  <2>5. a.excs = v.nexc + 1
    <3>1. v.nexc = a.excs + 0 - 1
      BY <2>2, <2>3
    <3>2. a.excs \in Nat /\ v.nexc \in Nat
      BY <2>1
    <3> HIDE DEF a
    <3> QED BY <3>1, <3>2
  <2> QED BY <2>1, <2>4, <2>5
<1>4. N >= 2 /\ OfScheme(v.c[N - 1])
  <2>1. PlaceOK(v, N)
    BY <1>2 DEF PlacesOK
  <2> QED BY <1>2, <2>1 DEF PlaceOK
<1>5. a.excs <= CREME_EXC_HANDLERS_CAP /\ a.ref \in Nat /\ a.ref <= v.n
  <2>1. RaiseOK(v, N)
    BY <1>2 DEF RaisesOK
  <2> QED BY <1>2, <2>1, EntryFields DEF RaiseOK
<1>6. /\ u \in ControlVM /\ u.c = SubSeq(v.c, 1, N - 1) /\ Len(u.c) = N - 1 /\ \A j \in 1 .. N - 1 : u.c[j] = v.c[j]
      /\ u.depth = v.depth /\ u.unwind = v.unwind /\ u.nexc = v.nexc /\ u.nh = v.nh
      /\ u.handlers = v.handlers /\ u.exc = v.exc /\ u.param = v.param /\ u.pending = v.pending
      /\ u.after = v.after /\ u.n = v.n /\ u.bad = v.bad
  BY <1>2, CutFields DEF Pop
<1> HIDE DEF u, a
<1>7. v.exc \in [1 .. CREME_EXC_HANDLERS_CAP -> Nat] /\ a.excs \in 1 .. CREME_EXC_HANDLERS_CAP
      /\ u.nexc + 1 = a.excs /\ CREME_EXC_HANDLERS_CAP \in Nat
  <2>1. v.exc \in [1 .. CREME_EXC_HANDLERS_CAP -> Nat] /\ CREME_EXC_HANDLERS_CAP \in Nat
    BY <1>2, VMFields, CapAssumption
  <2>2. a.excs \in 1 .. CREME_EXC_HANDLERS_CAP
    BY <1>3, <1>5, <2>1
  <2>3. u.nexc + 1 = a.excs
    BY <1>3, <1>6
  <2> QED BY <2>1, <2>2, <2>3
<1>8. [v.exc EXCEPT ![a.excs] = a.ref] \in [1 .. CREME_EXC_HANDLERS_CAP -> Nat]
  BY <1>5, <1>7
<1>9. w = [u EXCEPT !.exc = [v.exc EXCEPT ![a.excs] = a.ref], !.nexc = a.excs]
  BY <1>6, <1>7 DEF PushExc, ControlVM
<1>10. /\ w \in ControlVM /\ w.c = u.c /\ w.depth = v.depth /\ w.unwind = v.unwind /\ w.nexc = a.excs /\ w.nh = v.nh
       /\ w.handlers = v.handlers /\ w.exc = [v.exc EXCEPT ![a.excs] = a.ref] /\ w.param = v.param
       /\ w.pending = v.pending /\ w.after = v.after /\ w.n = v.n /\ w.bad = v.bad
  <2>1. a.excs \in 0 .. CREME_EXC_HANDLERS_CAP
    BY <1>7
  <2> QED BY ZenonT(60), <1>6, <1>8, <1>9, <2>1 DEF ControlVM
<1> HIDE DEF w
<1>11. \A k \in 1 .. CREME_EXC_HANDLERS_CAP : w.exc[k] <= w.n
  <2>1. \A k \in 1 .. CREME_EXC_HANDLERS_CAP : v.exc[k] <= v.n
    BY <1>2 DEF IdsOK
  <2> QED BY <1>5, <1>7, <1>10, <2>1
<1>12. Left(v, w, N)
  <2>1. Len(w.unwind) = a.mark /\ \A k \in 1 .. Len(w.unwind) : w.unwind[k] = v.unwind[k]
    BY <1>3, <1>10
  <2>2. w.c = SubSeq(v.c, 1, N - 1) /\ ~ w.bad
    BY <1>2, <1>6, <1>10
  <2> QED BY <1>1, <1>3, <1>4, <1>10, <1>11, <2>1, <2>2, LeftTop DEF a
<1>13. Continues(v, w, N) /\ Here(w) = N
  BY <1>2, <1>12, LeftContinues
<1>14. SlotsOK(w)
  <2> SUFFICES ASSUME NEW p \in 1 .. N, NEW x \in HandlingBelow(w, p),
                      Calm(w, p), Kept(w, p, N, Rank(w, p, x))
               PROVE  w.exc[Rank(w, p, x)] = w.c[x].id
    BY <1>13 DEF SlotsOK, SlotOK
  <2> DEFINE R == Rank(v, p, x)
  <2>1. /\ N \in 1 .. N /\ Calm(v, p) /\ HandlingBelow(w, p) = HandlingBelow(v, p) /\ Rank(w, p, x) = R
        /\ \A y : Kept(w, p, N, y) <=> Kept(v, p, N, y)
        /\ \A j \in 1 .. N - 1 : w.c[j] = v.c[j]
    <3>1. N \in 1 .. N
      BY <1>2
    <3>2. \A j \in 1 .. N - 1 : w.c[j] = v.c[j]
      BY <1>2, <1>10, <1>13, ContinueBelow
    <3>3. Calm(w, p) <=> Calm(v, p)
      BY <1>2, <1>10, <1>13, ContinueBelow
    <3>4. HandlingBelow(w, p) = HandlingBelow(v, p) /\ \A y : Rank(w, p, y) = Rank(v, p, y)
      BY <1>2, <1>10, <1>13, ContinueBelow
    <3>5. \A y : Kept(w, p, N, y) <=> Kept(v, p, N, y)
      BY <1>2, <1>10, <1>13, <3>1, ContinueBelow
    <3> QED BY <3>1, <3>2, <3>3, <3>4, <3>5
  <2>2. x \in HandlingBelow(v, p) /\ Kept(v, p, N, R)
    BY <2>1
  <2>3. p \in Nat /\ 1 <= p /\ x \in 1 .. N - 1
    BY <1>2, <2>2 DEF HandlingBelow
  <2>4. R \in Nat /\ R >= 1
    BY <2>2, <2>3, RankFields
  <2> HIDE DEF R
  <2>5. ExcsAt(v, N) = a.excs /\ MarkAt(v, N) = a.mark /\ ExcsAt(v, N + 1) = v.nexc /\ MarkAt(v, N + 1) = Len(v.unwind)
        /\ Here(v) = N + 1
    BY <1>2, AtHere DEF a
  <2>6. a.excs >= R /\ a.mark >= MarkAt(v, p)
    <3>1. N \in p .. N
      BY <1>2, <2>3
    <3> QED BY <2>2, <2>5, <3>1 DEF Kept
  <2>7. w.c[x].id = v.c[x].id
    BY <2>1, <2>3
  <2>8. CASE R = a.excs
    <3>1. RaiseOK(v, N)
      BY <1>2 DEF RaisesOK
    <3>2. a.ref = v.c[x].id
      BY <2>1, <2>2, <2>8, <3>1 DEF RaiseOK, R, a
    <3> QED BY <1>7, <1>10, <2>1, <2>7, <2>8, <3>2
  <2>9. CASE R # a.excs
    <3>1. v.nexc >= R /\ R \in 1 .. CREME_EXC_HANDLERS_CAP
      BY <1>3, <1>7, <2>4, <2>6, <2>9
    <3>2. Kept(v, p, N + 1, R)
      <4>1. \A j \in p .. N + 1 : j \in p .. N \/ j = N + 1
        BY <1>2
      <4>2. MarkAt(v, N + 1) >= MarkAt(v, p) /\ ExcsAt(v, N + 1) >= R
        BY <1>3, <2>5, <2>6, <3>1
      <4> QED BY <2>2, <4>1, <4>2 DEF Kept
    <3>3. SlotOK(v, p, x)
      <4>1. p \in 1 .. Here(v)
        BY <1>2, <2>5
      <4> QED BY <1>2, <2>2, <4>1 DEF SlotsOK
    <3>4. v.exc[R] = v.c[x].id
      BY <2>1, <2>5, <3>2, <3>3 DEF SlotOK, R
    <3>5. w.exc[R] = v.exc[R]
      BY <1>7, <1>10, <2>9, <3>1
    <3> QED BY <2>1, <2>7, <3>4, <3>5
  <2> QED BY <2>8, <2>9
<1>15. ParamsOK(w)
  BY <1>2, <1>10, SameParams
<1>16. AftersOK(w)
  <2>1. \A j \in 1 .. Len(w.c) : j \in 1 .. Len(v.c) /\ w.c[j] = v.c[j]
    BY <1>2, <1>6, <1>10
  <2>2. w.n >= v.n
    BY <1>2, <1>10
  <2> QED BY <1>2, <1>10, <2>1, <2>2, SameAfters
<1>17. ControlInv(w)
  BY <1>2, <1>12, <1>14, <1>15, <1>16, LeaveKeeps
<1>18. Len(w.c) >= 1 /\ OfScheme(w.c[Len(w.c)])
  BY <1>2, <1>4, <1>6, <1>10
<1> QED BY <1>10, <1>17, <1>18 DEF w, u, a

LEMMA HandlerKeeps ==
  ASSUME NEW v, ControlInv(v), v.n < MaxEntries, Habit = {}, MayInstall(v)
  PROVE  ControlInv(bi_with_exception_handler(v))
<1> DEFINE a == Entry(v, "weh", Fresh(v))
           item == [what |-> "weh", id |-> Fresh(v), saved |-> v.nexc]
           w == Enter(PushUnwind(PushExc(Numbered(v), Fresh(v)), "weh", Fresh(v), v.nexc), a)
           exc == [v.exc EXCEPT ![v.nexc + 1] = Fresh(v)]
<1>1. v \in ControlVM /\ ~ v.bad /\ AftersOK(v)
  BY DEF ControlInv
<1>2. /\ Fresh(v) \in Nat /\ Fresh(v) = v.n + 1 /\ Fresh(v) \in 1 .. v.n + 1 /\ v.n + 1 \in 0 .. MaxEntries
      /\ \A j \in 1 .. Len(v.c) : HasNumber(v.c[j]) => v.c[j].id # Fresh(v)
  BY FreshId
<1>3. /\ a \in Activation /\ a.kind = "weh" /\ a.ref = 0 /\ a.id = Fresh(v)
      /\ a.depth = v.depth /\ a.mark = Len(v.unwind) /\ a.excs = v.nexc /\ a.guards = v.nh
  <2>1. "weh" \in Kind
    BY DEF Kind
  <2> QED BY ZenonT(60), <1>1, <1>2, <2>1, EntryType
<1>4. ~ Draining(a) /\ ~ Installed(a) /\ Unwound(a) /\ HasNumber(a)
  BY <1>3 DEF Draining, Installed, Unwound, HasNumber
<1>5. v.nexc < CREME_EXC_HANDLERS_CAP /\ Len(v.unwind) < CREME_UNWIND_CAP
  BY Tame
<1>6. v.nexc \in Nat /\ v.nh \in Nat /\ v.n \in Nat /\ v.depth \in Nat /\ Len(v.unwind) \in Nat
      /\ v.unwind \in Seq(UnwindAction) /\ v.c \in Seq(Activation) /\ v.exc \in [1 .. CREME_EXC_HANDLERS_CAP -> Nat]
  BY <1>1, VMFields
<1>7. bi_with_exception_handler(v) = RunThunk(w)
  <2>1. ~ (Len(v.unwind) >= CREME_UNWIND_CAP)
    BY <1>5, <1>6, CapAssumption
  <2> QED BY <2>1 DEF bi_with_exception_handler
<1> HIDE DEF a
<1>8. item \in UnwindAction
  BY <1>2, <1>6 DEF UnwindAction
<1>9. exc \in [1 .. CREME_EXC_HANDLERS_CAP -> Nat] /\ v.nexc + 1 \in 0 .. CREME_EXC_HANDLERS_CAP
  <2>1. v.nexc + 1 \in 1 .. CREME_EXC_HANDLERS_CAP
    BY <1>5, <1>6, CapAssumption
  <2>2. Fresh(v) \in Nat /\ v.exc \in [1 .. CREME_EXC_HANDLERS_CAP -> Nat] /\ CREME_EXC_HANDLERS_CAP \in Nat
    BY <1>2, <1>6, CapAssumption
  <2>3. exc \in [1 .. CREME_EXC_HANDLERS_CAP -> Nat]
    BY <2>1, <2>2
  <2> HIDE DEF exc
  <2> QED BY <2>1, <2>2, <2>3
<1> HIDE DEF item, exc
<1>10. Append(v.c, a) \in Seq(Activation) /\ Append(v.unwind, item) \in Seq(UnwindAction)
  BY <1>3, <1>6, <1>8, AppendProperties
<1>11. w = [v EXCEPT !.c = Append(v.c, a), !.unwind = Append(v.unwind, item), !.exc = exc,
                     !.nexc = v.nexc + 1, !.n = v.n + 1]
  BY <1>1 DEF Enter, PushUnwind, PushExc, Numbered, ControlVM, item, exc
<1>12. /\ w \in ControlVM /\ w.c = Append(v.c, a) /\ w.depth = v.depth /\ w.unwind = Append(v.unwind, item)
       /\ w.nexc = v.nexc + 1 /\ w.nh = v.nh /\ w.handlers = v.handlers /\ w.exc = exc /\ w.param = v.param
       /\ w.pending = v.pending /\ w.n = v.n + 1 /\ w.after = v.after /\ w.bad = v.bad
  <2> HIDE DEF w
  <2> QED BY <1>1, <1>2, <1>9, <1>10, <1>11 DEF ControlVM
<1> HIDE DEF w
<1>13. item = [what |-> a.kind, id |-> a.id, saved |-> Saved(v, a)]
  BY <1>3 DEF item, Saved
<1>14. exc = [v.exc EXCEPT ![v.nexc + 1] = a.id]
  BY <1>3 DEF exc
<1>15. Entering(v, w, a)
  BY <1>1, <1>3, <1>4, <1>6, <1>12, <1>13, <1>14 DEF Entering, One
<1>16. Fits(v, w, a)
  BY <1>2, <1>3, <1>4, <1>6, <1>12 DEF Fits
<1>17. AftersOK(w)
  BY <1>1, <1>3, <1>12, <1>15, EnterAfters
<1>18. ControlInv(w)
  BY <1>1, <1>15, <1>16, <1>17, EnterKeeps
<1> QED BY <1>7, <1>18, RunKeeps

LEMMA CallHandlerKeeps ==
  ASSUME NEW v, ControlInv(v), Scheme(v), v.n < MaxEntries, v.nexc # 0, NEW ph \in {"raise", "continuable"}
  PROVE  ControlInv(CallHandler(v, ph))
<1> DEFINE b == Entry(v, "raise", Fresh(v))
           a == [b EXCEPT !.ref = v.exc[v.nexc], !.phase = ph]
           w == Enter([Numbered(v) EXCEPT !.nexc = @ - 1], a)
<1>1. v \in ControlVM /\ ~ v.bad /\ AftersOK(v) /\ OfScheme(v.c[Len(v.c)]) /\ Len(v.c) >= 1
  BY SchemeTop DEF ControlInv
<1>2. /\ Fresh(v) \in Nat /\ Fresh(v) = v.n + 1 /\ Fresh(v) \in 1 .. v.n + 1 /\ v.n + 1 \in 0 .. MaxEntries
      /\ \A j \in 1 .. Len(v.c) : HasNumber(v.c[j]) => v.c[j].id # Fresh(v)
  BY FreshId
<1>3. v.nexc \in Nat /\ v.nh \in Nat /\ v.n \in Nat /\ v.depth \in Nat /\ v.c \in Seq(Activation)
      /\ v.nexc >= 1 /\ v.nexc \in 1 .. CREME_EXC_HANDLERS_CAP /\ v.exc \in [1 .. CREME_EXC_HANDLERS_CAP -> Nat]
      /\ v.nexc - 1 \in 0 .. CREME_EXC_HANDLERS_CAP
  BY <1>1, VMFields, CapAssumption
<1>4. /\ a \in Activation /\ a.kind = "raise" /\ a.phase = ph /\ a.ref = v.exc[v.nexc] /\ a.id = Fresh(v)
      /\ a.depth = v.depth /\ a.mark = Len(v.unwind) /\ a.excs = v.nexc /\ a.guards = v.nh
  <2>1. "raise" \in Kind /\ ph \in Phase /\ v.exc[v.nexc] \in Nat
    BY <1>3 DEF Kind, Phase
  <2>2. /\ b \in Activation /\ b.kind = "raise" /\ b.id = Fresh(v)
        /\ b.depth = v.depth /\ b.mark = Len(v.unwind) /\ b.excs = v.nexc /\ b.guards = v.nh
    <3>1. v \in ControlVM /\ "raise" \in Kind /\ Fresh(v) \in Nat
      BY <1>1, <1>2, <2>1
    <3>2. b \in Activation /\ b.kind = "raise" /\ b.id = Fresh(v)
      BY ZenonT(60), <3>1, EntryType
    <3>3. b.depth = v.depth /\ b.mark = Len(v.unwind)
      BY ZenonT(60), <3>1, EntryType
    <3>4. b.excs = v.nexc /\ b.guards = v.nh
      BY ZenonT(60), <3>1, EntryType
    <3> HIDE DEF b
    <3> QED BY <3>2, <3>3, <3>4
  <2> HIDE DEF b
  <2> QED BY <2>1, <2>2 DEF Activation
<1>5. ~ Draining(a) /\ ~ Installed(a) /\ ~ Unwound(a) /\ HasNumber(a)
  BY <1>4 DEF Draining, Installed, Unwound, HasNumber
<1>6. CallHandler(v, ph) = RunThunk(w)
  BY DEF CallHandler
<1> HIDE DEF a
<1>7. Append(v.c, a) \in Seq(Activation)
  BY <1>3, <1>4, AppendProperties
<1>8. /\ w \in ControlVM /\ w.c = Append(v.c, a) /\ w.depth = v.depth /\ w.unwind = v.unwind
      /\ w.nexc = v.nexc - 1 /\ w.nh = v.nh /\ w.handlers = v.handlers /\ w.exc = v.exc /\ w.param = v.param
      /\ w.pending = v.pending /\ w.n = v.n + 1 /\ w.after = v.after /\ w.bad = v.bad
  <2>1. w = [v EXCEPT !.c = Append(v.c, a), !.nexc = v.nexc - 1, !.n = v.n + 1]
    BY <1>1 DEF Enter, Numbered, ControlVM
  <2> HIDE DEF w
  <2> QED BY <1>1, <1>2, <1>3, <1>7, <2>1 DEF ControlVM
<1> HIDE DEF w
<1>9. Entering(v, w, a)
  <2>1. One(a.kind = "weh") = 0 /\ One(a.kind = "raise") = 1 /\ One(a.kind = "run") = 0 /\ One(Installed(a)) = 0
    BY <1>4, <1>5 DEF One
  <2>2. w.nexc = v.nexc + One(a.kind = "weh") - One(a.kind = "raise")
    BY <1>3, <1>8, <2>1
  <2> QED BY <1>1, <1>3, <1>4, <1>5, <1>8, <2>1, <2>2 DEF Entering
<1>10. Fits(v, w, a)
  BY <1>1, <1>2, <1>3, <1>4, <1>5, <1>8 DEF Fits
<1>11. AftersOK(w)
  BY <1>1, <1>4, <1>8, <1>9, EnterAfters
<1>12. ControlInv(w)
  BY <1>1, <1>9, <1>10, <1>11, EnterKeeps
<1> QED BY <1>6, <1>12, RunKeeps

LEMMA ErrorKeeps ==
  ASSUME NEW v, ControlInv(v), Scheme(v), v.n < MaxEntries, Habit = {}, MayRaise(v)
  PROVE  ControlInv(raise_uncaught_or_to_guard(Numbered(v), Fresh(v)))
<1> DEFINE w == Numbered(v)
<1>1. /\ ControlInv(w) /\ w.c = v.c /\ w.nh = v.nh /\ w.handlers = v.handlers
  BY NumberedKeeps
<1>2. OfScheme(v.c[Len(v.c)]) /\ Fresh(v) \in Nat
  BY SchemeTop, FreshId
<1> HIDE DEF w
<1>3. w.nh = 0 \/ \A j \in Catching(w) : KeepsHandlers(w, j)
  <2>1. v.nh = 0 \/ \A j \in Catching(v) : KeepsHandlers(v, j)
    BY Tame
  <2> QED BY <1>1, <2>1 DEF Catching, KeepsHandlers
<1>4. ControlInv(raise_uncaught_or_to_guard(w, Fresh(v)))
  BY <1>1, <1>2, <1>3, RaiseKeeps
<1> QED BY <1>4 DEF w

LEMMA EscapeKeeps ==
  ASSUME NEW v, ControlInv(v), Scheme(v), Habit = {}, NEW k \in 1 .. v.n, MayEscape(v, k)
  PROVE  ControlInv(Enter(v, [Entry(v, "escape", 0) EXCEPT !.ref = k]))
<1> DEFINE b == Entry(v, "escape", 0)
           a == [b EXCEPT !.ref = k]
           w == Enter(v, a)
<1>1. v \in ControlVM /\ ~ v.bad /\ AftersOK(v) /\ OfScheme(v.c[Len(v.c)]) /\ Len(v.c) >= 1
      /\ v.c \in Seq(Activation) /\ Len(v.c) \in Nat /\ v.nexc \in Nat /\ v.nh \in Nat /\ v.n \in Nat /\ v.depth \in Nat
      /\ Here(v) = Len(v.c) + 1
  BY SchemeTop, VMFields DEF ControlInv, Here
<1>2. /\ a \in Activation /\ a.kind = "escape" /\ a.ref = k
      /\ a.depth = v.depth /\ a.mark = Len(v.unwind) /\ a.excs = v.nexc /\ a.guards = v.nh
  <2>1. "escape" \in Kind /\ 0 \in Nat /\ k \in Nat
    BY <1>1 DEF Kind
  <2>2. /\ b \in Activation /\ b.kind = "escape"
        /\ b.depth = v.depth /\ b.mark = Len(v.unwind) /\ b.excs = v.nexc /\ b.guards = v.nh
    <3>1. v \in ControlVM /\ "escape" \in Kind /\ 0 \in Nat
      BY <1>1, <2>1
    <3>2. b \in Activation /\ b.kind = "escape" /\ b.id = 0
      BY ZenonT(60), <3>1, EntryType
    <3>3. b.depth = v.depth /\ b.mark = Len(v.unwind)
      BY ZenonT(60), <3>1, EntryType
    <3>4. b.excs = v.nexc /\ b.guards = v.nh
      BY ZenonT(60), <3>1, EntryType
    <3> HIDE DEF b
    <3> QED BY <3>2, <3>3, <3>4
  <2> HIDE DEF b
  <2> QED BY <2>1, <2>2 DEF Activation
<1>3. ~ Draining(a) /\ ~ Installed(a) /\ ~ Unwound(a) /\ ~ HasNumber(a)
  BY <1>2 DEF Draining, Installed, Unwound, HasNumber
<1> HIDE DEF a
<1>4. Append(v.c, a) \in Seq(Activation)
  BY <1>1, <1>2, AppendProperties
<1>5. /\ w \in ControlVM /\ w.c = Append(v.c, a) /\ w.depth = v.depth /\ w.unwind = v.unwind
      /\ w.nexc = v.nexc /\ w.nh = v.nh /\ w.handlers = v.handlers /\ w.exc = v.exc /\ w.param = v.param
      /\ w.pending = v.pending /\ w.n = v.n /\ w.after = v.after /\ w.bad = v.bad
  BY <1>1, <1>4 DEF Enter, ControlVM
<1> HIDE DEF w
<1>6. Entering(v, w, a)
  BY <1>1, <1>2, <1>3, <1>5 DEF Entering, One
<1>7. PICK t \in Waiting(v, k) : /\ KeepsHandlers(v, t) /\ Surrounded(v, t)
                                 /\ \A i \in t .. Len(v.c) : ~ Installed(v.c[i])
  BY DEF MayEscape
<1>8. t \in 1 .. Len(v.c) /\ v.c[t].kind = "callcc" /\ v.c[t].id = k
  BY <1>1 DEF Waiting
<1>9. \A i \in t .. Here(v) : ExcsAt(v, i) >= ExcsAt(v, t)
  BY <1>1, <1>7, <1>8, KeptHere
<1>10. \A i \in t .. Here(v) : MarkAt(v, i) >= MarkAt(v, t)
  <2>1. /\ \A i \in 1 .. Len(v.c) : MarkAt(v, i) = v.c[i].mark
        /\ MarkAt(v, Len(v.c) + 1) = Len(v.unwind)
    BY <1>1, AtHere
  <2>2. ASSUME NEW i \in t .. Len(v.c) + 1 PROVE MarkAt(v, i) >= MarkAt(v, t)
    <3>1. CASE i = Len(v.c) + 1
      BY <1>7, <1>8, <2>1, <3>1 DEF Surrounded
    <3>2. CASE i # Len(v.c) + 1
      <4>1. i \in t .. Len(v.c) /\ i \in 1 .. Len(v.c)
        BY <1>1, <1>8, <3>2
      <4> QED BY <1>7, <1>8, <2>1, <4>1 DEF Surrounded
    <3> QED BY <3>1, <3>2
  <2> QED BY <1>1, <2>2
<1>11. Kept(v, t, Here(v), ExcsAt(v, t))
  BY <1>9, <1>10 DEF Kept
<1>12. Fits(v, w, a)
  BY <1>2, <1>3, <1>7, <1>8, <1>11 DEF Fits
<1>13. AftersOK(w)
  BY <1>1, <1>2, <1>5, <1>6, EnterAfters
<1>14. ControlInv(w)
  BY <1>1, <1>6, <1>12, <1>13, EnterKeeps
<1> QED BY <1>14 DEF w, a

\* A thunk returns to what called it.
LEMMA ReturnKeeps ==
  ASSUME NEW v, ControlInv(v), Top(v).kind = "run", Len(v.c) > 1, Habit = {}, MayReturn(v)
  PROVE  ControlInv(ThunkReturns(v))
<1> DEFINE N == Len(v.c)
           b == v.c[N]
           u == Pop(v)
           w == [u EXCEPT !.depth = b.depth]
           a == v.c[N - 1]
<1>1. b.kind = "run" /\ ~ Drains(b) /\ ~ Unwound(b) /\ ~ Installed(b)
  BY DEF Top, Drains, Draining, Unwound, Installed
<1>2. v \in ControlVM /\ N \in Nat /\ N >= 2 /\ N \in 1 .. N /\ b.depth \in Nat /\ v.nh = b.guards
  <2>1. v \in ControlVM /\ N \in Nat /\ N >= 1 /\ N \in 1 .. N /\ b.depth \in Nat
    BY TopChange
  <2>2. v.nh = b.guards + One(Installed(b)) /\ b.guards \in Nat
    BY TopChange
  <2>3. One(Installed(b)) = 0
    BY <1>1 DEF One
  <2>4. v.nh = b.guards
    <3> HIDE DEF b
    <3> QED BY <2>2, <2>3
  <2> QED BY <2>1, <2>4
<1>3. /\ u \in ControlVM /\ u.c = SubSeq(v.c, 1, N - 1) /\ Len(u.c) = N - 1 /\ \A j \in 1 .. N - 1 : u.c[j] = v.c[j]
      /\ u.depth = v.depth /\ u.unwind = v.unwind /\ u.nexc = v.nexc /\ u.nh = v.nh
      /\ u.handlers = v.handlers /\ u.exc = v.exc /\ u.param = v.param /\ u.pending = v.pending
      /\ u.after = v.after /\ u.n = v.n /\ u.bad = v.bad
  BY <1>2, CutFields DEF Pop
<1>4. /\ w \in ControlVM /\ w.c = u.c /\ w.depth = b.depth /\ w.unwind = v.unwind /\ w.nexc = v.nexc /\ w.nh = v.nh
      /\ w.handlers = v.handlers /\ w.exc = v.exc /\ w.param = v.param /\ w.pending = v.pending
      /\ w.after = v.after /\ w.n = v.n /\ w.bad = v.bad
  <2> HIDE DEF u, b
  <2> QED BY <1>2, <1>3 DEF ControlVM
<1> HIDE DEF w
<1>5. ControlInv(w)
  BY <1>1, <1>2, <1>3, <1>4, LeaveTop
<1>6. N - 1 \in 1 .. N - 1 /\ Len(w.c) = N - 1 /\ w.c[N - 1] = a /\ w.c[Len(w.c)] = a /\ Top(w) = a
  <2>1. N - 1 \in 1 .. N - 1
    BY <1>2
  <2> QED BY <1>3, <1>4, <2>1 DEF Top
<1>7. ThunkReturns(v) =
        IF a.kind = "callcc" THEN Pop(w)
        ELSE IF a.kind = "wind" THEN WindGoesOn(w, a)
        ELSE IF a.kind = "weh" THEN [PopUnwind(Pop(w)) EXCEPT !.nexc = a.excs]
        ELSE IF a.kind = "raise" THEN RaiseGoesOn(w, a)
        ELSE w
  BY <1>6 DEF ThunkReturns, Top, w, u
<1>8. a.kind # "run" => Len(w.c) >= 2
  <2>1. w.c[1].kind = "run"
    BY <1>5 DEF ControlInv, PlacesOK
  <2> QED BY <1>2, <1>6, <2>1
<1> HIDE DEF a, u
<1>9. CASE a.kind = "callcc"
  <2>1. ThunkReturns(v) = Pop(w)
    BY <1>7, <1>9
  <2>2. ControlInv(Pop(w))
    BY <1>5, <1>6, <1>8, <1>9, PopKeeps
  <2> QED BY <2>1, <2>2
<1>10. CASE a.kind = "wind"
  <2>1. ThunkReturns(v) = WindGoesOn(w, a)
    BY <1>7, <1>10
  <2>2. CASE a.phase = "before"
    <3>1. ControlInv(RunThunk(PushUnwind(Enter(Pop(w), [a EXCEPT !.phase = "thunk"]), "wind", a.id, 0)))
      BY <1>5, <1>6, <1>10, <2>2, WindEnters
    <3>2. WindGoesOn(w, a) = RunThunk(PushUnwind(Enter(Pop(w), [a EXCEPT !.phase = "thunk"]), "wind", a.id, 0))
      BY <2>2 DEF WindGoesOn
    <3> QED BY <2>1, <3>1, <3>2
  <2>3. CASE a.phase = "thunk"
    <3>1. ControlInv(CallAfter(PopUnwind(Enter(Pop(w), [a EXCEPT !.phase = "after"])), a.id))
      BY <1>5, <1>6, <1>10, <2>3, WindLeaves
    <3>2. WindGoesOn(w, a) = CallAfter(PopUnwind(Enter(Pop(w), [a EXCEPT !.phase = "after"])), a.id)
      BY <2>3 DEF WindGoesOn
    <3> QED BY <2>1, <3>1, <3>2
  <2>4. CASE a.phase # "before" /\ a.phase # "thunk"
    <3>1. WindGoesOn(w, a) = Pop(w)
      BY <2>4 DEF WindGoesOn
    <3>2. ControlInv(Pop(w))
      BY <1>5, <1>6, <1>8, <1>10, <2>4, PopKeeps
    <3> QED BY <2>1, <3>1, <3>2
  <2> QED BY <2>2, <2>3, <2>4
<1>11. CASE a.kind = "weh"
  <2>1. ThunkReturns(v) = [PopUnwind(Pop(w)) EXCEPT !.nexc = a.excs]
    BY <1>7, <1>11
  <2>2. ControlInv([PopUnwind(Pop(w)) EXCEPT !.nexc = w.c[Len(w.c)].excs])
    BY <1>5, <1>6, <1>11, HandlerReturns
  <2> QED BY <1>6, <2>1, <2>2
<1>12. CASE a.kind = "raise"
  <2> DEFINE x == PushExc(Pop(w), a.ref)
  <2>1. ThunkReturns(v) = RaiseGoesOn(w, a)
    BY <1>7, <1>12
  <2>2. ControlInv(x) /\ x.nh = w.nh /\ x.handlers = w.handlers /\ x.c = Pop(w).c /\ OfScheme(x.c[Len(x.c)])
    <3>1. w.c[Len(w.c)].kind = "raise" /\ w.c[Len(w.c)].ref = a.ref
      BY <1>6, <1>12
    <3> QED BY <1>5, <3>1, RaiseReturns
  <2> HIDE DEF x
  <2>3. CASE a.phase = "continuable"
    <3>1. RaiseGoesOn(w, a) = x
      BY <2>3 DEF RaiseGoesOn, x
    <3> QED BY <2>1, <2>2, <3>1
  <2>4. CASE a.phase # "continuable"
    <3>1. RaiseGoesOn(w, a) = raise_uncaught_or_to_guard(x, a.id)
      BY <2>4 DEF RaiseGoesOn, x
    <3>2. N - 1 \in 1 .. Len(w.c)
      BY <1>6
    <3>3. a.id \in Nat /\ a.phase \in {"raise", "continuable"}
      <4>1. a.id \in Nat
        BY <1>4, <1>6, <3>2, EntryFields
      <4>2. RaiseOK(w, N - 1)
        BY <1>5, <3>2 DEF ControlInv, RaisesOK
      <4> QED BY <1>6, <1>12, <4>1, <4>2 DEF RaiseOK
    <3>4. a.phase = "raise"
      BY <2>4, <3>3
    <3> DEFINE y == Pop(Pop(v))
    <3>5. MayRaise(y)
      BY <1>12, <3>4 DEF MayReturn, a
    <3>6. y.nh = v.nh /\ y.handlers = v.handlers /\ y.c = x.c
      <4>1. Len(u.c) \in 1 .. Len(u.c)
        BY <1>3, <1>6
      <4>2. y.nh = u.nh /\ y.handlers = u.handlers /\ y.c = SubSeq(u.c, 1, Len(u.c) - 1)
        BY <1>3, <4>1, CutFields DEF Pop, u
      <4>3. Pop(w).c = SubSeq(w.c, 1, Len(w.c) - 1)
        <5>1. Len(w.c) \in 1 .. Len(w.c)
          BY <1>6
        <5> QED BY <1>4, <5>1, CutFields DEF Pop
      <4> QED BY <1>3, <1>4, <2>2, <4>2, <4>3
    <3> HIDE DEF y
    <3>7. x.nh = 0 \/ \A j \in Catching(x) : KeepsHandlers(x, j)
      <4>1. y.nh = 0 \/ \A j \in Catching(y) : KeepsHandlers(y, j)
        BY <3>5, Tame
      <4>2. x.nh = y.nh /\ x.handlers = y.handlers /\ x.c = y.c
        BY <1>4, <2>2, <3>6
      <4> QED BY <4>1, <4>2 DEF Catching, KeepsHandlers
    <3>8. ControlInv(raise_uncaught_or_to_guard(x, a.id))
      BY <2>2, <3>3, <3>7, RaiseKeeps
    <3> QED BY <2>1, <3>1, <3>8
  <2> QED BY <2>3, <2>4
<1>13. CASE a.kind \notin {"callcc", "wind", "weh", "raise"}
  <2>1. ThunkReturns(v) = w
    BY <1>7, <1>13
  <2> QED BY <1>5, <2>1
<1> QED BY <1>9, <1>10, <1>11, <1>12, <1>13

\* What was unwound to t is back there.
LEMMA LeaveUnwound ==
  ASSUME NEW v, ControlInv(v), NEW t \in 2 .. Len(v.c), HeldFrom(v, t),
         \A j \in t .. Here(v) : ExcsAt(v, j) >= ExcsAt(v, t),
         Len(v.unwind) = v.c[t].mark, v.nexc = v.c[t].excs, v.nh = v.c[t].guards
  PROVE  LET w == [CutTo(v, t) EXCEPT !.depth = v.c[t].depth] IN
         /\ w \in ControlVM /\ ControlInv(w) /\ w.pending = v.pending
         /\ Len(w.c) = t - 1 /\ \A j \in 1 .. t - 1 : w.c[j] = v.c[j]
<1> DEFINE u == CutTo(v, t)
           d == v.c[t].depth
           w == [u EXCEPT !.depth = d]
<1>1. /\ v \in ControlVM /\ t \in 1 .. Len(v.c) /\ t \in Nat /\ Len(v.c) \in Nat /\ ~ v.bad /\ v.n \in Nat
      /\ SlotsOK(v) /\ ParamsOK(v) /\ AftersOK(v) /\ IdsOK(v)
  BY VMFields DEF ControlInv
<1>2. d \in Nat
  BY <1>1, EntryFields
<1>3. /\ u \in ControlVM /\ u.c = SubSeq(v.c, 1, t - 1) /\ Len(u.c) = t - 1 /\ \A j \in 1 .. t - 1 : u.c[j] = v.c[j]
      /\ u.unwind = v.unwind /\ u.nexc = v.nexc /\ u.nh = v.nh
      /\ u.handlers = v.handlers /\ u.exc = v.exc /\ u.param = v.param /\ u.pending = v.pending
      /\ u.after = v.after /\ u.n = v.n /\ u.bad = v.bad
  BY <1>1, CutFields
<1> HIDE DEF u, d
<1>4. /\ w \in ControlVM /\ w.c = u.c /\ w.depth = d /\ w.unwind = v.unwind /\ w.nexc = v.nexc /\ w.nh = v.nh
      /\ w.handlers = v.handlers /\ w.exc = v.exc /\ w.param = v.param /\ w.pending = v.pending
      /\ w.after = v.after /\ w.n = v.n /\ w.bad = v.bad
  BY <1>2, <1>3 DEF ControlVM
<1> HIDE DEF w
<1>5. Left(v, w, t)
  <2>1. \A k \in 1 .. CREME_EXC_HANDLERS_CAP : w.exc[k] <= w.n
    BY <1>1, <1>4 DEF IdsOK
  <2>2. w.n >= v.n
    BY <1>1, <1>4
  <2> QED BY <1>1, <1>3, <1>4, <2>1, <2>2 DEF Left, d
<1>6. SlotsOK(w)
  BY <1>1, <1>4, <1>5, LeaveSlots
<1>7. ParamsOK(w)
  BY <1>1, <1>4, SameParams
<1>8. AftersOK(w)
  <2>1. \A j \in 1 .. Len(w.c) : j \in 1 .. Len(v.c) /\ w.c[j] = v.c[j]
    BY <1>1, <1>3, <1>4
  <2>2. w.n >= v.n
    BY <1>1, <1>4
  <2> QED BY <1>1, <1>4, <2>1, <2>2, SameAfters
<1>9. ControlInv(w)
  BY <1>1, <1>5, <1>6, <1>7, <1>8, LeaveKeeps
<1> QED BY <1>3, <1>4, <1>9 DEF w, u, d

\* Unwinding all that was pushed since t gives back the handlers of t.
LEMMA UnwoundExcs ==
  ASSUME NEW v, ControlInv(v), NEW t \in 1 .. Len(v.c), Drains(v.c[Len(v.c)]),
         Kept(v, t, Len(v.c), ExcsAt(v, t)), Len(v.unwind) = MarkAt(v, t)
  PROVE  v.nexc = ExcsAt(v, t) /\ HeldFrom(v, t) /\ \A j \in t .. Here(v) : ExcsAt(v, j) >= ExcsAt(v, t)
<1> DEFINE N == Len(v.c)
<1>1. v \in ControlVM /\ N \in Nat /\ t \in Nat /\ 1 <= t /\ N \in 1 .. N /\ Here(v) = N + 1 /\ FirstsOK(v) /\ DipsOK(v)
      /\ N \in t .. N
  BY VMFields DEF ControlInv, Here
<1>2. /\ MarkAt(v, t) \in Nat /\ ExcsAt(v, t) \in Nat /\ ExcsAt(v, N + 1) = v.nexc /\ v.nexc \in Nat
      /\ MarkAt(v, N + 1) = Len(v.unwind)
  BY <1>1, AtHere, AtFields, VMFields
<1>3. \A j \in t .. N : j \in Nat /\ 1 <= j /\ MarkAt(v, j) >= MarkAt(v, t) /\ ExcsAt(v, j) >= ExcsAt(v, t)
  BY <1>1 DEF Kept
<1>4. \A j \in t .. N + 1 : j \in t .. N \/ j = N + 1
  BY <1>1
<1>5. MarkAt(v, N + 1) >= MarkAt(v, t)
  BY <1>2
<1> HIDE DEF N
<1>6. Held(v, t, N + 1)
  BY <1>3, <1>4, <1>5 DEF Held
<1>7. v.nexc >= ExcsAt(v, t)
  <2>1. PICK j \in t .. N : ExcsAt(v, j) <= ExcsAt(v, N + 1)
    BY <1>1, <1>6 DEF DipsOK, DipOK, N
  <2>2. ExcsAt(v, j) \in Nat /\ ExcsAt(v, j) >= ExcsAt(v, t)
    BY <1>1, <1>3, <2>1, AtFields
  <2> QED BY <1>2, <2>1, <2>2
<1>8. Kept(v, t, N + 1, ExcsAt(v, t))
  BY <1>2, <1>3, <1>4, <1>5, <1>7 DEF Kept
<1>9. Held(v, N + 1, N + 1)
  <2>1. \A j \in N + 1 .. N + 1 : j = N + 1
    BY <1>1
  <2> QED BY <1>2, <2>1 DEF Held
<1>10. FirstOK(v, t, N + 1)
  <2>1. N + 1 \in 1 .. Here(v) /\ t \in 1 .. N + 1
    BY <1>1
  <2> QED BY <1>1, <2>1 DEF FirstsOK
<1>11. Wehs(v, t, N + 1) = {}
  BY <1>2 DEF Wehs
<1>12. v.nexc = ExcsAt(v, t)
  BY <1>1, <1>2, <1>8, <1>9, <1>10, <1>11 DEF FirstOK
<1>13. HeldFrom(v, t)
  BY <1>1, <1>6 DEF Held, HeldFrom
<1>14. \A j \in t .. Here(v) : ExcsAt(v, j) >= ExcsAt(v, t)
  BY <1>1, <1>8 DEF Kept
<1> QED BY <1>12, <1>13, <1>14

LEMMA ResumeKeeps ==
  ASSUME NEW v, ControlInv(v), Draining(Top(v))
  PROVE  ControlInv(ResumeGuard(v))
<1> DEFINE N == Len(v.c)
           a == v.c[N]
           h == v.handlers[a.ref]
           L == Len(v.unwind)
           w == [Pop(v) EXCEPT !.depth = h.depth]
<1>1. /\ v \in ControlVM /\ N \in Nat /\ N >= 1 /\ N \in 1 .. N /\ Top(v) = a /\ Draining(a) /\ a.kind = "guard"
      /\ L \in Nat /\ a.mark \in Nat /\ a.excs \in Nat
  <2>1. v \in ControlVM /\ N \in Nat /\ N >= 1 /\ N \in 1 .. N /\ L \in Nat /\ a.mark \in Nat /\ a.excs \in Nat
    BY TopChange
  <2> QED BY <2>1 DEF Top, Draining
<1>2. Drains(a) /\ ~ Installed(a)
  BY <1>1 DEF Drains, Draining, Installed
<1>3. GuardOK(v, N) /\ PlaceOK(v, N) /\ ClausesOK(v)
  BY <1>1 DEF ControlInv, GuardsOK, PlacesOK
<1>4. /\ h = [id |-> a.id, depth |-> a.depth, mark |-> a.mark]
      /\ a.want = v.pending /\ MarkAt(v, N + 1) >= a.mark
  BY <1>1, <1>3 DEF GuardOK
<1>5. h.id = a.id /\ h.depth = a.depth /\ h.mark = a.mark
  BY <1>4
<1>6. N >= 2 /\ OfScheme(v.c[N - 1])
  BY <1>1, <1>3 DEF PlaceOK
<1>7. MarkAt(v, N) = a.mark /\ ExcsAt(v, N) = a.excs /\ MarkAt(v, N + 1) = L /\ Here(v) = N + 1
  BY <1>1, AtHere
<1>8. CASE L > h.mark
  <2>1. ResumeGuard(v) = Unwind(v)
    BY <1>1, <1>8 DEF ResumeGuard
  <2>2. MayUnwind(v)
    <3>1. L >= 1 /\ L > a.mark /\ a.kind # "escape"
      BY <1>1, <1>5, <1>8
    <3> QED BY <1>2, <3>1 DEF MayUnwind
  <2> QED BY <2>1, <2>2, UnwindKeeps
<1>9. CASE ~ (L > h.mark)
  <2>1. L = a.mark
    BY <1>1, <1>4, <1>5, <1>7, <1>9
  <2>2. v.nh = a.guards
    <3>1. v.nh = a.guards + One(Installed(a)) /\ a.guards \in Nat
      BY TopChange
    <3>2. One(Installed(a)) = 0
      BY <1>2 DEF One
    <3> HIDE DEF a
    <3> QED BY <3>1, <3>2
  <2> DEFINE b == Entry(w, "tests", v.pending)
             x == Enter(w, b)
  <2>3. ResumeGuard(v) = x
    BY <1>1, <1>4, <1>5, <1>9 DEF ResumeGuard
  <2>4. w = [CutTo(v, N) EXCEPT !.depth = a.depth]
    BY <1>5 DEF Pop
  <2> HIDE DEF w
  <2>5. Kept(v, N, N, ExcsAt(v, N))
    <3>1. \A j \in N .. N : j = N
      BY <1>1
    <3>2. MarkAt(v, N) >= MarkAt(v, N) /\ ExcsAt(v, N) >= ExcsAt(v, N)
      BY <1>1, <1>7
    <3> HIDE DEF N
    <3> QED BY <3>1, <3>2 DEF Kept
  <2>6. v.nexc = a.excs /\ HeldFrom(v, N) /\ \A j \in N .. Here(v) : ExcsAt(v, j) >= ExcsAt(v, N)
    BY <1>1, <1>2, <1>7, <2>1, <2>5, UnwoundExcs
  <2>7. /\ w \in ControlVM /\ ControlInv(w) /\ w.pending = v.pending
        /\ Len(w.c) = N - 1 /\ \A j \in 1 .. N - 1 : w.c[j] = v.c[j]
    <3>1. N \in 2 .. Len(v.c)
      BY <1>1, <1>6
    <3> QED BY <2>1, <2>2, <2>4, <2>6, <3>1, LeaveUnwound
  <2>8. w.nexc \in Nat /\ w.nh \in Nat /\ w.n \in Nat /\ w.depth \in Nat /\ w.c \in Seq(Activation) /\ v.pending \in Nat
        /\ AftersOK(w) /\ ~ w.bad
    BY <1>1, <2>7, VMFields DEF ControlInv
  <2>9. /\ b \in Activation /\ b.kind = "tests" /\ b.id = v.pending /\ b.ref = 0
        /\ b.depth = w.depth /\ b.mark = Len(w.unwind) /\ b.excs = w.nexc /\ b.guards = w.nh
    <3>1. w \in ControlVM /\ "tests" \in Kind /\ v.pending \in Nat
      BY <2>7, <2>8 DEF Kind
    <3>2. b \in Activation /\ b.kind = "tests" /\ b.id = v.pending /\ b.ref = 0
      BY ZenonT(60), <3>1, EntryType
    <3>3. b.depth = w.depth /\ b.mark = Len(w.unwind)
      BY ZenonT(60), <3>1, EntryType
    <3>4. b.excs = w.nexc /\ b.guards = w.nh
      BY ZenonT(60), <3>1, EntryType
    <3> HIDE DEF b
    <3> QED BY <3>2, <3>3, <3>4
  <2>10. ~ Draining(b) /\ ~ Installed(b) /\ ~ Unwound(b) /\ ~ HasNumber(b)
    BY <2>9 DEF Draining, Installed, Unwound, HasNumber
  <2> HIDE DEF b
  <2>11. Append(w.c, b) \in Seq(Activation)
    BY <2>8, <2>9, AppendProperties
  <2>12. /\ x \in ControlVM /\ x.c = Append(w.c, b) /\ x.depth = w.depth /\ x.unwind = w.unwind
         /\ x.nexc = w.nexc /\ x.nh = w.nh /\ x.handlers = w.handlers /\ x.exc = w.exc /\ x.param = w.param
         /\ x.pending = w.pending /\ x.n = w.n /\ x.after = w.after /\ x.bad = w.bad
    BY <2>7, <2>11 DEF Enter, ControlVM
  <2> HIDE DEF x
  <2>13. Entering(w, x, b)
    BY <2>8, <2>9, <2>10, <2>12 DEF Entering, One
  <2>14. Fits(w, x, b)
    <3>1. \A j \in 1 .. Len(w.c) : w.c[j].kind # "tests" /\ ~ Draining(w.c[j])
      <4> SUFFICES ASSUME NEW j \in 1 .. N - 1 PROVE v.c[j].kind # "tests" /\ ~ Draining(v.c[j])
        BY <2>7
      <4>1. j \in 1 .. N /\ N \in j + 1 .. N
        BY <1>1
      <4>2. ClauseOK(v, j)
        BY <1>3, <4>1 DEF ClausesOK
      <4> QED BY <1>1, <4>1, <4>2 DEF ClauseOK
    <3>2. Len(w.c) >= 1 /\ OfScheme(w.c[Len(w.c)])
      <4>1. N - 1 \in 1 .. N - 1
        BY <1>1, <1>6
      <4> QED BY <1>6, <2>7, <4>1
    <3> QED BY <2>7, <2>9, <2>10, <3>1, <3>2 DEF Fits
  <2>15. AftersOK(x)
    BY <2>7, <2>8, <2>9, <2>12, <2>13, EnterAfters
  <2>16. ControlInv(x)
    BY <2>7, <2>13, <2>14, <2>15, EnterKeeps
  <2> QED BY <2>3, <2>16
<1> QED BY <1>8, <1>9

\* An escape unwinds until it can jump, and then leaves all it is inside of
\* up to its call/cc.
LEMMA DrainEscapeKeeps ==
  ASSUME NEW v, ControlInv(v), Top(v).kind = "escape"
  PROVE  ControlInv(invoke_continuation(v))
<1> DEFINE N == Len(v.c)
           a == v.c[N]
           L == Len(v.unwind)
<1>1. /\ v \in ControlVM /\ N \in Nat /\ N >= 1 /\ N \in 1 .. N /\ L \in Nat /\ Top(v) = a /\ a.kind = "escape"
  <2>1. v \in ControlVM /\ N \in Nat /\ N >= 1 /\ N \in 1 .. N /\ L \in Nat
    BY TopChange
  <2> QED BY <2>1 DEF Top
<1>2. Drains(a) /\ ~ Draining(a)
  BY <1>1 DEF Drains, Draining
<1>3. EscapeOK(v, N) /\ IdsOK(v) /\ PlacesOK(v) /\ CountsOK(v)
  BY <1>1 DEF ControlInv, EscapesOK
<1>4. PICK t \in 1 .. N - 1 : Leads(v, N, t)
  BY <1>1, <1>3 DEF EscapeOK
<1>5. /\ v.c[t].kind = "callcc" /\ v.c[t].id = a.ref /\ Kept(v, t, N, ExcsAt(v, t))
      /\ MarkAt(v, N + 1) >= MarkAt(v, t) /\ \A j \in t .. N : ~ Installed(v.c[j])
  BY <1>4 DEF Leads
<1>6. t \in 1 .. N /\ t \in Nat /\ 1 <= t /\ t <= N
  BY <1>1, <1>4
<1>7. /\ MarkAt(v, t) = v.c[t].mark /\ ExcsAt(v, t) = v.c[t].excs /\ GuardsAt(v, t) = v.c[t].guards
      /\ MarkAt(v, N + 1) = L /\ GuardsAt(v, N + 1) = v.nh /\ Here(v) = N + 1 /\ MarkAt(v, t) \in Nat
  BY <1>1, <1>6, AtHere, AtFields
<1>8. Waiting(v, Top(v).ref) = {t}
  <2>1. ASSUME NEW j \in DOMAIN v.c, v.c[j].kind = "callcc", v.c[j].id = a.ref PROVE j = t
    <3>1. j \in 1 .. N
      BY <1>1, <2>1, VMFields, LenProperties
    <3>2. HasNumber(v.c[j]) /\ HasNumber(v.c[t])
      BY <1>5, <2>1 DEF HasNumber
    <3>3. IdOK(v, j)
      BY <1>3, <3>1 DEF IdsOK
    <3> QED BY <1>5, <1>6, <2>1, <3>1, <3>2, <3>3 DEF IdOK
  <2>2. t \in DOMAIN v.c
    BY <1>6, VMFields, <1>1, LenProperties
  <2> QED BY <1>1, <1>5, <2>1, <2>2 DEF Waiting
<1>9. (CHOOSE j \in Waiting(v, Top(v).ref) : TRUE) = t
  BY <1>8
<1>10. CASE L > v.c[t].mark
  <2>1. invoke_continuation(v) = Unwind(v)
    BY <1>9, <1>10 DEF invoke_continuation
  <2>2. MayUnwind(v)
    <3>1. L >= 1 /\ L > MarkAt(v, t)
      BY <1>1, <1>7, <1>10
    <3> QED BY <1>2, <1>4, <3>1 DEF MayUnwind
  <2> QED BY <2>1, <2>2, UnwindKeeps
<1>11. CASE ~ (L > v.c[t].mark)
  <2>1. L = v.c[t].mark
    BY <1>1, <1>5, <1>7, <1>11
  <2>2. invoke_continuation(v) = [CutTo(v, t) EXCEPT !.depth = v.c[t].depth]
    BY <1>9, <1>11 DEF invoke_continuation
  <2>3. /\ v.nexc = v.c[t].excs /\ HeldFrom(v, t)
        /\ \A j \in t .. Here(v) : ExcsAt(v, j) >= ExcsAt(v, t)
    BY <1>2, <1>5, <1>6, <1>7, <2>1, UnwoundExcs
  <2>4. v.nh = v.c[t].guards
    <3>1. t \in 1 .. Here(v) /\ N + 1 \in 1 .. Here(v)
      BY <1>1, <1>6, <1>7
    <3>2. /\ GuardsAt(v, t) = Cardinality(InstalledBelow(v, t))
          /\ GuardsAt(v, N + 1) = Cardinality(InstalledBelow(v, N + 1))
      BY <1>3, <3>1 DEF CountsOK, CountOK
    <3>3. InstalledBelow(v, N + 1) = InstalledBelow(v, t)
      <4>1. \A j \in 1 .. (N + 1) - 1 : Installed(v.c[j]) => j \in 1 .. t - 1
        BY <1>1, <1>5, <1>6
      <4>2. \A j \in 1 .. t - 1 : j \in 1 .. (N + 1) - 1
        BY <1>1, <1>6
      <4> QED BY <4>1, <4>2 DEF InstalledBelow
    <3> QED BY <1>7, <3>2, <3>3
  <2>5. t # 1
    BY <1>3, <1>5 DEF PlacesOK
  <2>6. t \in 2 .. Len(v.c)
    BY <1>6, <2>5
  <2> QED BY <2>1, <2>2, <2>3, <2>4, <2>6, LeaveUnwound
<1> QED BY <1>10, <1>11

-----------------------------------------------------------------------------
(* The invariant of every execution.                                       *)

\* A step of the program or of an unwinding, from the invariant to the
\* invariant: one step below for each action of ControlNext.
LEMMA ControlStep ==
  ASSUME Habit = {}, ControlInv(vm), [ControlNext]_vm
  PROVE  ControlInv(vm')
<1>1. /\ vm \in ControlVM /\ vm.n \in Nat /\ MaxEntries \in Nat /\ vm.nexc \in Nat
  BY VMFields, CapAssumption DEF ControlInv
<1>2. CASE Guard
  BY <1>2, GuardKeeps DEF Guard, Room
<1>3. CASE LeaveGuard
  BY <1>3, LeaveGuardKeeps DEF LeaveGuard
<1>4. CASE TakeClause
  BY <1>4, TakeClauseKeeps DEF TakeClause
<1>5. CASE Reraise
  BY <1>5, ReraiseKeeps DEF Reraise
<1>6. CASE Parameterize
  BY <1>6, ParamKeeps DEF Parameterize, Room
<1>7. CASE LeaveParams
  BY <1>7, LeaveParamsKeeps DEF LeaveParams
<1>8. CASE CallCC
  BY <1>8, CallCCKeeps DEF CallCC, Room
<1>9. CASE Wind
  BY <1>9, WindKeeps DEF Wind, Room
<1>10. CASE WithHandler
  BY <1>10, HandlerKeeps DEF WithHandler, Room
<1>11. CASE Raise
  <2>1. Scheme(vm) /\ vm.n < MaxEntries /\ MayRaise(vm)
    BY <1>11 DEF Raise, Room
  <2>2. CASE vm.nexc = 0
    <3>1. vm' = raise_uncaught_or_to_guard(Numbered(vm), Fresh(vm))
      BY <1>11, <2>2 DEF Raise, bi_raise, bi_raise_continuable
    <3> QED BY <2>1, <3>1, ErrorKeeps
  <2>3. CASE vm.nexc # 0
    <3>1. vm' = CallHandler(vm, "raise") \/ vm' = CallHandler(vm, "continuable")
      BY <1>11, <2>3 DEF Raise, bi_raise, bi_raise_continuable
    <3> QED BY <2>1, <2>3, <3>1, CallHandlerKeeps
  <2> QED BY <2>2, <2>3
<1>12. CASE Error
  BY <1>12, ErrorKeeps DEF Error, Room, bi_error
<1>13. CASE Return
  BY <1>13, ReturnKeeps DEF Return, top
<1>14. CASE EscapeOut
  BY <1>14, EscapeKeeps DEF EscapeOut
<1>15. CASE DrainGuard
  BY <1>15, ResumeKeeps DEF DrainGuard
<1>16. CASE DrainEscape
  BY <1>16, DrainEscapeKeeps DEF DrainEscape
<1>17. CASE UNCHANGED vm
  BY <1>17
<1> QED BY <1>2, <1>3, <1>4, <1>5, <1>6, <1>7, <1>8, <1>9, <1>10, <1>11, <1>12, <1>13, <1>14, <1>15,
           <1>16, <1>17 DEF ControlNext

LEMMA OneElement ==
  ASSUME NEW S, NEW e \in S
  PROVE  <<e>> \in Seq(S) /\ Len(<<e>>) = 1 /\ <<e>>[1] = e
OBVIOUS

LEMMA ControlStart ==
  ASSUME ControlInit
  PROVE  ControlInv(vm)
<1> DEFINE a == [kind |-> "run", id |-> 0, phase |-> "", ref |-> 0, want |-> 0,
                 depth |-> 0, mark |-> 0, excs |-> 0, guards |-> 0]
<1>1. CREME_EXC_HANDLERS_CAP \in Nat /\ MaxEntries \in Nat
  BY CapAssumption
<1>2. /\ vm.c = <<a>> /\ vm.depth = 1 /\ vm.n = 0 /\ vm.nh = 0 /\ vm.nexc = 0 /\ vm.unwind = <<>>
      /\ vm.param = 0 /\ vm.exc = [k \in 1 .. CREME_EXC_HANDLERS_CAP |-> 0]
      /\ vm.after = [k \in 1 .. MaxEntries |-> 0] /\ vm.bad = FALSE
  BY DEF ControlInit
<1>3. a \in Activation
  BY <1>1 DEF Activation, Kind, Phase
<1>4. vm \in ControlVM
  <2>1. <<a>> \in Seq(Activation)
    <3> HIDE DEF a
    <3> QED BY <1>3, OneElement
  <2>2. NoHandler \in Handler
    BY DEF NoHandler, Handler
  <2>3. 0 \in 0 .. MaxEntries /\ 0 \in 0 .. CREME_EXC_HANDLERS_CAP
    BY <1>1
  <2>4. <<>> \in Seq(UnwindAction)
    OBVIOUS
  <2> HIDE DEF a
  <2>5. vm = [c |-> <<a>>, depth |-> 1, n |-> 0,
              handlers |-> [k \in 1 .. CREME_HANDLERS_CAP |-> NoHandler], nh |-> 0,
              exc |-> [k \in 1 .. CREME_EXC_HANDLERS_CAP |-> 0], nexc |-> 0,
              unwind |-> <<>>, param |-> 0, pending |-> 0,
              after |-> [k \in 1 .. MaxEntries |-> 0], bad |-> FALSE, exited |-> FALSE]
    BY DEF ControlInit, a
  <2> QED BY <2>1, <2>2, <2>3, <2>4, <2>5 DEF ControlVM
<1>5. /\ Len(vm.c) = 1 /\ vm.c[1] = a /\ Len(vm.unwind) = 0 /\ Here(vm) = 2
  <2> HIDE DEF a
  <2> QED BY <1>2, <1>3, OneElement DEF Here
<1>6. /\ a.kind = "run" /\ a.id = 0 /\ a.depth = 0 /\ a.mark = 0 /\ a.excs = 0 /\ a.guards = 0
  OBVIOUS
<1> HIDE DEF a
<1>7. /\ ~ Drains(a) /\ ~ Installed(a) /\ ~ Draining(a) /\ ~ Unwound(a) /\ ~ HasNumber(a)
  BY <1>6 DEF Drains, Draining, Installed, Unwound, HasNumber
<1>8. /\ \A j \in 1 .. 1 : j = 1
      /\ \A p \in 1 .. 2 : p = 1 \/ p = 2
  OBVIOUS
<1>9. /\ MarkAt(vm, 1) = 0 /\ ExcsAt(vm, 1) = 0 /\ DepthAt(vm, 1) = 0 /\ GuardsAt(vm, 1) = 0
      /\ MarkAt(vm, 2) = 0 /\ ExcsAt(vm, 2) = 0 /\ DepthAt(vm, 2) = 1 /\ GuardsAt(vm, 2) = 0
  BY <1>2, <1>5, <1>6 DEF MarkAt, ExcsAt, DepthAt, GuardsAt
<1>10. ChangesOK(vm)
  <2>1. /\ One(Installed(a)) = 0 /\ One(Unwound(a)) = 0 /\ One(a.kind = "weh") = 0 /\ One(a.kind = "raise") = 0
        /\ One(a.kind = "run") = 1
    BY <1>6, <1>7 DEF One
  <2>2. Change(vm, 1)
    BY <1>5, <1>7, <1>9, <2>1 DEF Change
  <2> QED BY <1>5, <1>8, <1>9, <2>2 DEF ChangesOK
<1>11. GuardsOK(vm) /\ ClausesOK(vm) /\ OwnersOK(vm) /\ DipsOK(vm) /\ EscapesOK(vm) /\ RaisesOK(vm)
  BY <1>5, <1>6, <1>7, <1>8
     DEF GuardsOK, GuardOK, ClausesOK, ClauseOK, OwnersOK, OwnerOK, DipsOK, DipOK, EscapesOK, EscapeOK, RaisesOK, RaiseOK
<1>12. UsedOK(vm)
  BY <1>5, <1>8, <1>9 DEF UsedOK
<1>13. CountsOK(vm)
  <2>1. /\ InstalledBelow(vm, 1) = {} /\ UnwoundBelow(vm, 1) = {} /\ RunsBelow(vm, 1) = {} /\ HandlingBelow(vm, 1) = {}
    BY DEF InstalledBelow, UnwoundBelow, RunsBelow, HandlingBelow
  <2>2. /\ InstalledBelow(vm, 2) = {} /\ UnwoundBelow(vm, 2) = {} /\ RunsBelow(vm, 2) = {1} /\ HandlingBelow(vm, 2) = {}
    BY <1>5, <1>6, <1>7, <1>8 DEF InstalledBelow, UnwoundBelow, RunsBelow, HandlingBelow
  <2>3. Cardinality({}) = 0 /\ Cardinality({1}) = 1
    BY FS_EmptySet, FS_Singleton
  <2> QED BY <1>5, <1>8, <1>9, <2>1, <2>2, <2>3 DEF CountsOK, CountOK
<1>14. FirstsOK(vm) /\ SavedsOK(vm)
  <2>1. ASSUME NEW p \in 1 .. 2, NEW i \in 1 .. p
        PROVE  Wehs(vm, i, p) = {} /\ ExcsAt(vm, p) = ExcsAt(vm, i)
    <3>1. MarkAt(vm, i) = 0 /\ MarkAt(vm, p) = 0 /\ ExcsAt(vm, p) = 0 /\ ExcsAt(vm, i) = 0
      BY <1>8, <1>9
    <3> QED BY <3>1 DEF Wehs
  <2> QED BY <1>5, <2>1 DEF FirstsOK, FirstOK, SavedsOK, SavedOK
<1>15. ParamsOK(vm)
  BY <1>2, <1>5 DEF ParamsOK, IsLastParam
<1>16. SlotsOK(vm)
  <2>1. ASSUME NEW p \in 1 .. 2 PROVE HandlingBelow(vm, p) = {}
    BY <1>5, <1>6, <1>8 DEF HandlingBelow
  <2> QED BY <1>5, <2>1 DEF SlotsOK
<1>17. IdsOK(vm) /\ PlacesOK(vm)
  BY <1>2, <1>5, <1>6, <1>7, <1>8 DEF IdsOK, IdOK, PlacesOK, PlaceOK
<1>18. AftersOK(vm)
  BY <1>2, <1>5, <1>6, <1>8 DEF AftersOK
<1> QED BY <1>2, <1>4, <1>10, <1>11, <1>12, <1>13, <1>14, <1>15, <1>16, <1>17, <1>18 DEF ControlInv

-----------------------------------------------------------------------------
(* What the invariant says when nothing is being unwound.                  *)

\* The m-th member of a set of positions has m members up to it.
LEMMA RankReached ==
  ASSUME NEW n \in Nat, NEW S \in SUBSET (1 .. n), NEW m \in 1 .. Cardinality(S)
  PROVE  \E j \in S : Cardinality({i \in S : i <= j}) = m
<1> DEFINE f == InOrder(S)
           j == f[m]
           R == {i \in S : i <= j}
           g == [k \in 1 .. m |-> f[k]]
<1>1. /\ Cardinality(S) \in Nat /\ f \in [1 .. Cardinality(S) -> S] /\ Ascends(f)
      /\ \A i, k \in 1 .. Cardinality(S) : f[i] = f[k] => i = k
      /\ \A i, k \in 1 .. Cardinality(S) : f[i] < f[k] => i < k
      /\ \A k \in S : \E i \in 1 .. Cardinality(S) : f[i] = k
  BY OrderFacts
<1> HIDE DEF f
<1>2. m \in Nat /\ \A k \in 1 .. m : k \in 1 .. Cardinality(S) /\ f[k] \in S
  BY <1>1
<1>3. j \in S /\ \A x \in S : x \in Nat
  BY <1>1
<1>4. g \in Bijection(1 .. m, R)
  <2>1. \A k \in 1 .. m : f[k] <= j
    <3> SUFFICES ASSUME NEW k \in 1 .. m PROVE f[k] <= f[m]
      OBVIOUS
    <3>1. k < m \/ k = m
      BY <1>2
    <3>2. f[k] \in Nat /\ f[m] \in Nat
      BY <1>2, <1>3
    <3>3. m \in 1 .. m
      BY <1>2
    <3>4. k \in DOMAIN f /\ m \in DOMAIN f
      BY <1>1, <1>2, <3>3
    <3>5. k < m => f[k] < f[m]
      BY <1>1, <3>4 DEF Ascends
    <3> QED BY <3>1, <3>2, <3>5
  <2>2. \A x \in R : \E k \in 1 .. m : f[k] = x
    <3> SUFFICES ASSUME NEW x \in R PROVE \E k \in 1 .. m : f[k] = x
      OBVIOUS
    <3>1. PICK k \in 1 .. Cardinality(S) : f[k] = x
      BY <1>1
    <3>2. f[k] <= f[m] /\ f[k] \in Nat /\ f[m] \in Nat
      <4>1. x \in S /\ x <= f[m]
        OBVIOUS
      <4> QED BY <1>3, <3>1, <4>1
    <3>3. f[k] < f[m] \/ f[k] = f[m]
      BY <3>2
    <3>4. k < m \/ k = m
      BY <1>1, <3>3
    <3> QED BY <1>2, <3>1, <3>4
  <2>3. g \in [1 .. m -> R]
    BY <1>2, <2>1
  <2>4. \A i, k \in 1 .. m : g[i] = g[k] => i = k
    BY <1>1, <1>2
  <2>5. \A x \in R : \E k \in 1 .. m : g[k] = x
    BY <2>2
  <2> HIDE DEF g, R
  <2> QED BY <2>3, <2>4, <2>5 DEF Bijection, Injection, Surjection, IsInjective
<1>5. IsFiniteSet(1 .. m) /\ Cardinality(1 .. m) = m
  BY <1>2, FS_Interval
<1>6. Cardinality(R) = m
  <2> HIDE DEF g, R
  <2> QED BY <1>4, <1>5, FS_Bijection DEF ExistsBijection
<1> QED BY <1>3, <1>6

\* The positions of the entries are those below the present.
LEMMA WhenSettled ==
  ASSUME ControlInv(vm)
  PROVE  /\ DOMAIN vm.c = 1 .. Len(vm.c) /\ DOMAIN vm.c = 1 .. Here(vm) - 1
         /\ Those(Unwound) = UnwoundBelow(vm, Here(vm)) /\ Those(Installed) = InstalledBelow(vm, Here(vm))
         /\ Those(Handling) = HandlingBelow(vm, Here(vm))
         /\ Settled => \A p \in 1 .. Here(vm) : Calm(vm, p)
<1>1. vm \in ControlVM /\ Len(vm.c) \in Nat /\ Here(vm) = Len(vm.c) + 1
  BY VMFields DEF ControlInv, Here
<1>2. DOMAIN vm.c = 1 .. Len(vm.c) /\ DOMAIN vm.c = 1 .. Here(vm) - 1
  BY <1>1, VMFields, LenProperties
<1>3. Those(Unwound) = UnwoundBelow(vm, Here(vm)) /\ Those(Installed) = InstalledBelow(vm, Here(vm))
  BY <1>2 DEF Those, UnwoundBelow, InstalledBelow
<1>4. Those(Handling) = HandlingBelow(vm, Here(vm))
  BY <1>2 DEF Those, Handling, HandlingBelow
<1>5. ASSUME Settled, NEW p \in 1 .. Here(vm) PROVE Calm(vm, p)
  <2>1. \A j \in 1 .. p - 1 : j \in DOMAIN vm.c
    BY <1>1, <1>2
  <2> QED BY <1>5, <2>1 DEF Settled, Calm, Drains
<1> QED BY <1>2, <1>3, <1>4, <1>5

\* The actions are those of the entries that have one.
LEMMA UnwindMirrors ==
  ASSUME ControlInv(vm), Settled
  PROVE  LET S == Those(Unwound)
             r(j) == Cardinality({i \in S : i <= j})
         IN /\ S \subseteq 1 .. Len(vm.c) /\ Len(vm.unwind) = Cardinality(S)
            /\ \A j \in S : /\ r(j) \in 1 .. Len(vm.unwind)
                            /\ vm.unwind[r(j)].what = vm.c[j].kind /\ vm.unwind[r(j)].id = vm.c[j].id
            /\ \A k \in 1 .. Len(vm.unwind) : \E j \in S : r(j) = k
            /\ \A i, j \in S : i < j => r(i) < r(j)
<1> DEFINE S == Those(Unwound)
           r(j) == Cardinality({i \in S : i <= j})
           H == Here(vm)
<1>1. /\ vm \in ControlVM /\ Len(vm.c) \in Nat /\ H \in Nat /\ H >= 1 /\ H = Len(vm.c) + 1 /\ Len(vm.unwind) \in Nat
      /\ MarkAt(vm, H) = Len(vm.unwind) /\ CountsOK(vm) /\ OwnersOK(vm)
  BY VMFields, AtHere DEF ControlInv
<1>2. S = UnwoundBelow(vm, H) /\ \A p \in 1 .. H : Calm(vm, p)
  BY WhenSettled
<1>3. \A p \in 1 .. H : MarkAt(vm, p) = Cardinality(UnwoundBelow(vm, p))
  BY <1>1, <1>2 DEF CountsOK, CountOK
<1>4. S \in SUBSET (1 .. Len(vm.c)) /\ IsFiniteSet(S) /\ \A j \in S : j \in Nat /\ 1 <= j /\ j <= Len(vm.c) /\ Unwound(vm.c[j])
  <2>1. S = {j \in 1 .. H - 1 : Unwound(vm.c[j])}
    BY <1>2 DEF UnwoundBelow
  <2>2. H - 1 = Len(vm.c) /\ H \in Nat /\ 1 <= H
    BY <1>1
  <2>3. IsFiniteSet(S)
    BY <1>2, <2>2, SetsBelow
  <2> HIDE DEF S, H
  <2> QED BY <1>1, <2>1, <2>2, <2>3
<1>5. Len(vm.unwind) = Cardinality(S)
  BY <1>1, <1>2, <1>3
<1> HIDE DEF S, H
<1>6. ASSUME NEW j \in S PROVE {i \in S : i <= j} = UnwoundBelow(vm, j + 1) /\ r(j) = MarkAt(vm, j + 1)
  <2>1. \A i \in 1 .. H - 1 : i <= j <=> i \in 1 .. (j + 1) - 1
    BY <1>1, <1>4
  <2>2. \A i \in 1 .. (j + 1) - 1 : i \in 1 .. H - 1
    BY <1>1, <1>4
  <2>3. {i \in S : i <= j} = UnwoundBelow(vm, j + 1)
    BY <1>2, <2>1, <2>2 DEF UnwoundBelow
  <2>4. j + 1 \in 1 .. H
    BY <1>1, <1>4
  <2> QED BY <1>3, <2>3, <2>4
<1>7. ASSUME NEW j \in S, NEW p \in j + 1 .. H PROVE MarkAt(vm, p) >= MarkAt(vm, j + 1)
  <2>1. p \in 1 .. H /\ p \in Nat /\ 1 <= p /\ j + 1 \in 1 .. H /\ j + 1 \in Nat /\ 1 <= j + 1
    BY <1>1, <1>4
  <2>2. UnwoundBelow(vm, j + 1) \subseteq UnwoundBelow(vm, p)
    <3>1. \A i \in 1 .. (j + 1) - 1 : i \in 1 .. p - 1
      BY <1>4, <2>1
    <3> QED BY <3>1 DEF UnwoundBelow
  <2>3. IsFiniteSet(UnwoundBelow(vm, p)) /\ Cardinality(UnwoundBelow(vm, p)) \in Nat
    BY <2>1, SetsBelow
  <2>4. Cardinality(UnwoundBelow(vm, j + 1)) <= Cardinality(UnwoundBelow(vm, p))
    BY <2>2, <2>3, FS_Subset
  <2>5. Cardinality(UnwoundBelow(vm, j + 1)) \in Nat
    BY <2>1, SetsBelow
  <2> QED BY <1>3, <2>1, <2>3, <2>4, <2>5
<1>8. ASSUME NEW j \in S
      PROVE  r(j) \in 1 .. Len(vm.unwind) /\ vm.unwind[r(j)].what = vm.c[j].kind /\ vm.unwind[r(j)].id = vm.c[j].id
  <2>1. Held(vm, j + 1, H)
    BY <1>7 DEF Held
  <2>2. OwnerOK(vm, j)
    BY <1>1, <1>4 DEF OwnersOK
  <2> QED BY <1>4, <1>6, <2>1, <2>2 DEF OwnerOK, H
<1>9. \A k \in 1 .. Len(vm.unwind) : \E j \in S : r(j) = k
  BY <1>1, <1>4, <1>5, RankReached
<1>10. ASSUME NEW i \in S, NEW j \in S, i < j PROVE r(i) < r(j)
  <2> DEFINE I == {k \in S : k <= i}
             J == {k \in S : k <= j}
  <2>1. I \subseteq J /\ j \in J /\ j \notin I /\ IsFiniteSet(J)
    <3>1. \A k \in S : k <= i => k <= j
      BY <1>4, <1>10
    <3>2. ~ (j <= i) /\ j <= j
      BY <1>4, <1>10
    <3>3. IsFiniteSet(J)
      BY <1>4, FS_Subset
    <3> QED BY <3>1, <3>2, <3>3
  <2> HIDE DEF I, J
  <2>2. Cardinality(I) <= Cardinality(J) /\ (Cardinality(I) = Cardinality(J) => I = J) /\ IsFiniteSet(I)
    BY <2>1, FS_Subset
  <2>3. Cardinality(I) \in Nat /\ Cardinality(J) \in Nat /\ I # J
    BY <2>1, <2>2, FS_CardinalityType
  <2>4. Cardinality(I) < Cardinality(J)
    BY <2>2, <2>3
  <2> QED BY <2>4 DEF I, J
<1> QED BY <1>4, <1>5, <1>8, <1>9, <1>10 DEF S

LEMMA InvExtents ==
  ASSUME ControlInv(vm), Settled
  PROVE  /\ Mirrors(Ids(vm.unwind), Len(vm.unwind), Those(Unwound))
         /\ IF Those(IsParam) = {} THEN vm.param = 0
            ELSE \E j \in Those(IsParam) : vm.param = vm.c[j].id /\ \A i \in Those(IsParam) : i <= j
         /\ Mirrors(vm.exc, vm.nexc, Those(Handling))
<1> DEFINE S == Those(Unwound)
           r(j) == Cardinality({i \in S : i <= j})
           P == Those(IsParam)
           L == Len(vm.unwind)
<1>1. /\ vm \in ControlVM /\ L \in Nat /\ Len(vm.c) \in Nat /\ ParamsOK(vm) /\ DOMAIN vm.c = 1 .. Len(vm.c)
      /\ DOMAIN vm.unwind = 1 .. L
  BY VMFields, LenProperties DEF ControlInv
<1>2. /\ S \subseteq 1 .. Len(vm.c) /\ L = Cardinality(S)
      /\ \A j \in S : r(j) \in 1 .. L /\ vm.unwind[r(j)].what = vm.c[j].kind /\ vm.unwind[r(j)].id = vm.c[j].id
      /\ \A k \in 1 .. L : \E j \in S : r(j) = k
      /\ \A i, j \in S : i < j => r(i) < r(j)
  BY UnwindMirrors
<1>3. Mirrors(Ids(vm.unwind), L, S)
  BY <1>1, <1>2 DEF Mirrors, Ids
<1>4. /\ \A j \in P : j \in S /\ vm.c[j].kind = "param"
      /\ \A j \in S : vm.c[j].kind = "param" => j \in P
  BY <1>1, <1>2 DEF Those, IsParam, Unwound
<1> HIDE DEF S, P, r, L
<1>5. IF P = {} THEN vm.param = 0
      ELSE \E j \in P : vm.param = vm.c[j].id /\ \A i \in P : i <= j
  <2>1. IsLastParam(vm, vm.param, L)
    BY <1>1 DEF ParamsOK, L
  <2>2. CASE vm.param = 0 /\ \A m \in 1 .. L : vm.unwind[m].what # "param"
    <3>1. P = {}
      BY <1>2, <1>4, <2>2
    <3> QED BY <2>2, <3>1
  <2>3. ASSUME NEW m \in 1 .. L, vm.unwind[m].what = "param", vm.unwind[m].id = vm.param,
               \A l \in m + 1 .. L : vm.unwind[l].what # "param"
        PROVE  \E j \in P : vm.param = vm.c[j].id /\ \A i \in P : i <= j
    <3>1. PICK j \in S : r(j) = m
      BY <1>2
    <3>2. j \in P /\ vm.param = vm.c[j].id
      BY <1>2, <1>4, <2>3, <3>1
    <3>3. ASSUME NEW i \in P PROVE i <= j
      <4>1. i \in S /\ i \in Nat /\ j \in Nat /\ r(i) \in 1 .. L /\ vm.unwind[r(i)].what = "param"
        <5>1. i \in S /\ vm.c[i].kind = "param"
          BY <1>4
        <5>2. i \in Nat /\ j \in Nat
          BY <1>1, <1>2, <5>1
        <5> QED BY <1>2, <5>1, <5>2
      <4>2. ~ (r(i) \in m + 1 .. L)
        BY <2>3, <4>1
      <4>3. ~ (r(i) > m)
        BY <1>1, <4>1, <4>2
      <4>4. ~ (j < i)
        BY <1>1, <1>2, <3>1, <4>1, <4>3
      <4> QED BY <4>1, <4>4
    <3> QED BY <3>2, <3>3
  <2>4. P # {} => \E j \in P : vm.param = vm.c[j].id /\ \A i \in P : i <= j
    BY <2>1, <2>2, <2>3 DEF IsLastParam
  <2>5. P = {} => vm.param = 0
    BY <2>1, <2>2, <2>3 DEF IsLastParam
  <2> QED BY <2>4, <2>5
<1>6. Mirrors(vm.exc, vm.nexc, Those(Handling))
  <2> DEFINE H == Here(vm)
             T == HandlingBelow(vm, H)
  <2>1. /\ H \in Nat /\ H >= 1 /\ ExcsAt(vm, H) = vm.nexc /\ vm.nexc \in Nat /\ MarkAt(vm, H) \in Nat
        /\ CountsOK(vm) /\ SlotsOK(vm) /\ H \in 1 .. H
    <3>1. H \in Nat /\ H >= 1 /\ ExcsAt(vm, H) = vm.nexc
      BY <1>1, AtHere
    <3> HIDE DEF H
    <3>2. MarkAt(vm, H) \in Nat
      BY <1>1, <3>1, AtFields
    <3> QED BY <1>1, <3>1, <3>2, VMFields DEF ControlInv
  <2>2. Those(Handling) = T /\ Calm(vm, H)
    BY <2>1, WhenSettled
  <2>3. vm.nexc = Cardinality(T)
    BY <2>1, <2>2 DEF CountsOK, CountOK
  <2> HIDE DEF H
  <2>4. ASSUME NEW w \in T PROVE vm.exc[Cardinality({i \in T : i <= w})] = vm.c[w].id
    <3>1. Rank(vm, H, w) = Cardinality({i \in T : i <= w})
      BY DEF Rank
    <3>2. Rank(vm, H, w) \in Nat /\ Rank(vm, H, w) <= ExcsAt(vm, H)
      BY <2>1, <2>3, RankFields
    <3>3. Kept(vm, H, H, Rank(vm, H, w))
      <4>1. \A j \in H .. H : j = H
        BY <2>1
      <4>2. MarkAt(vm, H) >= MarkAt(vm, H) /\ ExcsAt(vm, H) >= Rank(vm, H, w)
        BY <2>1, <3>2
      <4> QED BY <4>1, <4>2 DEF Kept
    <3>4. SlotOK(vm, H, w)
      BY <2>1 DEF SlotsOK, H
    <3> QED BY <2>2, <3>1, <3>3, <3>4 DEF SlotOK, H
  <2> HIDE DEF T
  <2> QED BY <2>2, <2>3, <2>4 DEF Mirrors
<1> QED BY <1>3, <1>5, <1>6 DEF S, P, L

LEMMA InvGuards ==
  ASSUME ControlInv(vm), Settled
  PROVE  /\ Mirrors(Ids(vm.handlers), vm.nh, Those(Installed))
         /\ vm.depth = Cardinality({j \in DOMAIN vm.c : vm.c[j].kind = "run"})
<1> DEFINE H == Here(vm)
           S == InstalledBelow(vm, H)
<1>1. /\ vm \in ControlVM /\ Len(vm.c) \in Nat /\ H = Len(vm.c) + 1 /\ H \in Nat /\ H >= 1 /\ H \in 1 .. H
      /\ GuardsAt(vm, H) = vm.nh /\ DepthAt(vm, H) = vm.depth
      /\ CountsOK(vm) /\ GuardsOK(vm) /\ ChangesOK(vm) /\ DOMAIN vm.handlers = 1 .. CREME_HANDLERS_CAP
      /\ CREME_HANDLERS_CAP \in Nat
  BY VMFields, AtHere, CapAssumption DEF ControlInv
<1>2. /\ Those(Installed) = S /\ Calm(vm, H) /\ DOMAIN vm.c = 1 .. Len(vm.c) /\ DOMAIN vm.c = 1 .. H - 1
  BY <1>1, WhenSettled
<1>3. \A p \in 1 .. H : GuardsAt(vm, p) = Cardinality(InstalledBelow(vm, p))
  BY <1>1 DEF CountsOK, CountOK
<1>4. vm.depth = Cardinality({j \in DOMAIN vm.c : vm.c[j].kind = "run"})
  BY <1>1, <1>2 DEF CountsOK, CountOK, RunsBelow
<1> HIDE DEF H
<1>5. vm.nh = Cardinality(S)
  BY <1>1, <1>3
<1>6. ASSUME NEW j \in S PROVE Ids(vm.handlers)[Cardinality({i \in S : i <= j})] = vm.c[j].id
  <2>1. j \in Nat /\ 1 <= j /\ j \in 1 .. Len(vm.c) /\ Installed(vm.c[j]) /\ j + 1 \in 1 .. H
    BY <1>1 DEF InstalledBelow
  <2>2. {i \in S : i <= j} = InstalledBelow(vm, j + 1)
    <3>1. \A i \in 1 .. H - 1 : i <= j <=> i \in 1 .. (j + 1) - 1
      BY <1>1, <2>1
    <3>2. \A i \in 1 .. (j + 1) - 1 : i \in 1 .. H - 1
      BY <1>1, <2>1
    <3> QED BY <3>1, <3>2 DEF InstalledBelow
  <2>3. Cardinality({i \in S : i <= j}) = GuardsAt(vm, j + 1)
    BY <1>3, <2>1, <2>2
  <2>4. GuardsAt(vm, j + 1) = vm.c[j].guards + 1
    <3>1. GuardsAt(vm, j + 1) = GuardsAt(vm, j) + One(Installed(vm.c[j]))
      BY <1>1, <2>1 DEF ChangesOK, Change
    <3>2. One(Installed(vm.c[j])) = 1
      BY <2>1 DEF One
    <3>3. GuardsAt(vm, j) = vm.c[j].guards
      BY <1>1, <2>1, AtHere
    <3> QED BY <3>1, <3>2, <3>3
  <2>5. /\ vm.c[j].guards + 1 \in 1 .. CREME_HANDLERS_CAP
        /\ vm.handlers[vm.c[j].guards + 1].id = vm.c[j].id
    <3>1. GuardOK(vm, j) /\ vm.c[j].kind = "guard" /\ vm.c[j].guards \in Nat
      BY <1>1, <2>1, EntryFields DEF GuardsOK, Installed
    <3>2. vm.c[j].guards + 1 <= CREME_HANDLERS_CAP /\
          vm.handlers[vm.c[j].guards + 1] = [id |-> vm.c[j].id, depth |-> vm.c[j].depth, mark |-> vm.c[j].mark]
      BY <3>1 DEF GuardOK
    <3> QED BY <1>1, <3>1, <3>2
  <2> QED BY <1>1, <2>3, <2>4, <2>5 DEF Ids
<1> HIDE DEF S
<1> QED BY <1>2, <1>4, <1>5, <1>6 DEF Mirrors

LEMMA InvAfters ==
  ASSUME ControlInv(vm)
  PROVE  AfterOnce
<1>1. vm \in ControlVM /\ AftersOK(vm)
  BY DEF ControlInv
<1>2. /\ vm.n \in Nat /\ vm.n <= MaxEntries /\ MaxEntries \in Nat
      /\ DOMAIN vm.c = 1 .. Len(vm.c) /\ DOMAIN vm.unwind = 1 .. Len(vm.unwind)
  BY <1>1, VMFields, LenProperties, CapAssumption
<1>3. \A id \in 1 .. vm.n : id \in 1 .. MaxEntries
  BY <1>2
<1> QED BY <1>1, <1>2, <1>3 DEF AfterOnce, AftersOK

\* The invariant says all that ControlMirrored does.
LEMMA ControlShown ==
  ASSUME ControlInv(vm)
  PROVE  ControlMirrored
<1>1. ExtentsMirrored
  BY InvExtents DEF ExtentsMirrored
<1>2. GuardsMirrored
  BY InvGuards DEF GuardsMirrored
<1>3. AfterOnce
  BY InvAfters
<1>4. ResumesRight
  BY DEF ResumesRight, ControlInv
<1> QED BY <1>1, <1>2, <1>3, <1>4 DEF ControlMirrored

\* Whatever mixture of guards, raises, handlers, parameterize, dynamic-wind and
\* escapes a program runs, for any size of the arrays, any number of entries
\* and any depth of the C stack: whenever nothing is being unwound, the unwind
\* stack, the parameters, the exception handlers, the guards and the frames
\* are those of the forms that the program is inside of; each after thunk
\* runs once; and a condition arrives, as itself, at a guard that is still
\* there.  Of a program with none of the habits of Control.
THEOREM ControlMirrors ==
  ASSUME Habit = {}
  PROVE  ControlSpec => []ControlMirrored
<1>1. ControlInit => ControlInv(vm)
  BY ControlStart
<1>2. ControlInv(vm) /\ [ControlNext]_vm => ControlInv(vm)'
  BY ControlStep
<1>3. ControlInv(vm) => ControlMirrored
  BY ControlShown
<1> QED BY <1>1, <1>2, <1>3, PTL DEF ControlSpec

=============================================================================
