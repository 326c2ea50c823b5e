--------------------------- MODULE ProcessProofs ----------------------------
(***************************************************************************)
(* What runs in one icecreme process, each part proved of its own module's *)
(* specification: the bytecode, which every VM quickens in place, the      *)
(* tables of globals that it refers to by slot, the hash tables, and the   *)
(* connections to other nodes that the actors send over.                   *)
(***************************************************************************)
EXTENDS SharedCode, Globals, HashTable, Transport, SublistProofs

(***************************************************************************)
(* Code that several VMs share.                                            *)
(***************************************************************************)
CodeSpec == CodeInit /\ [][CodeNext]_codeVars

Opcodes == {"CALLGLOBAL", "RECACC", "RECCTOR", "ADD2", "SUB2", "MUL2", "CONS2", "MOD2", "STRAPPEND2",
            "HASHREF", "CAR1", "CDR1", "NUMTOSTR1", "ADD3", "HASHSET"}

LoopFrame == [op : {"loop"}, closure : Closures, counter : Int]

\* What is fetched is an opcode, whoever has rewritten the site since; and a
\* loop runs one of the closures.
CodeType ==
  /\ siteOp \in Opcodes
  /\ cell = [v \in CVM |-> cell[v]]
  /\ ran = [v \in CVM |-> ran[v]]
  /\ fetched \in [CVM -> {Idle} \cup [op : Opcodes]]
  /\ loop \in [CVM -> {Idle} \cup LoopFrame]

\* Whatever a site was quickened for, a fast path is taken only where it does
\* what the procedure found in the cell does.
LEMMA FastPathIsCallee ==
  ASSUME NEW op, NEW callee, NEW args, TakesFastPath(op, callee, args)
  PROVE  BuiltIn(op, callee) = callee
  BY DEF TakesFastPath, BuiltIn, OP_QCALLGLOBAL_ADD2, OP_QCALLGLOBAL_SUB2, OP_QCALLGLOBAL_MUL2,
         OP_QCALLGLOBAL_CONS2, OP_QCALLGLOBAL_CAR1, OP_QCALLGLOBAL_CDR1, OP_QCALLGLOBAL_RECACC,
         OP_QCALLGLOBAL_RECCTOR, OP_QCALLGLOBAL_ADD3, OP_QCALLGLOBAL_MOD2, OP_QCALLGLOBAL_STRAPPEND2,
         OP_QCALLGLOBAL_NUMTOSTR1, OP_QCALLGLOBAL_HASHSET, OP_QCALLGLOBAL_HASHREF

LEMMA QuickensToOpcode ==
  ASSUME NEW callee, NEW n
  PROVE  quicken_callglobal_op(callee, n) \in Opcodes
  BY DEF quicken_callglobal_op, Opcodes

LEMMA CodeStep ==
  ASSUME CodeType, [CodeNext]_codeVars
  PROVE  /\ CodeType'
         /\ \A v \in CVM : fetched[v] # Idle /\ fetched'[v] = Idle => ran'[v] = cell[v]
         /\ \A v \in CVM : loop'[v] # loop[v] /\ loop'[v] # Idle => loop'[v].closure = cell[v]
<1> DEFINE Goal == /\ CodeType'
                   /\ \A v \in CVM : fetched[v] # Idle /\ fetched'[v] = Idle => ran'[v] = cell[v]
                   /\ \A v \in CVM : loop'[v] # loop[v] /\ loop'[v] # Idle => loop'[v].closure = cell[v]
<1>1. CASE UNCHANGED codeVars
  BY <1>1 DEF codeVars, CodeType
<1>2. ASSUME NEW w \in CVM, Fetch(w) PROVE Goal
  <2>1. [op |-> siteOp] \in [op : Opcodes] /\ [op |-> siteOp] # Idle
    BY DEF CodeType, Idle, Opcodes
  <2>2. fetched' = [fetched EXCEPT ![w] = [op |-> siteOp]]
        /\ ran' = [ran EXCEPT ![w] = "nothing"] /\ UNCHANGED <<nargs, siteOp, cell, loop>>
    BY <1>2 DEF Fetch
  <2>3. fetched' \in [CVM -> {Idle} \cup [op : Opcodes]] /\ ran' = [v \in CVM |-> ran'[v]]
        /\ \A v \in CVM : fetched'[v] = Idle => fetched[v] = Idle
    BY <2>1, <2>2 DEF CodeType
  <2> QED BY <2>2, <2>3 DEF CodeType
<1>3. ASSUME NEW w \in CVM, fetched' = [fetched EXCEPT ![w] = Idle], ran' = [ran EXCEPT ![w] = cell[w]],
             siteOp' \in Opcodes, UNCHANGED <<cell, loop>>
      PROVE  Goal
  <2>1. fetched' \in [CVM -> {Idle} \cup [op : Opcodes]] /\ ran' = [v \in CVM |-> ran'[v]]
        /\ ran'[w] = cell[w] /\ \A v \in CVM \ {w} : fetched'[v] = fetched[v]
    BY <1>3 DEF CodeType
  <2> QED BY <1>3, <2>1 DEF CodeType
<1>4. ASSUME NEW w \in CVM, OP_CALLGLOBAL(w) PROVE Goal
  <2>1. siteOp' \in Opcodes
    BY <1>4, QuickensToOpcode DEF OP_CALLGLOBAL, CodeType
  <2>2. fetched' = [fetched EXCEPT ![w] = Idle] /\ ran' = [ran EXCEPT ![w] = cell[w]]
        /\ UNCHANGED <<cell, loop>>
    BY <1>4 DEF OP_CALLGLOBAL, CallsFound
  <2> QED BY <1>3, <2>1, <2>2
<1>5. ASSUME NEW w \in CVM, RunQuickened(w) PROVE Goal
  <2>1. /\ fetched' = [fetched EXCEPT ![w] = Idle] /\ UNCHANGED <<cell, loop>>
        /\ \E args : IF TakesFastPath(fetched[w].op, cell[w], args)
                     THEN ran' = [ran EXCEPT ![w] = BuiltIn(fetched[w].op, cell[w])] /\ UNCHANGED siteOp
                     ELSE siteOp' = "CALLGLOBAL" /\ ran' = [ran EXCEPT ![w] = cell[w]]
    BY <1>5 DEF RunQuickened, CallsFound
  <2>2. ran' = [ran EXCEPT ![w] = cell[w]] /\ siteOp' \in Opcodes
    BY <2>1, FastPathIsCallee DEF CodeType, Opcodes
  <2> QED BY <1>3, <2>1, <2>2
<1>6. ASSUME NEW w \in CVM, OP_DEFGLOBAL(w) PROVE Goal
  <2>1. \E x : cell' = [cell EXCEPT ![w] = x]
    BY <1>6 DEF OP_DEFGLOBAL
  <2>2. cell' = [v \in CVM |-> cell'[v]]
    BY <2>1 DEF CodeType
  <2> QED BY <1>6, <2>2 DEF OP_DEFGLOBAL, CodeType
<1>7. ASSUME NEW w \in CVM, NEW x \in {Idle} \cup LoopFrame, loop' = [loop EXCEPT ![w] = x],
             x # Idle => x = loop[w] \/ x.closure = cell[w],
             UNCHANGED <<siteOp, cell, fetched, ran>>
      PROVE  Goal
  <2>1. loop' \in [CVM -> {Idle} \cup LoopFrame] /\ loop'[w] = x /\ \A v \in CVM \ {w} : loop'[v] = loop[v]
    BY <1>7 DEF CodeType
  <2> QED BY <1>7, <2>1 DEF CodeType
<1>8. ASSUME NEW w \in CVM, EnterLoop(w) PROVE Goal
  <2> DEFINE x == [op |-> "loop", closure |-> cell[w], counter |-> 0]
  <2>1. x \in LoopFrame /\ x.closure = cell[w]
    BY <1>8 DEF EnterLoop, LoopFrame
  <2>2. loop' = [loop EXCEPT ![w] = x] /\ UNCHANGED <<siteOp, cell, fetched, ran>>
    BY <1>8 DEF EnterLoop
  <2> HIDE DEF x
  <2> QED BY <1>7, <2>1, <2>2
<1>9. ASSUME NEW w \in CVM, OP_FORLOOPGUARDEDINC(w) PROVE Goal
  <2>1. loop[w] \in LoopFrame
    BY <1>9 DEF OP_FORLOOPGUARDEDINC, CodeType, Idle
  <2> DEFINE n == loop[w].counter + 1
             again == [loop[w] EXCEPT !.counter = n]
             other == [op |-> "loop", closure |-> cell[w], counter |-> n]
  <2>2. again \in LoopFrame /\ again.closure = loop[w].closure
    BY <2>1 DEF LoopFrame
  <2>3. cell[w] \in Closures => other \in LoopFrame /\ other.closure = cell[w]
    BY <2>1 DEF LoopFrame
  <2>4. /\ UNCHANGED <<siteOp, cell, fetched, ran>>
        /\ \/ loop' = [loop EXCEPT ![w] = again] /\ cell[w] = loop[w].closure
           \/ loop' = [loop EXCEPT ![w] = Idle]
           \/ loop' = [loop EXCEPT ![w] = other] /\ cell[w] \in Closures
    BY <1>9 DEF OP_FORLOOPGUARDEDINC, global_is_current_closure
  <2> HIDE DEF n, again, other
  <2> QED BY <1>7, <2>2, <2>3, <2>4
<1> QED BY <1>1, <1>2, <1>4, <1>5, <1>6, <1>8, <1>9 DEF CodeNext

LEMMA CodeTypeInit == CodeInit => CodeType
  BY DEF CodeInit, CodeType, Opcodes

\* A call site rewritten by one VM between the fetch and the body of another
\* still applies, there, the procedure that the other's own global has; and a
\* guarded loop never begins an iteration in a closure that was replaced.
\* For any number of VMs and any redefinitions.
THEOREM CallsMeanGlobals == CodeSpec => CodeMeansGlobals
<1>1. CodeInit => CodeType
  BY CodeTypeInit
<1>2. CodeType /\ [CodeNext]_codeVars => CodeType'
  BY CodeStep
<1>3. CodeType /\ [CodeNext]_codeVars =>
        [\A v \in CVM : fetched[v] # Idle /\ fetched'[v] = Idle => ran'[v] = cell[v]]_codeVars
  BY CodeStep
<1>4. CodeType /\ [CodeNext]_codeVars =>
        [\A v \in CVM : loop'[v] # loop[v] /\ loop'[v] # Idle => loop'[v].closure = cell[v]]_codeVars
  BY CodeStep
<1> QED BY <1>1, <1>2, <1>3, <1>4, PTL DEF CodeSpec, CodeMeansGlobals, CallMeansGlobal, LoopFollowsGlobal

-----------------------------------------------------------------------------
(***************************************************************************)
(* Global cells and default ports.                                         *)
(***************************************************************************)
GlobalsSpec == GlobalsInit /\ [][GlobalsNext]_globalVars

CellNames == GName \cup {"", "+", Out, In}
CellRecord == [name : CellNames, value : GVM \cup {0}, bound : BOOLEAN]

GlobalsType ==
  /\ globals \in [GVM -> Seq(CellRecord)]
  /\ slotOf \in [GName -> Nat]
  /\ runs \in [GVM -> SUBSET GName]

\* A slot a chunk refers to is one of every VM that runs the chunk.
SlotsOK ==
  /\ \A v \in GVM : \A n \in runs[v] :
       slotOf[n] \in 1 .. Len(globals[v]) /\ globals[v][slotOf[n]].name = n
  /\ \A v \in GVM : globals[v] = <<>> => runs[v] = {}

SlotsInv == GlobalsType /\ SlotsOK

\* g2 has the cells of g under the same numbers.
Extended(g, g2) ==
  /\ Len(g) <= Len(g2)
  /\ \A i \in 1 .. Len(g) : g2[i].name = g[i].name

\* A search from below finds the first one.
LEMMA Least ==
  ASSUME NEW M, M \subseteq Nat, M # {}
  PROVE  \E i \in M : \A j \in M : i <= j
<1>1. IsWellFoundedOn({ss \in Nat \X Nat : ss[1] < ss[2]}, Nat)
  BY NatLessThanWellFounded DEF OpToRel
<1>2. PICK x \in M : \A y \in M : ~ (<<y, x>> \in {ss \in Nat \X Nat : ss[1] < ss[2]})
  BY <1>1, WFMin
<1>3. \A y \in M : x <= y
  <2> SUFFICES ASSUME NEW y \in M PROVE x <= y
    OBVIOUS
  <2>1. x \in Nat /\ y \in Nat /\ ~ (y < x)
    BY <1>2
  <2> QED BY <2>1
<1> QED BY <1>3

LEMMA LeastMatch ==
  ASSUME NEW M, M \subseteq Nat, M # {}
  PROVE  (CHOOSE i \in M : \A j \in M : i <= j) \in M
  BY Least

\* creme_global_intern returns a cell of the name, an old one or a new one at
\* the end.
LEMMA InternFacts ==
  ASSUME NEW g \in Seq(CellRecord), NEW n \in CellNames, NEW len
  PROVE  LET r == creme_global_intern(g, n, len) IN
         /\ r.g \in Seq(CellRecord) /\ Extended(g, r.g)
         /\ r.slot \in 1 .. Len(r.g) /\ r.g[r.slot].name = n
         /\ \A i \in 1 .. Len(r.g) : (i <= Len(g) /\ r.g[i] = g[i]) \/ r.g[i].value = 0
<1> DEFINE M == Matches(g, n, len)
           s == CHOOSE i \in M : \A j \in M : i <= j
           new == [NoCell EXCEPT !.name = n]
           r == creme_global_intern(g, n, len)
<1>1. Len(g) \in Nat /\ M \subseteq 1 .. Len(g) /\ \A i \in M : g[i].name = n
  BY LenProperties DEF Matches
<1>2. r = IF M # {} THEN [slot |-> s, g |-> g] ELSE [slot |-> Len(g) + 1, g |-> Append(g, new)]
  BY DEF creme_global_intern
<1>3. CASE M # {}
  <2>1. s \in M
    <3>1. M \subseteq Nat
      BY <1>1
    <3> HIDE DEF M
    <3> QED BY <1>3, <3>1, LeastMatch
  <2>2. r.g = g /\ r.slot = s
    BY <1>2, <1>3
  <2> HIDE DEF M, s, r
  <2> QED BY <1>1, <2>1, <2>2 DEF Extended, r
<1>4. CASE M = {}
  <2>1. r.g = Append(g, new) /\ r.slot = Len(g) + 1
    BY <1>2, <1>4
  <2>2. new \in CellRecord /\ new.name = n /\ new.value = 0
    BY DEF NoCell, CellRecord, CellNames
  <2> HIDE DEF M, s, r, new
  <2>3. /\ Append(g, new) \in Seq(CellRecord) /\ Len(Append(g, new)) = Len(g) + 1
        /\ \A i \in 1 .. Len(g) : Append(g, new)[i] = g[i]
        /\ Append(g, new)[Len(g) + 1] = new
    BY <2>2, AppendProperties
  <2>4. \A i \in 1 .. Len(g) + 1 : i \in 1 .. Len(g) \/ i = Len(g) + 1
    BY <1>1
  <2> QED BY <1>1, <2>1, <2>2, <2>3, <2>4 DEF Extended, r
<1> QED BY <1>3, <1>4

LEMMA BindFacts ==
  ASSUME NEW g \in Seq(CellRecord), NEW n \in CellNames, NEW len, NEW x \in GVM \cup {0}
  PROVE  /\ Bind(g, n, len, x) \in Seq(CellRecord) /\ Extended(g, Bind(g, n, len, x))
         /\ Bind(g, n, len, x) # <<>>
         /\ \A i \in 1 .. Len(Bind(g, n, len, x)) :
              \/ i <= Len(g) /\ Bind(g, n, len, x)[i] = g[i]
              \/ Bind(g, n, len, x)[i].value \in {0, x}
<1> DEFINE r == creme_global_intern(g, n, len)
           h == r.g
           s == r.slot
           b == Bind(g, n, len, x)
           c == Cell(n, x)
<1>1. /\ h \in Seq(CellRecord) /\ Extended(g, h)
      /\ s \in 1 .. Len(h) /\ h[s].name = n
      /\ \A i \in 1 .. Len(h) : (i <= Len(g) /\ h[i] = g[i]) \/ h[i].value = 0
  BY InternFacts
<1>2. b = [h EXCEPT ![s] = c]
  BY DEF Bind
<1>3. c \in CellRecord /\ c.name = n /\ c.value = x
  BY DEF Cell, CellRecord
<1> HIDE DEF r, h, s, b, c
<1>4. b \in Seq(CellRecord) /\ Len(b) = Len(h) /\ b[s] = c /\ \A i \in 1 .. Len(h) : i # s => b[i] = h[i]
  BY <1>1, <1>2, <1>3, ExceptSeq
<1>5. b # <<>>
  <2>1. Len(b) # 0
    BY <1>1, <1>4
  <2> QED BY <2>1, EmptySeq
<1>6. Extended(g, b)
  <2>1. Len(g) \in Nat /\ Len(h) \in Nat
    BY <1>1, LenProperties
  <2> QED BY <1>1, <1>3, <1>4, <2>1 DEF Extended
<1> QED BY <1>1, <1>3, <1>4, <1>5, <1>6 DEF b

LEMMA BindPortsFacts ==
  ASSUME NEW g \in Seq(CellRecord), NEW v \in GVM
  PROVE  /\ BindPorts(g, v) \in Seq(CellRecord) /\ Extended(g, BindPorts(g, v)) /\ BindPorts(g, v) # <<>>
         /\ \A i \in 1 .. Len(BindPorts(g, v)) :
              \/ i <= Len(g) /\ BindPorts(g, v)[i] = g[i]
              \/ BindPorts(g, v)[i].value \in {0, v}
<1> DEFINE h == Bind(g, Out, 20, v)
           b == Bind(h, In, 19, 0)
<1>1. b = BindPorts(g, v) /\ Out \in CellNames /\ In \in CellNames
  BY DEF BindPorts, CellNames
<1>2. /\ h \in Seq(CellRecord) /\ Extended(g, h)
      /\ \A i \in 1 .. Len(h) : (i <= Len(g) /\ h[i] = g[i]) \/ h[i].value \in {0, v}
  BY <1>1, BindFacts
<1> HIDE DEF h
<1>3. /\ b \in Seq(CellRecord) /\ Extended(h, b) /\ b # <<>>
      /\ \A i \in 1 .. Len(b) : (i <= Len(h) /\ b[i] = h[i]) \/ b[i].value \in {0, 0}
  BY <1>1, <1>2, BindFacts
<1> HIDE DEF b
<1>4. Len(g) \in Nat /\ Len(h) \in Nat /\ Len(b) \in Nat
  BY <1>2, <1>3, LenProperties
<1>5. Extended(g, b)
  BY <1>2, <1>3, <1>4 DEF Extended
<1>6. ASSUME NEW i \in 1 .. Len(b)
      PROVE  (i <= Len(g) /\ b[i] = g[i]) \/ b[i].value \in {0, v}
  <2>1. CASE i <= Len(h) /\ b[i] = h[i]
    <3>1. i \in 1 .. Len(h)
      BY <1>4, <2>1
    <3> QED BY <1>2, <2>1, <3>1
  <2>2. CASE b[i].value = 0
    BY <2>2
  <2> QED BY <1>3, <2>1, <2>2
<1> QED BY <1>1, <1>3, <1>5, <1>6

\* The slots: what a VM runs was resolved before it ran it, and a table only
\* grows at its end, so what a slot meant when it was resolved it means for
\* good, in the table it was resolved in and in every copy of that table.
LEMMA SlotsStart == GlobalsInit => SlotsInv
<1> SUFFICES ASSUME GlobalsInit PROVE SlotsInv
  OBVIOUS
<1>1. <<Cell("+", 0)>> \in Seq(CellRecord)
  BY DEF Cell, CellRecord, CellNames
<1>2. creme_register_base_builtins \in Seq(CellRecord)
  BY <1>1, BindPortsFacts, GlobalsAssumption DEF creme_register_base_builtins
<1> QED BY <1>2 DEF GlobalsInit, SlotsInv, GlobalsType, SlotsOK

LEMMA SlotsStep == SlotsInv /\ [GlobalsNext]_globalVars => SlotsInv'
<1> SUFFICES ASSUME SlotsInv, [GlobalsNext]_globalVars PROVE SlotsInv'
  OBVIOUS
<1>1. CASE UNCHANGED <<globals, slotOf, runs>>
  BY <1>1 DEF SlotsInv, GlobalsType, SlotsOK
<1>2. ASSUME NEW v \in GVM, NEW u \in GVM, creme_new_child_vm(v, u) PROVE SlotsInv'
  <2> DEFINE b == BindPorts(globals[u], v)
  <2>1. globals' = [globals EXCEPT ![v] = b] /\ runs' = [runs EXCEPT ![v] = runs[u]] /\ slotOf' = slotOf
    BY <1>2 DEF creme_new_child_vm
  <2>2. globals[u] \in Seq(CellRecord)
    BY DEF SlotsInv, GlobalsType
  <2>3. b \in Seq(CellRecord) /\ Extended(globals[u], b) /\ b # <<>>
    BY <2>2, BindPortsFacts
  <2> HIDE DEF b
  <2>4. GlobalsType'
    BY <2>1, <2>3 DEF SlotsInv, GlobalsType
  <2>5. Len(b) \in Nat /\ Len(globals[u]) \in Nat
    BY <2>2, <2>3, LenProperties
  <2>6. ASSUME NEW w \in GVM, NEW n \in runs'[w]
        PROVE  slotOf'[n] \in 1 .. Len(globals'[w]) /\ globals'[w][slotOf'[n]].name = n
    <3>1. CASE w = v
      <4>1. globals'[w] = b /\ n \in runs[u]
        BY <2>1, <3>1 DEF SlotsInv, GlobalsType
      <4>2. slotOf[n] \in 1 .. Len(globals[u]) /\ globals[u][slotOf[n]].name = n
        BY <4>1 DEF SlotsInv, SlotsOK
      <4>3. slotOf[n] \in 1 .. Len(b) /\ b[slotOf[n]].name = n
        BY <2>3, <2>5, <4>2 DEF Extended
      <4> QED BY <2>1, <4>1, <4>3
    <3>2. CASE w # v
      BY <2>1, <3>2 DEF SlotsInv, GlobalsType, SlotsOK
    <3> QED BY <3>1, <3>2
  <2>7. ASSUME NEW w \in GVM, globals'[w] = <<>> PROVE runs'[w] = {}
    BY <2>1, <2>3, <2>7 DEF SlotsInv, GlobalsType, SlotsOK
  <2> QED BY <2>4, <2>6, <2>7 DEF SlotsInv, SlotsOK
<1>3. ASSUME NEW v \in GVM, NEW n \in GName, resolve_globals(v, n) PROVE SlotsInv'
  <2> DEFINE r == creme_global_intern(globals[v], n, strlen(n))
             h == r.g
             s == r.slot
  <2>1. /\ globals' = [globals EXCEPT ![v] = h] /\ slotOf' = [slotOf EXCEPT ![n] = s]
        /\ runs' = [runs EXCEPT ![v] = @ \cup {n}] /\ slotOf[n] = 0 /\ globals[v] # <<>>
    BY <1>3 DEF resolve_globals
  <2>2. globals[v] \in Seq(CellRecord) /\ n \in CellNames
    BY DEF SlotsInv, GlobalsType, CellNames
  <2>3. h \in Seq(CellRecord) /\ Extended(globals[v], h) /\ s \in 1 .. Len(h) /\ h[s].name = n
    BY <2>2, InternFacts
  <2> HIDE DEF r, h, s
  <2>4. Len(h) \in Nat /\ Len(globals[v]) \in Nat
    BY <2>2, <2>3, LenProperties
  <2>5. GlobalsType'
    BY <2>1, <2>3, <2>4 DEF SlotsInv, GlobalsType
  <2>6. h # <<>>
    BY <2>3, <2>4, EmptySeq
  <2>7. \A w \in GVM : n \notin runs[w]
    <3> SUFFICES ASSUME NEW w \in GVM, n \in runs[w] PROVE FALSE
      OBVIOUS
    <3>1. 0 \in 1 .. Len(globals[w])
      BY <2>1 DEF SlotsInv, SlotsOK
    <3> QED BY <3>1
  <2>8. ASSUME NEW w \in GVM, NEW m \in runs'[w]
        PROVE  slotOf'[m] \in 1 .. Len(globals'[w]) /\ globals'[w][slotOf'[m]].name = m
    <3>1. CASE m = n
      <4>1. w = v
        BY <2>1, <2>7, <3>1 DEF SlotsInv, GlobalsType
      <4>2. globals'[w] = h /\ slotOf'[m] = s
        BY <2>1, <3>1, <4>1 DEF SlotsInv, GlobalsType
      <4> QED BY <2>3, <3>1, <4>2
    <3>2. CASE m # n
      <4>1. m \in runs[w]
        BY <2>1, <3>2 DEF SlotsInv, GlobalsType
      <4>2. m \in GName /\ slotOf'[m] = slotOf[m]
        BY <2>1, <3>2, <4>1 DEF SlotsInv, GlobalsType
      <4>3. slotOf[m] \in 1 .. Len(globals[w]) /\ globals[w][slotOf[m]].name = m
        BY <4>1 DEF SlotsInv, SlotsOK
      <4>4. CASE w = v
        <5>1. globals'[w] = h
          BY <2>1, <4>4 DEF SlotsInv, GlobalsType
        <5>2. slotOf[m] \in 1 .. Len(h) /\ h[slotOf[m]].name = m
          BY <2>3, <2>4, <4>3, <4>4 DEF Extended
        <5> QED BY <4>2, <5>1, <5>2
      <4>5. CASE w # v
        <5>1. globals'[w] = globals[w]
          BY <2>1, <4>5 DEF SlotsInv, GlobalsType
        <5> QED BY <4>2, <4>3, <5>1
      <4> QED BY <4>4, <4>5
    <3> QED BY <3>1, <3>2
  <2>9. ASSUME NEW w \in GVM, globals'[w] = <<>> PROVE runs'[w] = {}
    BY <2>1, <2>6, <2>9 DEF SlotsInv, GlobalsType, SlotsOK
  <2> QED BY <2>5, <2>8, <2>9 DEF SlotsInv, SlotsOK
<1>4. ASSUME NEW v \in GVM, NEW p \in Ports, Parameterized(v, p) PROVE SlotsInv'
  BY <1>1, <1>4 DEF Parameterized
<1>5. ASSUME NEW v \in GVM, NEW p \in Ports, bi_with_output_to_file(v, p) PROVE SlotsInv'
  BY <1>1, <1>5 DEF bi_with_output_to_file
<1>6. ASSUME NEW v \in GVM, bi_restore_output_port(v) PROVE SlotsInv'
  BY <1>1, <1>6 DEF bi_restore_output_port
<1>7. CASE UNCHANGED globalVars
  BY <1>1, <1>7 DEF globalVars
<1> QED BY <1>2, <1>3, <1>4, <1>5, <1>6, <1>7 DEF GlobalsNext

\* A VM that runs a chunk, loaded by itself or by an ancestor before the VM
\* was made, finds at every slot of the chunk the cell of the name it means.
THEOREM SlotsMeanNames == GlobalsSpec => []SlotMeansName
<1>1. SlotsInv => SlotMeansName
  BY DEF SlotsInv, SlotsOK, SlotMeansName
<1> QED BY <1>1, SlotsStart, SlotsStep, PTL DEF GlobalsSpec

\* The redirections of a VM are of its own Parameter, and the first of them
\* saved stdout; the main VM's cells hold no Parameter but its own, for it is
\* no VM's child, and only the main VM names the Parameter through its cell.
PortsInv ==
  /\ SlotsInv
  /\ param \in [GVM -> Ports]
  /\ redirect = [v \in GVM |-> redirect[v]]
  /\ globals[1] # <<>> /\ \A i \in 1 .. Len(globals[1]) : globals[1][i].value \in {0, 1}
  /\ \A v \in GVM :
       /\ redirect[v] \in Seq([owner : {v}, saved : Ports])
       /\ redirect[v] = <<>> => param[v] = "stdout"
       /\ redirect[v] # <<>> => redirect[v][1].saved = "stdout"

LEMMA PortsStart == GlobalsInit => PortsInv
<1> SUFFICES ASSUME GlobalsInit PROVE PortsInv
  OBVIOUS
<1> DEFINE g == <<Cell("+", 0)>>
           b == BindPorts(g, 1)
<1>1. g \in Seq(CellRecord) /\ Len(g) = 1 /\ g[1].value = 0
  BY DEF Cell, CellRecord, CellNames
<1>2. globals[1] = b
  BY GlobalsAssumption DEF GlobalsInit, creme_register_base_builtins
<1> HIDE DEF g
<1>3. /\ b \in Seq(CellRecord) /\ b # <<>>
      /\ \A i \in 1 .. Len(b) : (i <= Len(g) /\ b[i] = g[i]) \/ b[i].value \in {0, 1}
  BY <1>1, GlobalsAssumption, BindPortsFacts
<1> HIDE DEF b
<1>4. \A i \in 1 .. Len(b) : b[i].value \in {0, 1}
  <2> SUFFICES ASSUME NEW i \in 1 .. Len(b), i <= 1, b[i] = g[i] PROVE b[i].value = 0
    BY <1>1, <1>3
  <2>1. i = 1
    OBVIOUS
  <2> QED BY <1>1, <2>1
<1>5. SlotsInv
  BY SlotsStart
<1>6. \A v \in GVM : redirect[v] = <<>> /\ param[v] = "stdout" /\ redirect[v] \in Seq([owner : {v}, saved : Ports])
  BY DEF GlobalsInit
<1>7. param \in [GVM -> Ports] /\ redirect = [v \in GVM |-> redirect[v]]
  BY DEF GlobalsInit, Ports
<1> QED BY <1>2, <1>3, <1>4, <1>5, <1>6, <1>7 DEF PortsInv

\* A sequence without its last element.
LEMMA SubSeqFront ==
  ASSUME NEW R, NEW s \in Seq(R), Len(s) \in Nat \ {0}
  PROVE  /\ SubSeq(s, 1, Len(s) - 1) \in Seq(R)
         /\ Len(SubSeq(s, 1, Len(s) - 1)) = Len(s) - 1
<1>1. \A i \in 1 .. Len(s) : s[i] \in R
  BY ElementOfSeq
<1>2. PICK k \in Nat : k = Len(s) - 1
  OBVIOUS
<1>3. \A i \in 1 .. k : s[i] \in R
  BY <1>1, <1>2
<1>4. SubSeq(s, 1, k) \in Seq(R) /\ Len(SubSeq(s, 1, k)) = IF 1 <= k THEN k - 1 + 1 ELSE 0
  <2>1. 1 \in Int /\ k \in Int
    BY <1>2
  <2> QED BY <1>3, <2>1, SubSeqProperties
<1> QED BY <1>2, <1>4

\* Entering a redirection of the VM's own Parameter keeps the order of the
\* ports it put aside.
LEMMA RedirectStep ==
  ASSUME PortsInv, SlotsInv', NEW v \in GVM, NEW p \in Ports, globals' = globals,
         redirect' = [redirect EXCEPT ![v] = Append(@, [owner |-> v, saved |-> param[v]])],
         param' = [param EXCEPT ![v] = p]
  PROVE  PortsInv'
<1> DEFINE e == [owner |-> v, saved |-> param[v]]
           a == Append(redirect[v], e)
<1>1. redirect[v] \in Seq([owner : {v}, saved : Ports]) /\ e \in [owner : {v}, saved : Ports]
  BY DEF PortsInv
<1>2. e.saved = param[v]
  OBVIOUS
<1> HIDE DEF e
<1>3. /\ a \in Seq([owner : {v}, saved : Ports]) /\ Len(a) = Len(redirect[v]) + 1
      /\ \A i \in 1 .. Len(redirect[v]) : a[i] = redirect[v][i]
      /\ a[Len(redirect[v]) + 1] = e
  BY <1>1, AppendProperties
<1>4. Len(redirect[v]) \in Nat /\ (redirect[v] = <<>> <=> Len(redirect[v]) = 0)
  BY <1>1, LenProperties, EmptySeq
<1> HIDE DEF a
<1>5. a # <<>>
  BY <1>3, <1>4, EmptySeq
<1>6. a[1].saved = "stdout"
  <2>1. CASE redirect[v] = <<>>
    <3>1. a[1] = e
      BY <1>3, <1>4, <2>1
    <3> QED BY <1>2, <2>1, <3>1 DEF PortsInv
  <2>2. CASE redirect[v] # <<>>
    <3>1. a[1] = redirect[v][1]
      BY <1>3, <1>4, <2>2
    <3> QED BY <2>2, <3>1 DEF PortsInv
  <2> QED BY <2>1, <2>2
<1>7. redirect' = [redirect EXCEPT ![v] = a]
  BY DEF a, e
<1>8. param' \in [GVM -> Ports] /\ redirect' = [w \in GVM |-> redirect'[w]]
  BY <1>7 DEF PortsInv
<1>9. ASSUME NEW w \in GVM
      PROVE  /\ redirect'[w] \in Seq([owner : {w}, saved : Ports])
             /\ redirect'[w] = <<>> => param'[w] = "stdout"
             /\ redirect'[w] # <<>> => redirect'[w][1].saved = "stdout"
  <2>1. CASE w = v
    <3>1. redirect'[w] = a
      BY <1>7, <2>1 DEF PortsInv
    <3> QED BY <1>3, <1>5, <1>6, <2>1, <3>1
  <2>2. CASE w # v
    <3>1. redirect'[w] = redirect[w] /\ param'[w] = param[w]
      BY <1>7, <2>2 DEF PortsInv
    <3> QED BY <3>1 DEF PortsInv
  <2> QED BY <2>1, <2>2
<1> QED BY <1>8, <1>9 DEF PortsInv

LEMMA PortsStep ==
  ASSUME ~ ChildrenRedirect, PortsInv, [GlobalsNext]_globalVars
  PROVE  PortsInv'
<1>1. SlotsInv'
  BY SlotsStep DEF PortsInv
<1>2. ASSUME UNCHANGED <<param, redirect>>, globals'[1] # <<>>,
             \A i \in 1 .. Len(globals'[1]) : globals'[1][i].value \in {0, 1}
      PROVE  PortsInv'
  BY <1>1, <1>2 DEF PortsInv
<1>3. ASSUME NEW v \in GVM, NEW u \in GVM, creme_new_child_vm(v, u) PROVE PortsInv'
  <2>1. v # 1 /\ globals'[1] = globals[1] /\ UNCHANGED <<param, redirect>>
    BY <1>3, GlobalsAssumption DEF creme_new_child_vm, PortsInv, SlotsInv, GlobalsType
  <2> QED BY <1>2, <2>1 DEF PortsInv
<1>4. ASSUME NEW v \in GVM, NEW n \in GName, resolve_globals(v, n) PROVE PortsInv'
  <2> DEFINE r == creme_global_intern(globals[v], n, strlen(n))
             h == r.g
  <2>1. globals' = [globals EXCEPT ![v] = h] /\ UNCHANGED <<param, redirect>>
    BY <1>4 DEF resolve_globals
  <2>2. globals[v] \in Seq(CellRecord) /\ n \in CellNames
    BY DEF PortsInv, SlotsInv, GlobalsType, CellNames
  <2>3. /\ h \in Seq(CellRecord) /\ Extended(globals[v], h)
        /\ \A i \in 1 .. Len(h) : (i <= Len(globals[v]) /\ h[i] = globals[v][i]) \/ h[i].value = 0
    BY <2>2, InternFacts
  <2> HIDE DEF r, h
  <2>4. Len(h) \in Nat /\ Len(globals[v]) \in Nat
    BY <2>2, <2>3, LenProperties
  <2>5. CASE v = 1
    <3>1. globals'[1] = h
      BY <2>1, <2>5 DEF PortsInv, SlotsInv, GlobalsType
    <3>2. Len(globals[1]) # 0
      BY <2>2, <2>5, EmptySeq DEF PortsInv
    <3>3. h # <<>>
      BY <2>3, <2>4, <2>5, <3>2, EmptySeq DEF Extended
    <3>4. ASSUME NEW i \in 1 .. Len(h) PROVE h[i].value \in {0, 1}
      <4>1. CASE i <= Len(globals[v]) /\ h[i] = globals[v][i]
        <5>1. i \in 1 .. Len(globals[1])
          BY <2>4, <2>5, <4>1
        <5> QED BY <2>5, <4>1, <5>1 DEF PortsInv
      <4> QED BY <2>3, <4>1
    <3> QED BY <1>2, <2>1, <3>1, <3>3, <3>4
  <2>6. CASE v # 1
    <3>1. globals'[1] = globals[1]
      BY <2>1, <2>6, GlobalsAssumption DEF PortsInv, SlotsInv, GlobalsType
    <3> QED BY <1>2, <2>1, <3>1 DEF PortsInv
  <2> QED BY <2>5, <2>6
<1>5. ASSUME NEW v \in GVM, NEW p \in Ports, Parameterized(v, p) PROVE PortsInv'
  <2> DEFINE owner == globals[v][slotOf[Out]].value
  <2>1. v = 1 /\ Out \in runs[v] /\ owner # 0
    BY <1>5 DEF Parameterized
  <2>2. slotOf[Out] \in 1 .. Len(globals[1])
    BY <2>1, GlobalsAssumption DEF PortsInv, SlotsInv, SlotsOK
  <2>3. owner \in {0, 1}
    BY <2>1, <2>2 DEF PortsInv
  <2>4. owner = v
    BY <2>1, <2>3
  <2>5. /\ globals' = globals
        /\ redirect' = [redirect EXCEPT ![v] = Append(@, [owner |-> owner, saved |-> param[owner]])]
        /\ param' = [param EXCEPT ![owner] = p]
    BY <1>5 DEF Parameterized
  <2> QED BY <1>1, <2>4, <2>5, RedirectStep
<1>6. ASSUME NEW v \in GVM, NEW p \in Ports, bi_with_output_to_file(v, p) PROVE PortsInv'
  BY <1>1, <1>6, RedirectStep DEF bi_with_output_to_file
<1>7. ASSUME NEW v \in GVM, bi_restore_output_port(v) PROVE PortsInv'
  <2> DEFINE s == redirect[v]
             f == Front(s)
             last == Last(s)
  <2>1. /\ s # <<>> /\ globals' = globals /\ redirect' = [redirect EXCEPT ![v] = f]
        /\ param' = [param EXCEPT ![last.owner] = last.saved]
    BY <1>7 DEF bi_restore_output_port
  <2>2. s \in Seq([owner : {v}, saved : Ports]) /\ s[1].saved = "stdout"
    BY <2>1 DEF PortsInv
  <2>3. last = s[Len(s)] /\ f = SubSeq(s, 1, Len(s) - 1)
    BY DEF Last, Front
  <2> HIDE DEF s, f, last
  <2>4. Len(s) \in Nat \ {0}
    BY <2>1, <2>2, EmptySeq, LenProperties
  <2>5. last \in [owner : {v}, saved : Ports]
    <3>1. Len(s) \in 1 .. Len(s)
      BY <2>4
    <3>2. s[Len(s)] \in [owner : {v}, saved : Ports]
      BY <2>2, <3>1, ElementOfSeq
    <3> QED BY <2>3, <3>2
  <2>6. f \in Seq([owner : {v}, saved : Ports]) /\ Len(f) = Len(s) - 1
        /\ \A i \in 1 .. Len(s) - 1 : f[i] = s[i]
    <3>1. Len(s) - 1 <= Len(s) /\ 1 \in 1 .. Len(s) + 1 /\ Len(s) - 1 \in 0 .. Len(s)
      BY <2>4
    <3>2. \A i \in 1 .. Len(s) - 1 : f[i] = s[i]
      BY <2>2, <2>3, <2>4
    <3>3. Len(f) = Len(s) - 1 /\ f \in Seq([owner : {v}, saved : Ports])
      BY <2>2, <2>3, <2>4, <3>1, SubSeqFront
    <3> QED BY <3>2, <3>3
  <2>7. param' = [param EXCEPT ![v] = last.saved] /\ last.saved \in Ports
    BY <2>1, <2>5
  <2>8. f = <<>> => last.saved = "stdout"
    <3> SUFFICES ASSUME Len(s) = 1 PROVE last.saved = "stdout"
      BY <2>4, <2>6, EmptySeq
    <3> QED BY <2>2, <2>3
  <2>9. f # <<>> => f[1].saved = "stdout"
    <3> SUFFICES ASSUME Len(f) # 0 PROVE f[1].saved = "stdout"
      BY <2>6, EmptySeq
    <3>1. f[1] = s[1]
      BY <2>4, <2>6
    <3> QED BY <2>2, <3>1
  <2>10. param' \in [GVM -> Ports] /\ redirect' = [w \in GVM |-> redirect'[w]]
    BY <2>1, <2>7 DEF PortsInv
  <2>11. ASSUME NEW w \in GVM
         PROVE  /\ redirect'[w] \in Seq([owner : {w}, saved : Ports])
                /\ redirect'[w] = <<>> => param'[w] = "stdout"
                /\ redirect'[w] # <<>> => redirect'[w][1].saved = "stdout"
    <3>1. CASE w = v
      <4>1. redirect'[w] = f /\ param'[w] = last.saved
        BY <2>1, <2>7, <3>1 DEF PortsInv
      <4> QED BY <2>6, <2>8, <2>9, <3>1, <4>1
    <3>2. CASE w # v
      <4>1. redirect'[w] = redirect[w] /\ param'[w] = param[w]
        BY <2>1, <2>7, <3>2 DEF PortsInv
      <4> QED BY <4>1 DEF PortsInv
    <3> QED BY <3>1, <3>2
  <2> QED BY <1>1, <2>1, <2>10, <2>11 DEF PortsInv
<1>8. CASE UNCHANGED globalVars
  BY <1>1, <1>8 DEF globalVars, PortsInv
<1> QED BY <1>3, <1>4, <1>5, <1>6, <1>7, <1>8 DEF GlobalsNext

\* Where only the main VM redirects its default port by name (an actor that
\* does redirects its parent's), the redirections of each VM nest, and with
\* none in force every default port is stdout.
THEOREM NamesAndPorts == ~ ChildrenRedirect => (GlobalsSpec => []GlobalsMeanNames)
<1> SUFFICES ASSUME ~ ChildrenRedirect PROVE GlobalsSpec => []GlobalsMeanNames
  OBVIOUS
<1>1. PortsInv => GlobalsMeanNames
  BY DEF PortsInv, SlotsInv, SlotsOK, GlobalsMeanNames, SlotMeansName, PortsRestored
<1>2. PortsInv /\ [GlobalsNext]_globalVars => PortsInv'
  BY PortsStep
<1> QED BY <1>1, <1>2, PortsStart, PTL DEF GlobalsSpec

-----------------------------------------------------------------------------
(***************************************************************************)
(* Hash tables.  A table is sound for a list w of the entries present, in  *)
(* the order of their last write, when the map leads from each key to its  *)
(* entry and these slots are in the order of w.                            *)
(***************************************************************************)
TableSpec == TableInit /\ [][TableNext]_tableVars

EntryRecord == [key : HKey, value : HValue]

Mapped(s, m, n) ==
  /\ s \in Seq(EntryRecord)
  /\ DOMAIN m \subseteq HKey /\ IsFiniteSet(DOMAIN m) /\ n = Cardinality(DOMAIN m)
  /\ m \in [DOMAIN m -> 1 .. Len(s)]
  /\ \A k \in DOMAIN m : s[m[k]].key = k

Listed(s, m, w) ==
  /\ w \in Seq(EntryRecord)
  /\ \A i \in 1 .. Len(w) : w[i].key \in DOMAIN m /\ w[i] = s[m[w[i].key]]
  /\ \A i, j \in 1 .. Len(w) : i < j => m[w[i].key] < m[w[j].key]
  /\ \A k \in DOMAIN m : \E i \in 1 .. Len(w) : w[i].key = k

Sound(s, m, n, w) == Mapped(s, m, n) /\ Listed(s, m, w)

LEMMA SlotFacts ==
  ASSUME NEW s, NEW m, NEW n, Mapped(s, m, n)
  PROVE  /\ Len(s) \in Nat /\ n \in Nat
         /\ \A k \in DOMAIN m : m[k] \in 1 .. Len(s) /\ m[k] \in Nat /\ s[m[k]].key = k
         /\ \A k, l \in DOMAIN m : m[k] = m[l] => k = l
  BY LenProperties, FS_CardinalityType DEF Mapped

\* The live slots are those the map leads to, one per key.
LEMMA LiveFacts ==
  ASSUME NEW s, NEW m, NEW n, Mapped(s, m, n)
  PROVE  /\ LiveSlots(Table(s, m, n)) = {m[k] : k \in DOMAIN m}
         /\ LiveSlots(Table(s, m, n)) \in SUBSET (1 .. Len(s))
         /\ Cardinality(LiveSlots(Table(s, m, n))) = n
<1> DEFINE S == LiveSlots(Table(s, m, n))
           D == DOMAIN m
           g == [k \in D |-> m[k]]
<1>1. /\ Len(s) \in Nat /\ DOMAIN s = 1 .. Len(s)
      /\ \A k \in D : m[k] \in 1 .. Len(s) /\ s[m[k]].key = k
      /\ \A k, l \in D : m[k] = m[l] => k = l
  BY SlotFacts, LenProperties DEF Mapped
<1>2. S = {i \in 1 .. Len(s) : creme_ht_idx_get(m, s[i].key) = i}
  BY <1>1 DEF LiveSlots, Live, Table
<1> HIDE DEF S
<1>3. S = {m[k] : k \in D}
  <2>1. ASSUME NEW i \in S PROVE i \in {m[k] : k \in D}
    BY <1>1, <1>2 DEF creme_ht_idx_get
  <2>2. ASSUME NEW k \in D PROVE m[k] \in S
    BY <1>1, <1>2 DEF creme_ht_idx_get
  <2> QED BY <2>1, <2>2
<1>4. g \in Bijection(D, S)
  <2>1. g \in [D -> S] /\ \A k, l \in D : g[k] = g[l] => k = l
    BY <1>1, <1>3
  <2>2. \A i \in S : \E k \in D : g[k] = i
    BY <1>3
  <2> HIDE DEF g
  <2> QED BY <2>1, <2>2 DEF Bijection, Injection, IsInjective, Surjection
<1>5. IsFiniteSet(D) /\ Cardinality(D) = n
  BY DEF Mapped
<1>6. Cardinality(S) = n
  BY <1>4, <1>5, FS_Bijection DEF ExistsBijection
<1> QED BY <1>1, <1>2, <1>3, <1>6 DEF S

\* Enumeration gives the list.
LEMMA CollectsList ==
  ASSUME NEW s, NEW m, NEW n, NEW w, Sound(s, m, n, w)
  PROVE  collect_live(Table(s, m, n)) = w
<1> DEFINE S == LiveSlots(Table(s, m, n))
           c == Len(w)
           g == [i \in 1 .. c |-> m[w[i].key]]
<1>1. /\ S = {m[k] : k \in DOMAIN m} /\ S \in SUBSET (1 .. Len(s)) /\ Cardinality(S) = n /\ Len(s) \in Nat
      /\ \A k \in DOMAIN m : m[k] \in Nat
  BY LiveFacts, SlotFacts DEF Sound
<1>2. collect_live(Table(s, m, n)) = [i \in 1 .. Cardinality(S) |-> s[InOrder(S)[i]]]
  BY DEF collect_live, Sublist, Table
<1>3. /\ c \in Nat /\ w = [i \in 1 .. c |-> w[i]]
      /\ \A i \in 1 .. c : w[i].key \in DOMAIN m /\ w[i] = s[m[w[i].key]]
      /\ \A i, j \in 1 .. c : i < j => m[w[i].key] < m[w[j].key]
      /\ \A k \in DOMAIN m : \E i \in 1 .. c : w[i].key = k
  BY LenProperties DEF Sound, Listed
<1> HIDE DEF S, c
<1>4. g \in [1 .. c -> S] /\ \A i, j \in 1 .. c : i < j => g[i] < g[j]
  BY <1>1, <1>3
<1>5. \A i, j \in 1 .. c : g[i] = g[j] => i = j
  <2> SUFFICES ASSUME NEW i \in 1 .. c, NEW j \in 1 .. c, g[i] = g[j] PROVE i = j
    OBVIOUS
  <2>1. g[i] \in Nat /\ g[j] \in Nat
    BY <1>1, <1>3
  <2>2. ~ (i < j) /\ ~ (j < i)
    <3> HIDE DEF g
    <3> QED BY <1>4, <2>1
  <2> QED BY <1>3, <2>2
<1>6. ASSUME NEW x \in S PROVE \E i \in 1 .. c : g[i] = x
  <2>1. PICK k \in DOMAIN m : x = m[k]
    BY <1>1
  <2>2. PICK i \in 1 .. c : w[i].key = k
    BY <1>3
  <2> QED BY <2>1, <2>2
<1> HIDE DEF g
<1>7. Cardinality(S) = c
  <2>1. g \in Bijection(1 .. c, S)
    BY <1>4, <1>5, <1>6 DEF Bijection, Injection, IsInjective, Surjection
  <2>2. IsFiniteSet(1 .. c) /\ Cardinality(1 .. c) = c
    BY <1>3, FS_Interval
  <2> QED BY <2>1, <2>2, FS_Bijection DEF ExistsBijection
<1>8. g = InOrder(S)
  BY <1>1, <1>4, <1>7, OneOrder DEF Ascends
<1>9. \A i \in 1 .. c : s[InOrder(S)[i]] = w[i]
  BY <1>3, <1>8 DEF g
<1>10. [i \in 1 .. c |-> s[InOrder(S)[i]]] = [i \in 1 .. c |-> w[i]]
  BY <1>9
<1> QED BY <1>2, <1>3, <1>7, <1>10

\* Compaction renumbers the slots and keeps their order.
LEMMA CompactSound ==
  ASSUME NEW s, NEW m, NEW n, NEW w, Sound(s, m, n, w)
  PROVE  \E s2, m2 : /\ ht_compact(Table(s, m, n)) = Table(s2, m2, n)
                     /\ Sound(s2, m2, n, w) /\ Len(s2) = n
<1> DEFINE S == LiveSlots(Table(s, m, n))
           f == InOrder(S)
           p == Sublist(s, S)
           D == DOMAIN m
           SlotsOf(k) == {i \in DOMAIN p : p[i].key = k}
           q == Repointed(m, p)
<1>1. /\ S = {m[k] : k \in D} /\ S \in SUBSET (1 .. Len(s)) /\ Cardinality(S) = n
      /\ Len(s) \in Nat /\ n \in Nat
      /\ \A k \in D : m[k] \in 1 .. Len(s) /\ s[m[k]].key = k
      /\ \A k, l \in D : m[k] = m[l] => k = l
  BY LiveFacts, SlotFacts DEF Sound
<1>2. s \in Seq(EntryRecord)
  BY DEF Sound, Mapped
<1>3. /\ p \in Seq(EntryRecord) /\ Len(p) = n
      /\ \A i \in 1 .. n : f[i] \in S /\ p[i] = s[f[i]]
  <2>1. S \in SUBSET (1 .. Len(s))
    BY <1>1
  <2> HIDE DEF S
  <2>2. /\ Sublist(s, S) \in Seq(EntryRecord) /\ Len(Sublist(s, S)) = Cardinality(S)
        /\ \A i \in 1 .. Cardinality(S) : InOrder(S)[i] \in S /\ Sublist(s, S)[i] = s[InOrder(S)[i]]
    BY SMTT(60), <1>2, <2>1, SublistFacts
  <2>3. Cardinality(S) = n
    BY <1>1
  <2> QED BY <2>2, <2>3
<1>4. DOMAIN p = 1 .. n
  BY <1>3, LenProperties
<1>5. /\ \A i, j \in 1 .. n : f[i] = f[j] => i = j
      /\ \A i, j \in 1 .. n : f[i] < f[j] => i < j
      /\ \A x \in S : \E i \in 1 .. n : f[i] = x
  <2>1. S \in SUBSET (1 .. Len(s)) /\ Len(s) \in Nat /\ Cardinality(S) = n
    BY <1>1
  <2> HIDE DEF S
  <2>2. /\ \A i, j \in 1 .. Cardinality(S) : InOrder(S)[i] = InOrder(S)[j] => i = j
        /\ \A i, j \in 1 .. Cardinality(S) : InOrder(S)[i] < InOrder(S)[j] => i < j
        /\ \A x \in S : \E i \in 1 .. Cardinality(S) : InOrder(S)[i] = x
    BY <2>1, OrderFacts
  <2> QED BY <2>1, <2>2
<1>6. ht_compact(Table(s, m, n)) = Table(p, q, n)
  <2>1. collect_live(Table(s, m, n)) = p
    BY DEF collect_live, Table
  <2>2. Table(s, m, n).index = m
    BY DEF Table
  <2> HIDE DEF p, S
  <2> QED BY <1>3, <2>1, <2>2 DEF ht_compact
<1> HIDE DEF S, f, p
<1>7. ASSUME NEW k \in D PROVE q[k] \in 1 .. n /\ f[q[k]] = m[k] /\ p[q[k]] = s[m[k]]
  <2>1. PICK i \in 1 .. n : f[i] = m[k]
    BY <1>1, <1>5
  <2>2. i \in SlotsOf(k)
    BY <1>1, <1>3, <1>4, <2>1
  <2>3. \A j \in SlotsOf(k) : j = i
    <3> SUFFICES ASSUME NEW j \in SlotsOf(k) PROVE j = i
      OBVIOUS
    <3>1. j \in 1 .. n /\ s[f[j]].key = k /\ f[j] \in S
      BY <1>3, <1>4
    <3>2. PICK l \in D : f[j] = m[l]
      BY <1>1, <3>1
    <3>3. l = k
      BY <1>1, <3>1, <3>2
    <3> QED BY <1>5, <2>1, <3>1, <3>2, <3>3
  <2> HIDE DEF SlotsOf
  <2>4. q[k] = CHOOSE j \in SlotsOf(k) : TRUE
    <3>1. {j \in DOMAIN p : p[j].key = k} # {}
      BY <2>2 DEF SlotsOf
    <3> QED BY <3>1 DEF Repointed, SlotsOf
  <2>5. q[k] = i
    BY <2>2, <2>3, <2>4
  <2> QED BY <1>3, <2>1, <2>5
<1>8. DOMAIN q = D /\ q = [k \in D |-> q[k]]
  BY DEF Repointed
<1> HIDE DEF q
<1>9. Mapped(p, q, n)
  <2>1. q \in [D -> 1 .. n] /\ \A k \in D : p[q[k]].key = k
    <3> QED BY <1>1, <1>7, <1>8
  <2> QED BY <1>3, <1>8, <2>1 DEF Sound, Mapped
<1>10. Listed(p, q, w)
  <2>1. ASSUME NEW i \in 1 .. Len(w) PROVE w[i].key \in D /\ w[i] = p[q[w[i].key]]
    BY <1>7 DEF Sound, Listed
  <2>2. ASSUME NEW i \in 1 .. Len(w), NEW j \in 1 .. Len(w), i < j PROVE q[w[i].key] < q[w[j].key]
    <3>1. f[q[w[i].key]] < f[q[w[j].key]]
      BY <1>7, <2>1, <2>2 DEF Sound, Listed
    <3> QED BY <1>5, <1>7, <2>1, <3>1
  <2> QED BY <1>8, <2>1, <2>2 DEF Sound, Listed
<1> QED BY <1>3, <1>6, <1>9, <1>10 DEF Sound

Rest(w, k) == Sublist(w, {i \in DOMAIN w : w[i].key # k})

\* A list without a key: the others stay, in their order.
LEMMA RestFacts ==
  ASSUME NEW w \in Seq(EntryRecord), NEW k
  PROVE  /\ Rest(w, k) \in Seq(EntryRecord)
         /\ \E f : /\ \A i \in 1 .. Len(Rest(w, k)) :
                        f[i] \in 1 .. Len(w) /\ Rest(w, k)[i] = w[f[i]] /\ w[f[i]].key # k
                   /\ \A i, j \in 1 .. Len(Rest(w, k)) : i < j => f[i] < f[j]
                   /\ \A j \in 1 .. Len(w) : w[j].key # k => \E i \in 1 .. Len(Rest(w, k)) : f[i] = j
<1> DEFINE S == {i \in DOMAIN w : w[i].key # k}
<1>1. Len(w) \in Nat /\ DOMAIN w = 1 .. Len(w)
  BY LenProperties
<1>2. S \in SUBSET (1 .. Len(w)) /\ (\A i \in S : w[i].key # k) /\ \A j \in 1 .. Len(w) : w[j].key # k => j \in S
  BY <1>1
<1>3. Rest(w, k) = Sublist(w, S)
  BY DEF Rest
<1> HIDE DEF S
<1>4. /\ Sublist(w, S) \in Seq(EntryRecord) /\ Len(Sublist(w, S)) = Cardinality(S)
      /\ \A i \in 1 .. Cardinality(S) : InOrder(S)[i] \in S /\ Sublist(w, S)[i] = w[InOrder(S)[i]]
  BY SMTT(60), <1>2, SublistFacts
<1>5. /\ InOrder(S) \in [1 .. Cardinality(S) -> S]
      /\ \A i, j \in 1 .. Cardinality(S) : i < j => InOrder(S)[i] < InOrder(S)[j]
      /\ \A j \in S : \E i \in 1 .. Cardinality(S) : InOrder(S)[i] = j
  BY <1>1, <1>2, OrderFacts DEF Ascends
<1>6. /\ \A i \in 1 .. Len(Rest(w, k)) :
            InOrder(S)[i] \in 1 .. Len(w) /\ Rest(w, k)[i] = w[InOrder(S)[i]] /\ w[InOrder(S)[i]].key # k
      /\ \A i, j \in 1 .. Len(Rest(w, k)) : i < j => InOrder(S)[i] < InOrder(S)[j]
      /\ \A j \in 1 .. Len(w) : w[j].key # k => \E i \in 1 .. Len(Rest(w, k)) : InOrder(S)[i] = j
  BY <1>2, <1>3, <1>4, <1>5
<1>7. Rest(w, k) \in Seq(EntryRecord)
  BY <1>3, <1>4
<1> QED BY <1>6, <1>7

LEMMA EraseSound ==
  ASSUME NEW s, NEW m, NEW n, NEW w, NEW k \in DOMAIN m, Sound(s, m, n, w)
  PROVE  Sound(s, creme_ht_idx_erase(m, k), n - 1, Rest(w, k))
<1> DEFINE D == DOMAIN m
           q == creme_ht_idx_erase(m, k)
           r == Rest(w, k)
<1>1. DOMAIN q = D \ {k} /\ \A l \in D \ {k} : q[l] = m[l]
  BY DEF creme_ht_idx_erase
<1>2. q = [l \in D \ {k} |-> m[l]]
  BY DEF creme_ht_idx_erase
<1>3. Mapped(s, q, n - 1)
  <2>1. IsFiniteSet(D \ {k}) /\ Cardinality(D \ {k}) = n - 1
    BY FS_RemoveElement DEF Sound, Mapped
  <2>2. q \in [D \ {k} -> 1 .. Len(s)]
    BY <1>2 DEF Sound, Mapped
  <2> HIDE DEF q
  <2> QED BY <1>1, <2>1, <2>2 DEF Sound, Mapped
<1>4. Listed(s, q, r)
  <2>1. w \in Seq(EntryRecord)
    BY DEF Sound, Listed
  <2>2. r \in Seq(EntryRecord)
    BY <2>1, RestFacts
  <2>3. PICK f : /\ \A i \in 1 .. Len(r) : f[i] \in 1 .. Len(w) /\ r[i] = w[f[i]] /\ w[f[i]].key # k
                 /\ \A i, j \in 1 .. Len(r) : i < j => f[i] < f[j]
                 /\ \A j \in 1 .. Len(w) : w[j].key # k => \E i \in 1 .. Len(r) : f[i] = j
    BY <2>1, RestFacts
  <2> HIDE DEF q, r
  <2>4. ASSUME NEW i \in 1 .. Len(r) PROVE r[i].key \in D \ {k} /\ r[i] = s[q[r[i].key]] /\ q[r[i].key] = m[w[f[i]].key]
    <3>1. f[i] \in 1 .. Len(w) /\ r[i] = w[f[i]] /\ r[i].key # k
      BY <2>3
    <3>2. w[f[i]].key \in D /\ w[f[i]] = s[m[w[f[i]].key]]
      BY <3>1 DEF Sound, Listed
    <3> QED BY <1>1, <3>1, <3>2
  <2>5. ASSUME NEW i \in 1 .. Len(r), NEW j \in 1 .. Len(r), i < j PROVE q[r[i].key] < q[r[j].key]
    <3>1. m[w[f[i]].key] < m[w[f[j]].key]
      BY <2>3, <2>5 DEF Sound, Listed
    <3> QED BY <2>4, <3>1
  <2>6. ASSUME NEW l \in D \ {k} PROVE \E i \in 1 .. Len(r) : r[i].key = l
    <3>1. PICK j \in 1 .. Len(w) : w[j].key = l
      BY DEF Sound, Listed
    <3> QED BY <2>3, <3>1
  <2> QED BY <1>1, <2>2, <2>4, <2>5, <2>6 DEF Listed
<1> QED BY <1>3, <1>4 DEF Sound

LEMMA SetSound ==
  ASSUME NEW s, NEW m, NEW n, NEW w, NEW k \in HKey, NEW v \in HValue, Sound(s, m, n, w)
  PROVE  Sound(Append(s, [key |-> k, value |-> v]), creme_ht_idx_insert(m, k, Len(s) + 1),
               IF k \in DOMAIN m THEN n ELSE n + 1, Append(Rest(w, k), [key |-> k, value |-> v]))
<1> DEFINE D == DOMAIN m
           e == [key |-> k, value |-> v]
           a == Append(s, e)
           N == Len(s) + 1
           q == creme_ht_idx_insert(m, k, N)
           r == Rest(w, k)
           b == Append(r, e)
           c == IF k \in D THEN n ELSE n + 1
<1>1. e \in EntryRecord /\ e.key = k
  BY DEF EntryRecord
<1>2. /\ DOMAIN q = D \cup {k} /\ q[k] = N /\ \A l \in D \ {k} : q[l] = m[l]
      /\ q = [l \in D \cup {k} |-> q[l]]
  BY DEF creme_ht_idx_insert
<1>3. /\ s \in Seq(EntryRecord) /\ w \in Seq(EntryRecord) /\ Len(s) \in Nat /\ n \in Nat
      /\ IsFiniteSet(D) /\ Cardinality(D) = n /\ D \subseteq HKey
      /\ \A l \in D : m[l] \in 1 .. Len(s) /\ s[m[l]].key = l
  BY SlotFacts DEF Sound, Mapped, Listed
<1> HIDE DEF e
<1>4. /\ a \in Seq(EntryRecord) /\ Len(a) = N /\ a[N] = e
      /\ \A i \in 1 .. Len(s) : a[i] = s[i]
  BY <1>1, <1>3, AppendProperties
<1>5. r \in Seq(EntryRecord)
  BY <1>3, RestFacts
<1>6. PICK f : /\ \A i \in 1 .. Len(r) : f[i] \in 1 .. Len(w) /\ r[i] = w[f[i]] /\ w[f[i]].key # k
               /\ \A i, j \in 1 .. Len(r) : i < j => f[i] < f[j]
               /\ \A j \in 1 .. Len(w) : w[j].key # k => \E i \in 1 .. Len(r) : f[i] = j
  BY <1>3, RestFacts
<1> HIDE DEF r
<1>7. /\ b \in Seq(EntryRecord) /\ Len(b) = Len(r) + 1 /\ b[Len(r) + 1] = e /\ Len(r) \in Nat
      /\ \A i \in 1 .. Len(r) : b[i] = r[i]
  BY <1>1, <1>5, AppendProperties, LenProperties
<1> HIDE DEF q, a, b
<1>8. Mapped(a, q, c)
  <2>1. IsFiniteSet(D \cup {k}) /\ Cardinality(D \cup {k}) = c
    BY <1>3, FS_AddElement
  <2>2. \A l \in D \cup {k} : q[l] \in 1 .. N /\ a[q[l]].key = l
    <3>1. ASSUME NEW l \in D \ {k} PROVE q[l] \in 1 .. N /\ a[q[l]].key = l
      BY <1>2, <1>3, <1>4
    <3>2. q[k] \in 1 .. N /\ a[q[k]].key = k
      BY <1>1, <1>2, <1>3, <1>4
    <3> QED BY <3>1, <3>2
  <2>3. q \in [D \cup {k} -> 1 .. N]
    BY <1>2, <2>2
  <2> HIDE DEF c, N
  <2> QED BY <1>2, <1>3, <1>4, <2>1, <2>2, <2>3 DEF Mapped
<1>9. Listed(a, q, b)
  <2>1. ASSUME NEW i \in 1 .. Len(r)
        PROVE  b[i].key \in D \ {k} /\ b[i] = a[q[b[i].key]] /\ q[b[i].key] = m[w[f[i]].key] /\ q[b[i].key] \in 1 .. Len(s)
    <3>1. b[i] = w[f[i]] /\ f[i] \in 1 .. Len(w) /\ w[f[i]].key # k
      BY <1>6, <1>7
    <3>2. b[i].key \in D \ {k} /\ b[i] = s[m[b[i].key]]
      BY <3>1 DEF Sound, Listed
    <3> QED BY <1>2, <1>3, <1>4, <3>1, <3>2
  <2>2. b[Len(r) + 1].key = k /\ a[q[k]] = e /\ q[k] = N
    BY <1>1, <1>2, <1>4, <1>7
  <2>3. \A i \in 1 .. Len(b) : i \in 1 .. Len(r) \/ i = Len(r) + 1
    BY <1>7
  <2>4. ASSUME NEW i \in 1 .. Len(b) PROVE b[i].key \in D \cup {k} /\ b[i] = a[q[b[i].key]]
    BY <1>7, <2>1, <2>2, <2>3
  <2>5. ASSUME NEW i \in 1 .. Len(b), NEW j \in 1 .. Len(b), i < j PROVE q[b[i].key] < q[b[j].key]
    <3>1. i \in 1 .. Len(r)
      BY <1>7, <2>5
    <3>2. CASE j \in 1 .. Len(r)
      <4>1. m[w[f[i]].key] < m[w[f[j]].key]
        BY <1>6, <2>5, <3>1, <3>2 DEF Sound, Listed
      <4> QED BY <2>1, <3>1, <3>2, <4>1
    <3>3. CASE j = Len(r) + 1
      BY <1>3, <2>1, <2>2, <3>1, <3>3
    <3> QED BY <2>3, <3>2, <3>3
  <2>6. ASSUME NEW l \in D \cup {k} PROVE \E i \in 1 .. Len(b) : b[i].key = l
    <3>1. CASE l = k
      <4>1. Len(r) + 1 \in 1 .. Len(b)
        BY <1>7
      <4> QED BY <2>2, <3>1, <4>1
    <3>2. CASE l # k
      <4>1. PICK j \in 1 .. Len(w) : w[j].key = l
        BY <3>2 DEF Sound, Listed
      <4>2. PICK i \in 1 .. Len(r) : f[i] = j
        BY <1>6, <3>2, <4>1
      <4>3. i \in 1 .. Len(b) /\ b[i].key = l
        BY <1>6, <1>7, <4>1, <4>2
      <4> QED BY <4>3
    <3> QED BY <3>1, <3>2
  <2> QED BY <1>2, <1>7, <2>4, <2>5, <2>6 DEF Listed
<1> QED BY <1>8, <1>9 DEF Sound, a, q, b, r, e

InProportion(s, n) == Len(s) <= COMPACT_MIN \/ Len(s) <= 2 * n + 1

TableInv == Sound(slots, index, nLive, written) /\ InProportion(slots, nLive)

\* After ht_maybe_compact there is room for one more slot in proportion.
LEMMA MaybeCompactSound ==
  ASSUME NEW s, NEW m, NEW n, NEW w, Sound(s, m, n, w)
  PROVE  \E s2, m2 : /\ ht_maybe_compact(Table(s, m, n)) = Table(s2, m2, n)
                     /\ Sound(s2, m2, n, w)
                     /\ Len(s2) < COMPACT_MIN \/ Len(s2) <= 2 * n
<1> DEFINE t == Table(s, m, n)
<1>1. n \in Nat /\ Len(s) \in Nat
  BY SlotFacts DEF Sound
<1>2. t.slots = s /\ t.live = n
  BY DEF Table
<1>3. CASE Len(s) >= COMPACT_MIN /\ Len(s) >= 2 * n
  <2>1. ht_maybe_compact(t) = ht_compact(t)
    BY <1>2, <1>3 DEF ht_maybe_compact
  <2>2. PICK s2, m2 : ht_compact(t) = Table(s2, m2, n) /\ Sound(s2, m2, n, w) /\ Len(s2) = n
    BY CompactSound
  <2>3. Len(s2) <= 2 * n
    BY <1>1, <2>2
  <2> QED BY <2>1, <2>2, <2>3
<1>4. CASE ~ (Len(s) >= COMPACT_MIN /\ Len(s) >= 2 * n)
  <2>1. ht_maybe_compact(t) = Table(s, m, n)
    BY <1>2, <1>4 DEF ht_maybe_compact
  <2>2. Len(s) < COMPACT_MIN \/ Len(s) <= 2 * n
    BY <1>1, <1>4, TableAssumption
  <2> QED BY <2>1, <2>2
<1> QED BY <1>3, <1>4

LEMMA GetFacts ==
  ASSUME NEW s, NEW m, NEW n, Mapped(s, m, n), NEW k
  PROVE  creme_ht_idx_get(m, k) # 0 <=> k \in DOMAIN m
  BY SlotFacts DEF creme_ht_idx_get

LEMMA TableStart == TableInit => TableInv
<1> SUFFICES ASSUME TableInit PROVE TableInv
  OBVIOUS
<1>1. slots = <<>> /\ index = <<>> /\ nLive = 0 /\ written = <<>>
  BY DEF TableInit, bi_make_hash_table
<1>2. DOMAIN index = {} /\ Len(slots) = 0 /\ Len(written) = 0
  BY <1>1
<1>3. IsFiniteSet({}) /\ Cardinality({}) = 0
  BY FS_EmptySet
<1>4. index \in [{} -> 1 .. Len(slots)]
  BY <1>1, <1>2
<1>5. Mapped(slots, index, nLive)
  BY <1>1, <1>2, <1>3, <1>4 DEF Mapped
<1>6. Listed(slots, index, written)
  BY <1>1, <1>2 DEF Listed
<1> QED BY <1>2, <1>5, <1>6, TableAssumption DEF TableInv, Sound, InProportion

LEMMA TableStep == TableInv /\ [TableNext]_tableVars => TableInv'
<1> SUFFICES ASSUME TableInv, [TableNext]_tableVars PROVE TableInv'
  OBVIOUS
<1>1. Sound(slots, index, nLive, written)
  BY DEF TableInv
<1>2. ASSUME NEW k \in HKey, bi_hash_table_delete(k) PROVE TableInv'
  <2>1. k \in DOMAIN index
    BY <1>1, <1>2, GetFacts DEF Sound, bi_hash_table_delete
  <2> DEFINE q == creme_ht_idx_erase(index, k)
  <2>2. Sound(slots, q, nLive - 1, Rest(written, k))
    BY <1>1, <2>1, EraseSound
  <2>3. PICK s2, m2 : /\ ht_maybe_compact(Table(slots, q, nLive - 1)) = Table(s2, m2, nLive - 1)
                      /\ Sound(s2, m2, nLive - 1, Rest(written, k))
                      /\ Len(s2) < COMPACT_MIN \/ Len(s2) <= 2 * (nLive - 1)
    <3> HIDE DEF q
    <3> QED BY <2>2, MaybeCompactSound
  <2>4. slots' = s2 /\ index' = m2 /\ nLive' = nLive - 1 /\ written' = Rest(written, k)
    BY <1>2, <2>3 DEF bi_hash_table_delete, Become, Table, Without, Rest
  <2>5. nLive - 1 \in Nat /\ Len(s2) \in Nat
    BY <2>3, SlotFacts DEF Sound
  <2>6. InProportion(s2, nLive - 1)
    BY <2>3, <2>5, TableAssumption DEF InProportion
  <2> QED BY <2>3, <2>4, <2>6 DEF TableInv
<1>3. ASSUME NEW k \in HKey, NEW v \in HValue, bi_hash_table_set(k, v) PROVE TableInv'
  <2>1. PICK s2, m2 : /\ ht_maybe_compact(Now) = Table(s2, m2, nLive)
                      /\ Sound(s2, m2, nLive, written)
                      /\ Len(s2) < COMPACT_MIN \/ Len(s2) <= 2 * nLive
    BY <1>1, MaybeCompactSound DEF Now
  <2> DEFINE e == [key |-> k, value |-> v]
             c == IF k \in DOMAIN m2 THEN nLive ELSE nLive + 1
  <2>2. creme_ht_idx_get(m2, k) # 0 <=> k \in DOMAIN m2
    BY <2>1, GetFacts DEF Sound
  <2>3. /\ slots' = Append(s2, e) /\ index' = creme_ht_idx_insert(m2, k, Len(s2) + 1)
        /\ nLive' = c /\ written' = Append(Rest(written, k), e)
    BY <1>3, <2>1, <2>2 DEF bi_hash_table_set, Become, Table, Without, Rest
  <2>4. Sound(slots', index', nLive', written')
    BY <2>1, <2>3, SetSound
  <2>5. nLive \in Nat /\ Len(s2) \in Nat /\ s2 \in Seq(EntryRecord)
    BY <2>1, SlotFacts DEF Sound, Mapped
  <2>6. Len(slots') = Len(s2) + 1
    BY <2>3, <2>5, AppendProperties DEF EntryRecord
  <2>7. InProportion(slots', nLive')
    BY <2>1, <2>3, <2>5, <2>6, TableAssumption DEF InProportion
  <2> QED BY <2>4, <2>7 DEF TableInv
<1>4. CASE UNCHANGED tableVars
  BY <1>4 DEF tableVars, TableInv, Sound, Mapped, Listed, InProportion
<1> QED BY <1>2, <1>3, <1>4 DEF TableNext

LEMMA TableMeans == TableInv => TableIsMap
<1> SUFFICES ASSUME TableInv PROVE TableIsMap
  OBVIOUS
<1>1. Mapped(slots, index, nLive) /\ Listed(slots, index, written)
  BY DEF TableInv, Sound
<1>2. collect_live(Now) = written
  BY CollectsList DEF TableInv, Now
<1>3. DOMAIN written = 1 .. Len(written)
  BY <1>1, LenProperties DEF Listed
<1>4. ASSUME NEW k \in HKey
      PROVE  /\ bi_hash_table_contains_p(k) <=> \E i \in DOMAIN written : written[i].key = k
             /\ bi_hash_table_ref(k, "none")
                  = IF \E i \in DOMAIN written : written[i].key = k
                    THEN written[CHOOSE i \in DOMAIN written : written[i].key = k].value
                    ELSE "none"
  <2>1. CASE k \in DOMAIN index
    <3>1. \E i \in DOMAIN written : written[i].key = k
      BY <1>1, <1>3, <2>1 DEF Listed
    <3> DEFINE j == CHOOSE i \in DOMAIN written : written[i].key = k
    <3>2. j \in DOMAIN written /\ written[j].key = k
      BY <3>1
    <3> HIDE DEF j
    <3>3. written[j] = slots[index[k]]
      BY <1>1, <1>3, <3>2 DEF Listed
    <3>4. hash_table_lookup(k) = <<slots[index[k]].value>>
      BY <1>1, <2>1, SlotFacts DEF hash_table_lookup, creme_ht_idx_get
    <3>5. hash_table_lookup(k) # <<>> /\ hash_table_lookup(k)[1] = written[j].value
      BY <3>3, <3>4
    <3> QED BY <3>1, <3>5 DEF bi_hash_table_contains_p, bi_hash_table_ref, j
  <2>2. CASE k \notin DOMAIN index
    <3>1. ~ \E i \in DOMAIN written : written[i].key = k
      BY <1>1, <1>3, <2>2 DEF Listed
    <3>2. hash_table_lookup(k) = <<>>
      BY <2>2 DEF hash_table_lookup, creme_ht_idx_get
    <3> QED BY <3>1, <3>2 DEF bi_hash_table_contains_p, bi_hash_table_ref
  <2> QED BY <2>1, <2>2
<1>5. TableIsOrderedMap
  BY <1>2, <1>4 DEF TableIsOrderedMap, bi_hash_table_to_alist, bi_hash_table_keys, bi_hash_table_values
<1>6. SlotsBounded
  BY <1>1 DEF TableInv, InProportion, SlotsBounded, Mapped
<1> QED BY <1>5, <1>6 DEF TableIsMap

\* For any keys, values and compaction limit, and any sequence of writes,
\* overwrites and deletions: hashtable.c's map and side arrays are one map in
\* the order of the last writes, whatever was compacted in between; the count
\* that ht_compact allocates by is exact; and the arrays stay in proportion.
THEOREM TablesAreMaps == TableSpec => []TableIsMap
  BY TableStart, TableStep, TableMeans, PTL DEF TableSpec

(***************************************************************************)
(* Connections between nodes.                                              *)
(***************************************************************************)
TransportSpec == TransportInit /\ [][TransportNext]_transportVars

Letter(s) == Hello(s, hmac_sha256(OwnCookie, <<s>>))
Answer(s) == Hello(-s, hmac_sha256(OwnCookie, <<s, -s>>))

\* What may be under way from a client, and back.
Item == {Letter(s) : s \in Nat} \cup {Piece(k, x, p) : k \in {"header", "body"}, x \in Nat, p \in TPeer}
Reply == {Answer(s) : s \in Nat}

ThreadRecord ==
  [pc : {"resting", "find", "dial", "handshake", "recheck", "lock", "header", "body", "evict"},
   msg : Nat, peer : TPeer \cup {Resting.peer}, con : Nat, fd : Nat, failed : BOOLEAN]

ConRecord == [key : TPeer, fd : {-1} \cup 1 .. MaxSockets, mutex : {0} \cup Thread]

SocketRecord ==
  [peer : TPeer, out : Seq(Item), back : Seq(Reply), client : BOOLEAN,
   server : {"pending", "greeting", "reading", "closed"}, cut : BOOLEAN]

PeerRecord == [state : {"none", "listening", "failed", "closing", "stopped"}, cookie : Cookie]

Con == 1 .. Len(cons)
Sock == 1 .. Len(socks)
Fd == 1 .. MaxSockets

\* Types; a thread that does something does it for a peer.
TransportType ==
  /\ th \in [Thread -> ThreadRecord]
  /\ \A t \in Thread : th[t].pc # "resting" => th[t].peer \in TPeer
  /\ sys \in [connections : Seq(Nat), mutex : {0, 1}, todo : Seq(Nat), stopped : BOOLEAN]
  /\ cons \in Seq(ConRecord)
  /\ fds \in [Fd -> Nat]
  /\ socks \in Seq(SocketRecord)
  /\ peers \in [TPeer -> PeerRecord]
  /\ g_inbound_count \in Nat
  /\ got \in [TPeer -> Seq(Item \X Item)]
  /\ sends \in [n : Nat, cuts : Nat]

\* No two descriptors are of one socket.
FdsOK ==
  /\ \A f \in Fd : fds[f] <= Len(socks)
  /\ \A f, g \in Fd : fds[f] # 0 /\ fds[f] = fds[g] => f = g

Dialling(t) == th[t].pc \in {"handshake", "recheck"}
Dialled(t) == socks[fds[th[t].fd]]

\* A thread that dials has a descriptor of its own, of a socket to its peer
\* over which no frame has gone.
DialOK ==
  /\ \A t \in Thread : Dialling(t) =>
       /\ th[t].fd \in Fd /\ fds[th[t].fd] # 0
       /\ Dialled(t).peer = th[t].peer
       /\ Dialled(t).server = "reading" => Dialled(t).out = <<>>
       /\ th[t].pc = "recheck" => Dialled(t).back # <<>>
  /\ \A t, u \in Thread : Dialling(t) /\ Dialling(u) /\ th[t].fd = th[u].fd => t = u
  /\ \A t \in Thread, c \in Con : Dialling(t) => th[t].fd # cons[c].fd

Open(c) == cons[c].fd # -1
Line(c) == socks[fds[cons[c].fd]]

\* An open connection has a descriptor of its own, of a socket to its peer
\* that has answered.
ConsOK ==
  /\ \A c \in Con : Open(c) => fds[cons[c].fd] # 0 /\ Line(c).peer = cons[c].key /\ Line(c).back # <<>>
  /\ \A c, d \in Con : Open(c) /\ cons[c].fd = cons[d].fd => c = d

\* Who is about to use a connection uses that of its peer, and who writes
\* holds its mutex.
LockOK ==
  \A t \in Thread :
    /\ th[t].pc \in {"lock", "header", "body", "evict"} => th[t].con \in Con /\ cons[th[t].con].key = th[t].peer
    /\ th[t].pc \in {"header", "body"} => cons[th[t].con].mutex = t

\* Headers and bodies in turn, all for p, each body that of its header.
Framed(out, p) ==
  \A k \in 1 .. Len(out) :
    /\ out[k].to = p
    /\ out[k].kind = (IF k % 2 = 1 THEN "header" ELSE "body")
    /\ k % 2 = 0 => out[k].msg = out[k - 1].msg

\* Before the handshake only a letter is under way, afterwards only frames,
\* and only to a node with the cookie.
SocketsOK ==
  \A s \in Sock :
    /\ peers[socks[s].peer].state # "none"
    /\ socks[s].server \in {"pending", "greeting"} => socks[s].out = <<Letter(s)>> /\ socks[s].back = <<>>
    /\ socks[s].server = "reading" =>
         Framed(socks[s].out, socks[s].peer) /\ peers[socks[s].peer].cookie = OwnCookie

Writing(t, c) == th[t].pc = "body" /\ th[t].con = c

\* The last frame on an open connection lacks its body while its writer is
\* between the two writes, and only then.
HalfFrames ==
  \A c \in Con : Open(c) /\ Line(c).server = "reading" =>
    /\ (\A t \in Thread : ~ Writing(t, c)) => Len(Line(c).out) % 2 = 0
    /\ \A t \in Thread : Writing(t, c) =>
         Len(Line(c).out) % 2 = 1 /\ Line(c).out[Len(Line(c).out)].msg = th[t].msg

Arrived ==
  FramesArriveWhole /\ \A p \in TPeer : got[p] # <<>> => peers[p].state # "none" /\ peers[p].cookie = OwnCookie

\* The cache has one connection per peer, and a closed one only while
\* somebody is about to take it out.
CacheOK ==
  /\ \A i \in DOMAIN sys.connections : sys.connections[i] \in Con
  /\ \A i \in DOMAIN sys.todo : sys.todo[i] \in Con
  /\ \A i, j \in DOMAIN sys.connections : i # j => cons[sys.connections[i]].key # cons[sys.connections[j]].key
  /\ \A i \in DOMAIN sys.connections :
       Open(sys.connections[i]) \/ sys.mutex = 1
         \/ \E t \in Thread : th[t].pc = "evict" /\ th[t].con = sys.connections[i]

TransportInv ==
  TransportType /\ FdsOK /\ DialOK /\ ConsOK /\ LockOK /\ SocketsOK /\ HalfFrames /\ Arrived /\ InboundCounted /\ CacheOK

\* At first nobody sends, and nothing is open.
LEMMA TransportStart == TransportInit => TransportInv
<1> SUFFICES ASSUME TransportInit PROVE TransportInv
  OBVIOUS
<1> USE TransportAssumption DEF TransportInit
<1>1. TransportType
  <2>1. Resting \in ThreadRecord /\ Resting.pc = "resting"
    BY DEF Resting, ThreadRecord
  <2>2. th \in [Thread -> ThreadRecord] /\ \A t \in Thread : th[t].pc = "resting"
    BY <2>1
  <2>3. \A S : <<>> \in Seq(S)
    BY EmptySeq
  <2>4. peers \in [TPeer -> PeerRecord]
    BY DEF PeerRecord
  <2>5. sys \in [connections : Seq(Nat), mutex : {0, 1}, todo : Seq(Nat), stopped : BOOLEAN]
    BY <2>3
  <2>6. sends \in [n : Nat, cuts : Nat]
    OBVIOUS
  <2>7. cons \in Seq(ConRecord) /\ socks \in Seq(SocketRecord) /\ got \in [TPeer -> Seq(Item \X Item)]
    BY <2>3
  <2> QED BY <2>2, <2>4, <2>5, <2>6, <2>7 DEF TransportType, Fd
<1>2. Con = {} /\ Sock = {} /\ DOMAIN <<>> = {}
  BY DEF Con, Sock
<1>3. \A t \in Thread : th[t].pc = "resting"
  BY DEF Resting
<1>4. FdsOK
  BY DEF FdsOK, Fd
<1>5. DialOK /\ ConsOK /\ LockOK /\ SocketsOK /\ HalfFrames
  BY <1>2, <1>3 DEF DialOK, Dialling, ConsOK, LockOK, SocketsOK, HalfFrames
<1>6. Arrived
  BY DEF Arrived, FramesArriveWhole
<1>7. InboundCounted
  <2>1. {s \in DOMAIN socks : socks[s].server \in {"greeting", "reading"}} = {}
    BY <1>2
  <2>2. Cardinality({}) = 0
    BY FS_EmptySet
  <2> QED BY <2>1, <2>2 DEF InboundCounted
<1>8. CacheOK
  <2>1. sys.connections = <<>> /\ sys.todo = <<>>
    OBVIOUS
  <2> QED BY <1>2, <2>1 DEF CacheOK
<1> QED BY <1>1, <1>4, <1>5, <1>6, <1>7, <1>8 DEF TransportInv

-----------------------------------------------------------------------------
(* Sockets and frames                                                      *)

\* A sequence and its positions.
LEMMA SeqDomain ==
  ASSUME NEW S, NEW q \in Seq(S)
  PROVE  DOMAIN q = 1 .. Len(q) /\ Len(q) \in Nat /\ \A i \in 1 .. Len(q) : q[i] \in S
  BY LenProperties, ElementOfSeq

\* Once a whole frame has been read, what follows begins with a header.
LEMMA FramedRest ==
  ASSUME NEW p, NEW out \in Seq(Item), Framed(out, p), Len(out) >= 2
  PROVE  LET rest == SubSeq(out, 3, Len(out)) IN
         /\ rest \in Seq(Item) /\ Framed(rest, p)
         /\ Len(rest) = Len(out) - 2
         /\ Len(rest) # 0 => rest[Len(rest)] = out[Len(out)]
<1> DEFINE rest == SubSeq(out, 3, Len(out))
           n == Len(out)
<1>1. n \in Nat /\ \A i \in 1 .. n : out[i] \in Item
  BY SeqDomain
<1>2. \A i \in 3 .. n : out[i] \in Item
  BY <1>1
<1>3. rest \in Seq(Item) /\ Len(rest) = n - 2 /\ \A i \in 1 .. n - 2 : rest[i] = out[i + 2]
  <2>1. /\ rest \in Seq(Item)
        /\ Len(rest) = (IF 3 <= n THEN n - 3 + 1 ELSE 0)
        /\ \A i \in 1 .. n - 3 + 1 : rest[i] = out[3 + i - 1]
    <3> HIDE DEF n
    <3> QED BY <1>1, <1>2, SubSeqProperties DEF n
  <2> HIDE DEF rest, n
  <2>2. Len(rest) = n - 2 /\ n - 3 + 1 = n - 2
    <3>1. n \in Nat /\ n >= 2
      BY <1>1 DEF n
    <3>2. CASE 3 <= n
      BY <2>1, <3>1, <3>2
    <3>3. CASE n = 2
      BY <2>1, <3>1, <3>3
    <3> QED BY <3>1, <3>2, <3>3
  <2>3. \A i \in 1 .. n - 2 : 3 + i - 1 = i + 2
    OBVIOUS
  <2> QED BY <2>1, <2>2, <2>3
<1> HIDE DEF rest, n
<1>4. ASSUME NEW k \in 1 .. n - 2
      PROVE  /\ rest[k].to = p
             /\ rest[k].kind = (IF k % 2 = 1 THEN "header" ELSE "body")
             /\ k % 2 = 0 => rest[k].msg = rest[k - 1].msg
  <2>1. k + 2 \in 1 .. n /\ (k + 2) % 2 = k % 2 /\ (k + 2) - 1 = k + 1
    BY <1>1
  <2>2. /\ out[k + 2].to = p
        /\ out[k + 2].kind = (IF (k + 2) % 2 = 1 THEN "header" ELSE "body")
        /\ (k + 2) % 2 = 0 => out[k + 2].msg = out[k + 1].msg
    BY <2>1 DEF Framed, n
  <2>3. k % 2 = 0 => k - 1 \in 1 .. n - 2 /\ (k - 1) + 2 = k + 1
    BY <1>1
  <2> QED BY <1>3, <2>1, <2>2, <2>3
<1>5. Len(rest) # 0 => rest[Len(rest)] = out[n]
  BY <1>1, <1>3
<1> QED BY <1>3, <1>4, <1>5 DEF Framed, rest, n

\* The next half of a frame.
LEMMA FramedAppend ==
  ASSUME NEW p \in TPeer, NEW out \in Seq(Item), Framed(out, p), NEW kind \in {"header", "body"}, NEW x \in Nat,
         kind = "header" => Len(out) % 2 = 0,
         kind = "body" => Len(out) % 2 = 1 /\ out[Len(out)].msg = x
  PROVE  LET more == Append(out, Piece(kind, x, p)) IN
         /\ more \in Seq(Item) /\ Framed(more, p) /\ Len(more) = Len(out) + 1
         /\ more[Len(more)].msg = x
<1> DEFINE piece == Piece(kind, x, p)
           more == Append(out, piece)
           n == Len(out)
<1>1. n \in Nat
  BY SeqDomain
<1>2. piece \in Item /\ piece.to = p /\ piece.kind = kind /\ piece.msg = x
  BY DEF Item, Piece
<1> HIDE DEF piece
<1>3. /\ more \in Seq(Item) /\ Len(more) = n + 1
      /\ \A i \in 1 .. n : more[i] = out[i]
      /\ more[n + 1] = piece
  BY <1>2, AppendProperties
<1> HIDE DEF more, n
<1>4. ASSUME NEW k \in 1 .. n + 1
      PROVE  /\ more[k].to = p
             /\ more[k].kind = (IF k % 2 = 1 THEN "header" ELSE "body")
             /\ k % 2 = 0 => more[k].msg = more[k - 1].msg
  <2>1. CASE k = n + 1
    <3>1. kind = "header" => k % 2 = 1
      BY <1>1, <2>1 DEF n
    <3>2. kind = "body" => k % 2 = 0 /\ k - 1 = n /\ k - 1 \in 1 .. n /\ out[n].msg = x
      BY <1>1, <2>1 DEF n
    <3> QED BY <1>2, <1>3, <2>1, <3>1, <3>2
  <2>2. CASE k # n + 1
    <3>1. k \in 1 .. n /\ (k % 2 = 0 => k - 1 \in 1 .. n)
      BY <1>1, <2>2
    <3>2. /\ out[k].to = p
          /\ out[k].kind = (IF k % 2 = 1 THEN "header" ELSE "body")
          /\ k % 2 = 0 => out[k].msg = out[k - 1].msg
      BY <3>1 DEF Framed, n
    <3> QED BY <1>3, <3>1, <3>2
  <2> QED BY <2>1, <2>2
<1> QED BY <1>2, <1>3, <1>4 DEF Framed, more, n, piece

\* A set of numbers up to n has at most n elements.
LEMMA FirstNumbers ==
  ASSUME NEW n \in Nat
  PROVE  IsFiniteSet(1 .. n) /\ Cardinality(1 .. n) = n
<1>1. IsFiniteSet(1 .. n) /\ Cardinality(1 .. n) = IF 1 > n THEN 0 ELSE n - 1 + 1
  BY FS_Interval
<1> QED BY <1>1

\* There is a free descriptor whenever another socket can be made.
LEMMA FreeFdFacts ==
  ASSUME TransportType, FdsOK, Len(socks) < MaxSockets
  PROVE  FreeFd \in Fd /\ fds[FreeFd] = 0
<1> USE TransportAssumption
<1>0. fds \in [Fd -> Nat] /\ Len(socks) \in Nat /\ MaxSockets \in Nat
  BY SeqDomain DEF TransportType
<1>1. \E f \in Fd : fds[f] = 0
  <2> SUFFICES ASSUME \A f \in Fd : fds[f] # 0 PROVE FALSE
    OBVIOUS
  <2>1. fds \in [Fd -> 1 .. Len(socks)]
    <3>1. \A f \in Fd : fds[f] \in 1 .. Len(socks)
      BY <1>0 DEF FdsOK
    <3> QED BY <1>0, <3>1
  <2>2. IsFiniteSet(Fd) /\ Cardinality(Fd) = MaxSockets
    BY <1>0, FS_Interval DEF Fd
  <2>3. IsFiniteSet(1 .. Len(socks)) /\ Cardinality(1 .. Len(socks)) = Len(socks)
    BY <1>0, FirstNumbers
  <2>4. PICK f, g \in Fd : f # g /\ fds[f] = fds[g]
    BY <2>1, <2>2, <2>3, FS_PigeonHole
  <2> QED BY <2>4 DEF FdsOK
<1> DEFINE M == {f \in Fd : fds[f] = 0}
<1>2. PICK f \in M : \A g \in M : f <= g
  <2>1. M \subseteq Nat
    BY DEF Fd
  <2>0. M # {}
    BY <1>1
  <2> HIDE DEF M
  <2> QED BY <2>0, <2>1, Least
<1>3. f \in Fd /\ fds[f] = 0 /\ \A g \in 1 .. (f - 1) : fds[g] # 0
  <2>1. \A g \in 1 .. (f - 1) : g \in Fd /\ ~ (f <= g)
    BY <1>0 DEF Fd
  <2> QED BY <1>2, <2>1
<1>4. \E h \in 1 .. MaxSockets : fds[h] = 0 /\ \A g \in 1 .. (h - 1) : fds[g] # 0
  BY <1>3 DEF Fd
<1> QED BY <1>4 DEF FreeFd, Fd

-----------------------------------------------------------------------------
(* What the other nodes and the network do                                 *)

Inbounds == {s \in DOMAIN socks : socks[s].server \in {"greeting", "reading"}}

\* There are as many inbound threads as sockets at most.
LEMMA InboundsFinite ==
  ASSUME TransportType
  PROVE  IsFiniteSet(Inbounds) /\ Cardinality(Inbounds) \in Nat /\ Inbounds \subseteq Sock
<1>1. socks \in Seq(SocketRecord)
  BY DEF TransportType
<1>2. DOMAIN socks = Sock /\ Len(socks) \in Nat
  BY <1>1, SeqDomain DEF Sock
<1>3. IsFiniteSet(Sock)
  BY <1>2, FirstNumbers DEF Sock
<1>4. Inbounds \subseteq Sock
  BY <1>2 DEF Inbounds
<1> QED BY <1>3, <1>4, FS_Subset, FS_CardinalityType

\* One more inbound thread, one less, or the same ones.
LEMMA Recounted ==
  ASSUME TransportType, InboundCounted,
         \/ Inbounds' = Inbounds /\ g_inbound_count' = g_inbound_count
         \/ /\ g_inbound_count' = g_inbound_count + 1 /\ g_inbound_count + 1 <= MAX_INBOUND
            /\ \E s : s \notin Inbounds /\ Inbounds' = Inbounds \cup {s}
         \/ /\ g_inbound_count' = g_inbound_count - 1
            /\ \E s : s \in Inbounds /\ Inbounds' = Inbounds \ {s}
  PROVE  InboundCounted' /\ g_inbound_count' \in Nat
<1>1. /\ g_inbound_count = Cardinality(Inbounds) /\ g_inbound_count <= MAX_INBOUND /\ g_inbound_count \in Nat
      /\ IsFiniteSet(Inbounds) /\ MAX_INBOUND \in Nat
  BY InboundsFinite, TransportAssumption DEF InboundCounted, Inbounds, TransportType
<1>2. g_inbound_count' = Cardinality(Inbounds') /\ g_inbound_count' <= MAX_INBOUND /\ g_inbound_count' \in Nat
  <2>1. CASE Inbounds' = Inbounds /\ g_inbound_count' = g_inbound_count
    BY <1>1, <2>1
  <2>2. CASE /\ g_inbound_count' = g_inbound_count + 1 /\ g_inbound_count + 1 <= MAX_INBOUND
             /\ \E s : s \notin Inbounds /\ Inbounds' = Inbounds \cup {s}
    <3>1. Cardinality(Inbounds') = Cardinality(Inbounds) + 1
      BY <1>1, <2>2, FS_AddElement
    <3> QED BY <1>1, <2>2, <3>1
  <2>3. CASE /\ g_inbound_count' = g_inbound_count - 1
             /\ \E s : s \in Inbounds /\ Inbounds' = Inbounds \ {s}
    <3>1. PICK s : s \in Inbounds /\ Inbounds' = Inbounds \ {s}
      BY <2>3
    <3>2. Cardinality(Inbounds') = Cardinality(Inbounds) - 1 /\ IsFiniteSet(Inbounds')
      BY <1>1, <3>1, FS_RemoveElement
    <3>3. Cardinality(Inbounds') \in Nat
      BY <3>2, FS_CardinalityType
    <3> QED BY <1>1, <2>3, <3>2, <3>3
  <2> QED BY <2>1, <2>2, <2>3
<1> QED BY <1>2 DEF InboundCounted, Inbounds

\* From the side of the clients, what may happen to sockets.
Served ==
  /\ socks' \in Seq(SocketRecord) /\ Len(socks') = Len(socks)
  /\ \A s \in Sock :
       /\ socks'[s].peer = socks[s].peer
       /\ socks[s].back # <<>> => socks'[s].back # <<>>
       /\ socks'[s].server = "reading" =>
            \/ socks[s].server = "reading" /\ socks'[s].out = socks[s].out
            \/ socks[s].server = "greeting" /\ socks'[s].out = <<>>
            \/ /\ socks[s].server = "reading" /\ Len(socks[s].out) >= 2
               /\ socks'[s].out = SubSeq(socks[s].out, 3, Len(socks[s].out))

\* What the other node does to sockets leaves the client what it relies on.
LEMMA ServedKeeps ==
  ASSUME TransportInv, Served, UNCHANGED <<th, sys, cons, fds>>
  PROVE  FdsOK' /\ DialOK' /\ ConsOK' /\ LockOK' /\ HalfFrames' /\ CacheOK'
<1> USE DEF TransportInv
<1>0. /\ fds \in [Fd -> Nat] /\ Len(socks) \in Nat /\ \A s \in Sock : socks[s] \in SocketRecord
      /\ \A c \in Con : cons[c] \in ConRecord
      /\ \A f \in Fd : fds[f] # 0 => fds[f] \in Sock
  <2>1. socks \in Seq(SocketRecord) /\ fds \in [Fd -> Nat] /\ cons \in Seq(ConRecord)
    BY DEF TransportType
  <2>2. Len(socks) \in Nat /\ \A s \in Sock : socks[s] \in SocketRecord
    BY <2>1, SeqDomain DEF Sock
  <2>3. \A c \in Con : cons[c] \in ConRecord
    BY <2>1, SeqDomain DEF Con
  <2> QED BY <2>1, <2>2, <2>3 DEF FdsOK, Sock
<1>1. FdsOK'
  BY DEF FdsOK, Served, Fd
<1>2. ASSUME NEW t \in Thread, Dialling(t)
      PROVE  /\ fds[th[t].fd] \in Sock
             /\ Dialled(t)'.peer = th[t].peer
             /\ Dialled(t)'.server = "reading" => Dialled(t)'.out = <<>>
             /\ th[t].pc = "recheck" => Dialled(t)'.back # <<>>
  <2>1. /\ th[t].fd \in Fd /\ fds[th[t].fd] # 0
        /\ Dialled(t).peer = th[t].peer
        /\ Dialled(t).server = "reading" => Dialled(t).out = <<>>
        /\ th[t].pc = "recheck" => Dialled(t).back # <<>>
    BY <1>2 DEF DialOK
  <2>2. fds[th[t].fd] \in Sock
    BY <1>0, <2>1
  <2> DEFINE s == fds[th[t].fd]
  <2>3. Dialled(t) = socks[s] /\ Dialled(t)' = socks'[s]
    BY DEF Dialled
  <2>4. socks[s].out = <<>> => ~ (Len(socks[s].out) >= 2)
    BY EmptySeq
  <2> HIDE DEF s
  <2>5. s \in Sock
    BY <2>2 DEF s
  <2> QED BY <2>1, <2>2, <2>3, <2>4, <2>5 DEF Served
<1>3. DialOK'
  BY <1>2 DEF DialOK, Dialling, Con, Fd
<1>4. ASSUME NEW c \in Con, Open(c)
      PROVE  fds[cons[c].fd] \in Sock /\ Line(c)'.peer = Line(c).peer /\ Line(c)'.back # <<>>
  <2>1. fds[cons[c].fd] # 0 /\ Line(c).back # <<>> /\ cons[c].fd \in Fd
    BY <1>0, <1>4 DEF ConsOK, Open, ConRecord, Fd
  <2>2. fds[cons[c].fd] \in Sock
    BY <1>0, <2>1
  <2> QED BY <2>1, <2>2 DEF Served, Line
<1>5. ConsOK'
  BY <1>4 DEF ConsOK, Con, Open
<1>6. LockOK'
  BY DEF LockOK, Con
<1>7. ASSUME NEW c \in Con, Open(c), Line(c)'.server = "reading"
      PROVE  /\ Line(c).server = "reading"
             /\ Len(Line(c)'.out) % 2 = Len(Line(c).out) % 2
             /\ Len(Line(c)'.out) % 2 = 1 => Line(c)'.out[Len(Line(c)'.out)] = Line(c).out[Len(Line(c).out)]
  <2> DEFINE s == fds[cons[c].fd]
  <2>1. s \in Sock /\ Line(c) = socks[s] /\ Line(c)' = socks'[s] /\ socks[s].back # <<>>
    BY <1>4, <1>7 DEF Line, ConsOK
  <2> HIDE DEF s
  <2>2. socks[s].server # "greeting"
    BY <2>1 DEF SocketsOK
  <2>3. socks[s].server = "reading" /\ Framed(socks[s].out, socks[s].peer) /\ socks[s].out \in Seq(Item)
    BY <1>0, <1>7, <2>1, <2>2 DEF Served, SocketsOK, SocketRecord
  <2>4. CASE socks'[s].out = socks[s].out
    BY <2>1, <2>3, <2>4
  <2>5. CASE Len(socks[s].out) >= 2 /\ socks'[s].out = SubSeq(socks[s].out, 3, Len(socks[s].out))
    <3> DEFINE old == socks[s].out
               new == socks'[s].out
    <3>1. /\ new \in Seq(Item) /\ Len(new) = Len(old) - 2
          /\ Len(new) # 0 => new[Len(new)] = old[Len(old)]
      BY <2>3, <2>5, FramedRest
    <3>2. Len(new) \in Nat /\ Len(old) \in Nat
      BY <2>3, <3>1, SeqDomain
    <3> HIDE DEF old, new
    <3>3. Len(new) % 2 = Len(old) % 2 /\ (Len(new) % 2 = 1 => Len(new) # 0)
      BY <3>1, <3>2
    <3> QED BY <2>1, <2>3, <3>1, <3>3 DEF old, new
  <2> QED BY <1>7, <2>1, <2>2, <2>4, <2>5 DEF Served
<1>8. HalfFrames'
  <2> SUFFICES ASSUME NEW c \in Con, Open(c), Line(c)'.server = "reading"
               PROVE  /\ (\A t \in Thread : ~ Writing(t, c)) => Len(Line(c)'.out) % 2 = 0
                      /\ \A t \in Thread : Writing(t, c) =>
                           Len(Line(c)'.out) % 2 = 1 /\ Line(c)'.out[Len(Line(c)'.out)].msg = th[t].msg
    BY DEF HalfFrames, Con, Open, Line, Writing
  <2>1. /\ (\A t \in Thread : ~ Writing(t, c)) => Len(Line(c).out) % 2 = 0
        /\ \A t \in Thread : Writing(t, c) =>
             Len(Line(c).out) % 2 = 1 /\ Line(c).out[Len(Line(c).out)].msg = th[t].msg
    BY <1>7 DEF HalfFrames
  <2> QED BY <1>7, <2>1
<1>9. CacheOK'
  BY DEF CacheOK, Con, Open
<1> QED BY <1>1, <1>3, <1>5, <1>6, <1>8, <1>9

\* Sockets after one of them has changed.
LEMMA OneSocket ==
  ASSUME TransportType, NEW s \in Sock, NEW r \in SocketRecord, socks' = [socks EXCEPT ![s] = r]
  PROVE  /\ socks' \in Seq(SocketRecord) /\ Len(socks') = Len(socks) /\ Sock' = Sock
         /\ socks'[s] = r /\ \A q \in Sock : q # s => socks'[q] = socks[q]
         /\ \A q \in Sock : socks[q] \in SocketRecord
         /\ Inbounds' = IF r.server \in {"greeting", "reading"} THEN Inbounds \cup {s} ELSE Inbounds \ {s}
<1>1. socks \in Seq(SocketRecord)
  BY DEF TransportType
<1>2. /\ socks' \in Seq(SocketRecord) /\ Len(socks') = Len(socks)
      /\ \A q \in Sock : socks'[q] = IF q = s THEN r ELSE socks[q]
  BY <1>1, ExceptSeq DEF Sock
<1>3. DOMAIN socks = Sock /\ DOMAIN socks' = Sock /\ Sock' = Sock
  BY <1>1, <1>2, SeqDomain DEF Sock
<1>4. Inbounds' = IF r.server \in {"greeting", "reading"} THEN Inbounds \cup {s} ELSE Inbounds \ {s}
  BY <1>2, <1>3 DEF Inbounds
<1> QED BY <1>1, <1>2, <1>3, <1>4, SeqDomain DEF Sock

\* Nobody forgets a cookie once it has been started.
Steady == \A p \in TPeer : peers[p].state # "none" => peers'[p].state # "none" /\ peers'[p].cookie = peers[p].cookie

\* Sockets after the other node has served one of them.
LEMMA ServedSockets ==
  ASSUME TransportInv, Served, Steady,
         \A s \in Sock : socks'[s].server \in {"pending", "greeting"} =>
            /\ socks[s].server \in {"pending", "greeting"}
            /\ socks'[s].out = socks[s].out /\ socks'[s].back = socks[s].back,
         \A s \in Sock : socks[s].server = "greeting" /\ socks'[s].server = "reading" =>
            peers[socks[s].peer].cookie = OwnCookie
  PROVE  SocketsOK'
<1> SUFFICES ASSUME NEW s \in Sock
             PROVE  /\ peers'[socks'[s].peer].state # "none"
                    /\ socks'[s].server \in {"pending", "greeting"} =>
                         socks'[s].out = <<Letter(s)>> /\ socks'[s].back = <<>>
                    /\ socks'[s].server = "reading" =>
                         Framed(socks'[s].out, socks'[s].peer) /\ peers'[socks'[s].peer].cookie = OwnCookie
  <2>1. Sock' = Sock
    BY DEF Served, Sock
  <2>2. \A x : Letter(x)' = Letter(x)
    BY DEF Letter, Hello, hmac_sha256
  <2> QED BY <2>1, <2>2 DEF SocketsOK
<1>1. socks[s] \in SocketRecord
  BY SeqDomain DEF TransportInv, TransportType, Sock
<1>2. socks'[s].peer = socks[s].peer /\ socks[s].peer \in TPeer /\ socks[s].out \in Seq(Item)
  BY <1>1 DEF Served, SocketRecord
<1>3. /\ peers[socks[s].peer].state # "none"
      /\ socks[s].server \in {"pending", "greeting"} => socks[s].out = <<Letter(s)>> /\ socks[s].back = <<>>
      /\ socks[s].server = "reading" =>
           Framed(socks[s].out, socks[s].peer) /\ peers[socks[s].peer].cookie = OwnCookie
  BY DEF TransportInv, SocketsOK
<1>4. peers'[socks'[s].peer].state # "none" /\ peers'[socks'[s].peer].cookie = peers[socks[s].peer].cookie
  BY <1>2, <1>3 DEF Steady
<1>5. ASSUME socks'[s].server = "reading"
      PROVE  Framed(socks'[s].out, socks'[s].peer) /\ peers[socks[s].peer].cookie = OwnCookie
  <2>1. CASE socks[s].server = "reading" /\ socks'[s].out = socks[s].out
    BY <1>2, <1>3, <2>1
  <2>2. CASE socks[s].server = "greeting" /\ socks'[s].out = <<>>
    <3>1. Framed(<<>>, socks[s].peer)
      BY EmptySeq DEF Framed
    <3> QED BY <1>2, <1>5, <2>2, <3>1
  <2>3. CASE /\ socks[s].server = "reading" /\ Len(socks[s].out) >= 2
             /\ socks'[s].out = SubSeq(socks[s].out, 3, Len(socks[s].out))
    BY <1>2, <1>3, <2>3, FramedRest
  <2> QED BY <1>5, <2>1, <2>2, <2>3 DEF Served
<1> QED BY <1>3, <1>4, <1>5

\* What arrived is not taken back.
LEMMA ArrivedStays ==
  ASSUME Arrived, Steady, got' = got
  PROVE  Arrived'
  BY DEF Arrived, FramesArriveWhole, Steady

\* No socket has changed.
LEMMA NothingServed ==
  ASSUME TransportType, socks' = socks
  PROVE  Served /\ Inbounds' = Inbounds
  BY DEF TransportType, Served, Inbounds

\* Only the state at the other end changes.
LEMMA NewServer ==
  ASSUME NEW r \in SocketRecord, NEW how \in {"pending", "greeting", "reading", "closed"}
  PROVE  LET n == [r EXCEPT !.server = how] IN
         n \in SocketRecord /\ n.peer = r.peer /\ n.out = r.out /\ n.back = r.back /\ n.server = how
  BY DEF SocketRecord

\* What waits to be accepted is closed, and nothing else.
LEMMA ResetFacts ==
  ASSUME TransportType, NEW p \in TPeer
  PROVE  /\ Reset(p) \in Seq(SocketRecord) /\ Len(Reset(p)) = Len(socks) /\ DOMAIN socks = Sock
         /\ \A s \in Sock : Reset(p)[s] = IF socks[s].peer = p /\ socks[s].server = "pending"
                                          THEN [socks[s] EXCEPT !.server = "closed"] ELSE socks[s]
<1>1. DOMAIN socks = Sock /\ Len(socks) \in Nat /\ \A s \in Sock : socks[s] \in SocketRecord
  BY SeqDomain DEF TransportType, Sock
<1>2. \A s \in Sock : [socks[s] EXCEPT !.server = "closed"] \in SocketRecord
  BY <1>1 DEF SocketRecord
<1>3. Reset(p) \in [1 .. Len(socks) -> SocketRecord]
  BY <1>1, <1>2 DEF Reset, Sock
<1>4. Reset(p) \in Seq(SocketRecord) /\ Len(Reset(p)) = Len(socks)
  BY <1>1, <1>3, SeqDef, LenProperties
<1> QED BY <1>1, <1>4 DEF Reset

\* A node chooses its cookie when it starts, and nobody was connected to it before.
LEMMA StartNodeStep ==
  ASSUME TransportInv, NEW p \in TPeer, start_node(p)
  PROVE  TransportInv'
<1> USE DEF TransportInv
<1>1. PICK how \in {"listening", "failed"}, k \in Cookie :
        peers' = [peers EXCEPT ![p] = [state |-> how, cookie |-> k]]
  BY DEF start_node
<1>2. peers \in [TPeer -> PeerRecord] /\ peers[p].state = "none"
  BY DEF TransportType, start_node
<1>3. UNCHANGED <<th, sys, cons, fds, socks, g_inbound_count, got, sends>>
  BY DEF start_node
<1>4. Steady
  BY <1>1, <1>2 DEF Steady
<1>5. TransportType'
  <2>1. peers' \in [TPeer -> PeerRecord]
    BY <1>1, <1>2 DEF PeerRecord
  <2> QED BY <1>3, <2>1 DEF TransportType, Fd
<1>6. Served /\ Inbounds' = Inbounds
  BY <1>3, NothingServed
<1>7. SocketsOK'
  BY <1>3, <1>4, <1>6, ServedSockets
<1> QED BY <1>3, <1>4, <1>5, <1>6, <1>7, ServedKeeps, ArrivedStays, Recounted

\* stop-node! at the other end: what waits to be accepted is reset.
LEMMA StopPeerStep ==
  ASSUME TransportInv, NEW p \in TPeer, StopPeer(p)
  PROVE  TransportInv'
<1> USE DEF TransportInv
<1>1. peers \in [TPeer -> PeerRecord] /\ peers[p].state = "listening"
  BY DEF TransportType, StopPeer
<1>2. /\ \E how \in {"closing", "stopped"} : peers' = [peers EXCEPT ![p].state = how]
      /\ socks' = socks \/ socks' = Reset(p)
      /\ UNCHANGED <<th, sys, cons, fds, g_inbound_count, got, sends>>
  BY DEF StopPeer
<1>3. Steady /\ peers' \in [TPeer -> PeerRecord]
  BY <1>1, <1>2 DEF Steady, PeerRecord
<1>4. /\ socks' \in Seq(SocketRecord) /\ Len(socks') = Len(socks) /\ DOMAIN socks = Sock
      /\ \A s \in Sock : socks'[s] = socks[s] \/ /\ socks[s].server = "pending"
                                                 /\ socks'[s] = [socks[s] EXCEPT !.server = "closed"]
  <2>1. socks \in Seq(SocketRecord) /\ DOMAIN socks = Sock
    BY SeqDomain DEF TransportType, Sock
  <2> QED BY <1>2, <2>1, ResetFacts
<1>5. \A s \in Sock : socks[s] \in SocketRecord
  BY SeqDomain DEF TransportType, Sock
<1>6. TransportType'
  BY <1>2, <1>3, <1>4 DEF TransportType, Fd
<1>10. ASSUME NEW s \in Sock
       PROVE  /\ socks'[s].peer = socks[s].peer /\ socks'[s].out = socks[s].out /\ socks'[s].back = socks[s].back
              /\ socks'[s].server = socks[s].server \/ (socks[s].server = "pending" /\ socks'[s].server = "closed")
  <2>1. socks[s] \in SocketRecord
    BY <1>5
  <2>2. CASE socks'[s] = socks[s]
    BY <2>2
  <2>3. CASE socks[s].server = "pending" /\ socks'[s] = [socks[s] EXCEPT !.server = "closed"]
    BY <2>1, <2>3 DEF SocketRecord
  <2> QED BY <1>4, <2>2, <2>3
<1>7. Served
  BY <1>4, <1>10 DEF Served
<1>8. SocketsOK'
  BY <1>3, <1>7, <1>10, ServedSockets
<1>9. Inbounds' = Inbounds
  <2>1. DOMAIN socks' = DOMAIN socks
    BY <1>4, SeqDomain DEF Sock
  <2>2. \A s \in Sock : socks'[s].server \in {"greeting", "reading"} <=> socks[s].server \in {"greeting", "reading"}
    BY <1>4, <1>5 DEF SocketRecord
  <2> QED BY <1>4, <2>1, <2>2 DEF Inbounds
<1> QED BY <1>2, <1>3, <1>6, <1>7, <1>8, <1>9, ServedKeeps, ArrivedStays, Recounted

\* accept_loop_main counts the inbound thread that it makes.
LEMMA AcceptStep ==
  ASSUME TransportInv, NEW s \in Sock, accept_loop_main(s)
  PROVE  TransportInv'
<1> USE DEF TransportInv
<1> DEFINE p == socks[s].peer
           base == IF peers[p].state = "closing" THEN Reset(p) ELSE socks
<1>1. socks \in Seq(SocketRecord) /\ DOMAIN socks = Sock /\ \A q \in Sock : socks[q] \in SocketRecord
  BY SeqDomain DEF TransportType, Sock
<1>2. p \in TPeer /\ peers \in [TPeer -> PeerRecord]
  BY <1>1 DEF SocketRecord, TransportType
<1>3. PICK how \in {"closed", "greeting"} :
        /\ how = "greeting" => g_inbound_count + 1 <= MAX_INBOUND
        /\ socks' = [base EXCEPT ![s].server = how]
        /\ g_inbound_count' = g_inbound_count + (IF how = "greeting" THEN 1 ELSE 0)
  BY DEF accept_loop_main
<1>4. /\ socks[s].server = "pending" /\ peers[p].state \in {"listening", "closing"}
      /\ peers' = [peers EXCEPT ![p].state = IF @ = "closing" THEN "stopped" ELSE @]
      /\ UNCHANGED <<th, sys, cons, fds, got, sends>>
  BY DEF accept_loop_main
<1>5. /\ base \in Seq(SocketRecord) /\ Len(base) = Len(socks)
      /\ \A q \in Sock : base[q] = socks[q] \/ /\ socks[q].server = "pending"
                                               /\ base[q] = [socks[q] EXCEPT !.server = "closed"]
  BY <1>1, <1>2, ResetFacts
<1> HIDE DEF p, base
<1>6. [base[s] EXCEPT !.server = how] = [socks[s] EXCEPT !.server = how] /\ [socks[s] EXCEPT !.server = how] \in SocketRecord
  BY ZenonT(60), <1>1, <1>5 DEF SocketRecord
<1>7. socks' = [base EXCEPT ![s] = [socks[s] EXCEPT !.server = how]]
  BY <1>3, <1>6
<1>8. /\ socks' \in Seq(SocketRecord) /\ Len(socks') = Len(socks)
      /\ socks'[s] = [socks[s] EXCEPT !.server = how]
      /\ \A q \in Sock : q # s => socks'[q] = base[q]
  BY <1>5, <1>6, <1>7, ExceptSeq DEF Sock
<1>9. /\ \A q \in Sock : socks'[q].peer = socks[q].peer /\ socks'[q].out = socks[q].out /\ socks'[q].back = socks[q].back
      /\ \A q \in Sock : q # s => socks'[q].server = socks[q].server \/ (socks[q].server = "pending" /\ socks'[q].server = "closed")
      /\ socks'[s].server = how
  <2>1. ASSUME NEW q \in Sock
        PROVE  /\ base[q].peer = socks[q].peer /\ base[q].out = socks[q].out /\ base[q].back = socks[q].back
               /\ base[q].server = socks[q].server \/ (socks[q].server = "pending" /\ base[q].server = "closed")
    <3>1. socks[q] \in SocketRecord
      BY <1>1
    <3>2. CASE base[q] = socks[q]
      BY <3>2
    <3>3. CASE socks[q].server = "pending" /\ base[q] = [socks[q] EXCEPT !.server = "closed"]
      BY <3>1, <3>3 DEF SocketRecord
    <3> QED BY <1>5, <3>2, <3>3
  <2>2. /\ socks'[s].peer = socks[s].peer /\ socks'[s].out = socks[s].out /\ socks'[s].back = socks[s].back
        /\ socks'[s].server = how
    BY <1>1, <1>8, NewServer
  <2>3. \A q \in Sock : q # s => socks'[q] = base[q]
    BY <1>8
  <2> QED BY <2>1, <2>2, <2>3
<1>10. Steady /\ peers' \in [TPeer -> PeerRecord]
  BY <1>2, <1>4 DEF Steady, PeerRecord
<1>11. Served
  BY <1>4, <1>8, <1>9 DEF Served
<1>12. SocketsOK'
  BY <1>4, <1>9, <1>10, <1>11, ServedSockets
<1>13. Inbounds' = IF how = "greeting" THEN Inbounds \cup {s} ELSE Inbounds
  <2>1. DOMAIN socks' = Sock
    BY <1>8, SeqDomain DEF Sock
  <2>2. \A q \in Sock : q # s => (socks'[q].server \in {"greeting", "reading"} <=> socks[q].server \in {"greeting", "reading"})
    BY <1>9
  <2> QED BY <1>1, <1>4, <1>9, <2>1, <2>2 DEF Inbounds
<1>14. InboundCounted' /\ g_inbound_count' \in Nat
  <2>1. s \notin Inbounds
    BY <1>4 DEF Inbounds
  <2>2. CASE how = "greeting"
    BY <1>3, <1>13, <2>1, <2>2, Recounted
  <2>3. CASE how = "closed"
    <3>1. g_inbound_count' = g_inbound_count
      BY <1>3, <2>3 DEF TransportType
    <3> QED BY <1>13, <2>3, <3>1, Recounted
  <2> QED BY <2>2, <2>3
<1>15. TransportType'
  BY <1>4, <1>8, <1>10, <1>14 DEF TransportType, Fd
<1> QED BY <1>4, <1>10, <1>11, <1>12, <1>14, <1>15, ServedKeeps, ArrivedStays

\* Two nodes with different cookies do not make the same letter.
LEMMA LetterFacts ==
  ASSUME NEW s \in Nat
  PROVE  /\ Head(<<Letter(s)>>) = Letter(s) /\ Tail(<<Letter(s)>>) = <<>>
         /\ Letter(s) \in Item /\ Letter(s).nonce = s /\ Letter(s).mac = <<OwnCookie, <<s>>>>
         /\ <<Answer(s)>> \in Seq(Reply) /\ <<Answer(s)>> # <<>>
         /\ <<Letter(s)>> \in Seq(Item)
<1>1. Letter(s) \in Item /\ Answer(s) \in Reply
  BY DEF Item, Reply
<1>2. Letter(s).nonce = s /\ Letter(s).mac = <<OwnCookie, <<s>>>>
  BY DEF Letter, Hello, hmac_sha256
<1> QED BY <1>1, <1>2

\* An inbound thread ends: another change that keeps what clients rely on.
LEMMA CloseInboundStep ==
  ASSUME TransportInv, NEW s \in Sock, socks[s].server \in {"greeting", "reading"}, CloseInbound(s),
         UNCHANGED <<th, sys, cons, fds, peers, got, sends>>
  PROVE  TransportInv'
<1> USE DEF TransportInv
<1> DEFINE r == [socks[s] EXCEPT !.server = "closed", !.out = <<>>]
<1>1. socks' = [socks EXCEPT ![s] = r] /\ g_inbound_count' = g_inbound_count - 1
  BY DEF CloseInbound
<1>2. socks[s] \in SocketRecord
  BY SeqDomain DEF TransportType, Sock
<1>3. r \in SocketRecord /\ r.peer = socks[s].peer /\ r.back = socks[s].back /\ r.server = "closed"
  BY <1>2, EmptySeq DEF SocketRecord
<1> HIDE DEF r
<1>4. /\ socks' \in Seq(SocketRecord) /\ Len(socks') = Len(socks)
      /\ socks'[s] = r /\ \A q \in Sock : q # s => socks'[q] = socks[q]
      /\ Inbounds' = Inbounds \ {s}
  BY <1>1, <1>3, OneSocket
<1>5. Served
  BY <1>3, <1>4 DEF Served
<1>6. Steady
  BY DEF Steady
<1>7. SocketsOK'
  BY <1>3, <1>4, <1>5, <1>6, ServedSockets
<1>8. InboundCounted' /\ g_inbound_count' \in Nat
  <2>1. s \in Inbounds
    BY SeqDomain DEF Inbounds, TransportType, Sock
  <2> QED BY <1>1, <1>4, <2>1, Recounted
<1>9. TransportType'
  BY <1>4, <1>8 DEF TransportType, Fd
<1> QED BY <1>5, <1>6, <1>7, <1>8, <1>9, ServedKeeps, ArrivedStays

\* handshake_respond answers who has the cookie, and only from then on frames are read.
LEMMA RespondStep ==
  ASSUME TransportInv, NEW s \in Sock, handshake_respond(s)
  PROVE  TransportInv'
<1> USE DEF TransportInv
<1> DEFINE p == socks[s].peer
           hello == Head(socks[s].out)
           agreed == socks[s].out # <<>> /\ hello.mac = hmac_sha256(peers[p].cookie, <<hello.nonce>>)
<1>1. socks[s].server = "greeting" /\ UNCHANGED <<th, sys, cons, fds, peers, got, sends>>
  BY DEF handshake_respond
<1>2. socks[s].out = <<Letter(s)>> /\ socks[s].back = <<>> /\ socks[s] \in SocketRecord /\ s \in Nat
  <2>1. socks[s].out = <<Letter(s)>> /\ socks[s].back = <<>>
    BY <1>1 DEF SocketsOK
  <2>2. socks[s] \in SocketRecord /\ s \in Nat
    BY SeqDomain DEF TransportType, Sock
  <2> QED BY <2>1, <2>2
<1>3. CASE agreed
  <2>1. /\ socks' = [socks EXCEPT ![s].server = "reading", ![s].out = Tail(@),
                        ![s].back = <<Hello(-s, hmac_sha256(peers[p].cookie, <<hello.nonce, -s>>))>>]
        /\ g_inbound_count' = g_inbound_count
    BY <1>3 DEF handshake_respond
  <2>2. hello.nonce = s /\ peers[p].cookie = OwnCookie /\ Tail(socks[s].out) = <<>>
    <3>1. hello = Letter(s) /\ hello.nonce = s /\ hello.mac = <<OwnCookie, <<s>>>> /\ Tail(socks[s].out) = <<>>
      BY <1>2, LetterFacts
    <3>2. <<OwnCookie, <<s>>>> = <<peers[p].cookie, <<s>>>>
      BY <1>3, <3>1 DEF hmac_sha256
    <3>3. <<OwnCookie, <<s>>>>[1] = OwnCookie /\ <<peers[p].cookie, <<s>>>>[1] = peers[p].cookie
      OBVIOUS
    <3> QED BY <3>1, <3>2, <3>3
  <2>3. Hello(-s, hmac_sha256(peers[p].cookie, <<hello.nonce, -s>>)) = Answer(s)
    BY <2>2 DEF Answer
  <2> DEFINE r == [socks[s] EXCEPT !.server = "reading", !.out = <<>>, !.back = <<Answer(s)>>]
  <2>4. socks' = [socks EXCEPT ![s] = r]
    <3>1. [socks[s] EXCEPT !.server = "reading", !.out = Tail(@),
              !.back = <<Hello(-s, hmac_sha256(peers[p].cookie, <<hello.nonce, -s>>))>>] = r
      <4> HIDE DEF p, hello
      <4> QED BY <1>2, <2>2, <2>3 DEF SocketRecord
    <3> QED BY <2>1, <3>1
  <2>5. /\ r \in SocketRecord /\ r.peer = p /\ r.back # <<>>
        /\ r.server = "reading" /\ r.out = <<>>
    BY <1>2, LetterFacts, EmptySeq DEF SocketRecord
  <2> HIDE DEF r
  <2>6. /\ socks' \in Seq(SocketRecord) /\ Len(socks') = Len(socks)
        /\ socks'[s] = r /\ \A q \in Sock : q # s => socks'[q] = socks[q]
        /\ Inbounds' = Inbounds \cup {s}
    BY <2>4, <2>5, OneSocket
  <2>7. Served
    BY <1>1, <2>5, <2>6 DEF Served
  <2>8. Steady
    BY <1>1 DEF Steady
  <2>9. SocketsOK'
    <3>1. \A q \in Sock : socks'[q].server \in {"pending", "greeting"} =>
            socks'[q] = socks[q]
      BY <2>5, <2>6
    <3>2. \A q \in Sock : socks[q].server = "greeting" /\ socks'[q].server = "reading" =>
            peers[socks[q].peer].cookie = OwnCookie
      BY <2>2, <2>6
    <3> QED BY <2>7, <2>8, <3>1, <3>2, ServedSockets
  <2>10. InboundCounted' /\ g_inbound_count' \in Nat
    <3>1. s \in Inbounds
      BY <1>1, SeqDomain DEF Inbounds, TransportType, Sock
    <3>2. Inbounds' = Inbounds
      BY <2>6, <3>1
    <3> QED BY <2>1, <3>2, Recounted
  <2>11. TransportType'
    BY <1>1, <2>6, <2>10 DEF TransportType, Fd
  <2> QED BY <1>1, <2>7, <2>8, <2>9, <2>10, <2>11, ServedKeeps, ArrivedStays
<1>4. CASE ~ agreed
  <2>1. CloseInbound(s)
    BY <1>4 DEF handshake_respond
  <2> QED BY <1>1, <2>1, CloseInboundStep
<1> QED BY <1>3, <1>4

\* handle_inbound_main takes a header and its body, or ends.
LEMMA ReadStep ==
  ASSUME TransportInv, NEW s \in Sock, handle_inbound_main(s)
  PROVE  TransportInv'
<1> USE DEF TransportInv
<1> DEFINE p == socks[s].peer
           out == socks[s].out
<1>1. socks[s].server = "reading" /\ UNCHANGED <<th, sys, cons, fds, peers, sends>>
  BY DEF handle_inbound_main
<1>2. socks[s] \in SocketRecord /\ p \in TPeer /\ out \in Seq(Item)
  <2>1. socks[s] \in SocketRecord
    BY SeqDomain DEF TransportType, Sock
  <2> QED BY <2>1 DEF SocketRecord
<1>3. Framed(out, p) /\ peers[p].state # "none" /\ peers[p].cookie = OwnCookie
  BY <1>1 DEF SocketsOK
<1>4. CASE Len(out) >= 2
  <2> DEFINE r == [socks[s] EXCEPT !.out = SubSeq(out, 3, Len(out))]
  <2>1. /\ socks' = [socks EXCEPT ![s] = r]
        /\ got' = [got EXCEPT ![p] = Append(@, <<out[1], out[2]>>)]
        /\ g_inbound_count' = g_inbound_count
    BY <1>4 DEF handle_inbound_main
  <2>2. SubSeq(out, 3, Len(out)) \in Seq(Item)
    BY <1>2, <1>3, <1>4, FramedRest
  <2>3. /\ r \in SocketRecord /\ r.peer = p /\ r.back = socks[s].back
        /\ r.server = "reading" /\ r.out = SubSeq(out, 3, Len(out))
    <3> HIDE DEF out
    <3> QED BY <1>1, <1>2, <2>2 DEF SocketRecord
  <2> HIDE DEF r
  <2>4. /\ socks' \in Seq(SocketRecord) /\ Len(socks') = Len(socks)
        /\ socks'[s] = r /\ \A q \in Sock : q # s => socks'[q] = socks[q]
        /\ Inbounds' = Inbounds \cup {s}
    BY <2>1, <2>3, OneSocket
  <2>5. Served
    BY <1>1, <1>4, <2>3, <2>4 DEF Served
  <2>6. Steady
    BY <1>1 DEF Steady
  <2>7. SocketsOK'
    <3>1. \A q \in Sock : socks'[q].server \in {"pending", "greeting"} =>
            socks'[q] = socks[q]
      BY <2>3, <2>4
    <3>2. \A q \in Sock : socks[q].server = "greeting" => ~ (socks'[q].server = "reading")
      BY <1>1, <2>4
    <3> QED BY <2>5, <2>6, <3>1, <3>2, ServedSockets
  <2>8. InboundCounted' /\ g_inbound_count' \in Nat
    <3>1. s \in Inbounds
      BY <1>1, SeqDomain DEF Inbounds, TransportType, Sock
    <3>2. Inbounds' = Inbounds
      BY <2>4, <3>1
    <3> QED BY <2>1, <3>2, Recounted
  <2>9. got[p] \in Seq(Item \X Item) /\ got \in [TPeer -> Seq(Item \X Item)]
    BY <1>2 DEF TransportType
  <2> DEFINE frame == <<out[1], out[2]>>
             n == Len(got[p])
  <2>10. /\ frame \in Item \X Item /\ frame[1] = out[1] /\ frame[2] = out[2]
         /\ frame[1].kind = "header" /\ frame[2].kind = "body" /\ frame[1].msg = frame[2].msg /\ frame[1].to = p
    <3>1. 1 \in 1 .. Len(out) /\ 2 \in 1 .. Len(out) /\ 2 % 2 = 0 /\ 1 % 2 = 1 /\ 2 - 1 = 1
      BY <1>2, <1>4, SeqDomain
    <3>2. out[1] \in Item /\ out[2] \in Item
      BY <1>2, <3>1, SeqDomain
    <3>3. out[1].kind = "header" /\ out[2].kind = "body" /\ out[2].msg = out[1].msg /\ out[1].to = p
      <4>1. \A k \in 1 .. Len(out) :
              /\ out[k].to = p
              /\ out[k].kind = (IF k % 2 = 1 THEN "header" ELSE "body")
              /\ k % 2 = 0 => out[k].msg = out[k - 1].msg
        BY <1>3 DEF Framed
      <4> HIDE DEF out, p
      <4> QED BY <3>1, <4>1
    <3> QED BY <3>2, <3>3
  <2>11. /\ Append(got[p], frame) \in Seq(Item \X Item)
         /\ Len(Append(got[p], frame)) = n + 1 /\ n \in Nat
         /\ \A i \in 1 .. n : Append(got[p], frame)[i] = got[p][i]
         /\ Append(got[p], frame)[n + 1] = frame
    BY <2>9, <2>10, AppendProperties, LenProperties
  <2>12. got' = [got EXCEPT ![p] = Append(got[p], frame)]
    BY <2>1
  <2> HIDE DEF frame, p, out
  <2>13. got' \in [TPeer -> Seq(Item \X Item)] /\ got'[p] = Append(got[p], frame) /\ \A q \in TPeer : q # p => got'[q] = got[q]
    BY <1>2, <2>9, <2>11, <2>12
  <2>14. Arrived'
    <3>1. ASSUME NEW q \in TPeer, NEW k \in DOMAIN got'[q]
          PROVE  /\ got'[q][k][1].kind = "header" /\ got'[q][k][2].kind = "body"
                 /\ got'[q][k][1].msg = got'[q][k][2].msg /\ got'[q][k][1].to = q
      <4>1. CASE q # p
        BY <2>13, <3>1, <4>1 DEF Arrived, FramesArriveWhole
      <4>2. CASE q = p
        <5>1. k \in 1 .. n + 1
          BY <2>11, <2>13, <3>1, <4>2, SeqDomain
        <5>2. CASE k = n + 1
          BY <2>10, <2>11, <2>13, <4>2, <5>2
        <5>3. CASE k # n + 1
          <6>1. k \in 1 .. n /\ k \in DOMAIN got[p]
            <7>1. n \in Nat /\ DOMAIN got[p] = 1 .. n
              BY <2>9, SeqDomain
            <7> QED BY <5>1, <5>3, <7>1
          <6>2. LET frames == got[p][k] IN
                /\ frames[1].kind = "header" /\ frames[2].kind = "body"
                /\ frames[1].msg = frames[2].msg /\ frames[1].to = p
            BY <1>2, <6>1 DEF Arrived, FramesArriveWhole
          <6>3. got'[p][k] = got[p][k]
            BY <2>11, <2>13, <6>1
          <6> QED BY <4>2, <6>2, <6>3
        <5> QED BY <5>2, <5>3
      <4> QED BY <4>1, <4>2
    <3>2. ASSUME NEW q \in TPeer, got'[q] # <<>> PROVE peers'[q].state # "none" /\ peers'[q].cookie = OwnCookie
      BY <1>1, <1>3, <2>13, <3>2 DEF Arrived
    <3> QED BY <3>1, <3>2 DEF Arrived, FramesArriveWhole
  <2>15. TransportType'
    BY <1>1, <2>4, <2>8, <2>13 DEF TransportType, Fd
  <2> QED BY <1>1, <2>5, <2>7, <2>8, <2>14, <2>15, ServedKeeps
<1>5. CASE ~ (Len(out) >= 2)
  <2>1. CloseInbound(s) /\ got' = got
    BY <1>5 DEF handle_inbound_main
  <2> QED BY <1>1, <2>1, CloseInboundStep
<1> QED BY <1>4, <1>5

\* A cut loses nothing that was read.
LEMMA CutStep ==
  ASSUME TransportInv, NEW s \in Sock, Cut(s)
  PROVE  TransportInv'
<1> USE DEF TransportInv
<1> DEFINE r == [socks[s] EXCEPT !.cut = TRUE]
<1>1. /\ socks' = [socks EXCEPT ![s] = r] /\ sends' = [sends EXCEPT !.cuts = @ + 1]
      /\ UNCHANGED <<th, sys, cons, fds, peers, g_inbound_count, got>>
  BY DEF Cut
<1>2. socks[s] \in SocketRecord
  BY SeqDomain DEF TransportType, Sock
<1>3. r \in SocketRecord /\ r.peer = socks[s].peer /\ r.back = socks[s].back /\ r.out = socks[s].out /\ r.server = socks[s].server
  BY <1>2 DEF SocketRecord
<1> HIDE DEF r
<1>4. /\ socks' \in Seq(SocketRecord) /\ Len(socks') = Len(socks)
      /\ socks'[s] = r /\ \A q \in Sock : q # s => socks'[q] = socks[q]
      /\ DOMAIN socks = Sock /\ DOMAIN socks' = Sock
  BY <1>1, <1>3, OneSocket, SeqDomain DEF TransportType, Sock
<1>5. \A q \in Sock : /\ socks'[q].peer = socks[q].peer /\ socks'[q].back = socks[q].back
                      /\ socks'[q].out = socks[q].out /\ socks'[q].server = socks[q].server
  BY <1>3, <1>4
<1>6. Served /\ Inbounds' = Inbounds
  BY <1>4, <1>5 DEF Served, Inbounds
<1>7. Steady
  BY <1>1 DEF Steady
<1>8. SocketsOK'
  BY <1>5, <1>6, <1>7, ServedSockets
<1>9. TransportType'
  <2>1. sends' \in [n : Nat, cuts : Nat]
    <3>1. sends \in [n : Nat, cuts : Nat]
      BY DEF TransportType
    <3>2. sends.cuts + 1 \in Nat
      BY <3>1
    <3> QED BY <1>1, <3>1, <3>2
  <2> QED BY <1>1, <1>4, <2>1 DEF TransportType, Fd
<1> QED BY <1>1, <1>6, <1>7, <1>8, <1>9, ServedKeeps, ArrivedStays, Recounted

-----------------------------------------------------------------------------
(* What the node itself does                                               *)

\* A step after which nobody has a descriptor or a connection that is open
\* who had not before, and nothing has gone over a socket.
Narrowed ==
  /\ socks' \in Seq(SocketRecord) /\ Len(socks') = Len(socks)
  /\ \A s \in Sock : /\ socks'[s].peer = socks[s].peer /\ socks'[s].back = socks[s].back
                     /\ socks'[s].out = socks[s].out /\ socks'[s].server = socks[s].server
  /\ fds' \in [Fd -> Nat] /\ \A f \in Fd : fds'[f] \in {fds[f], 0}
  /\ cons' \in Seq(ConRecord) /\ Len(cons') = Len(cons)
  /\ \A c \in Con : /\ cons'[c].key = cons[c].key
                    /\ cons'[c].fd # -1 => cons'[c].fd = cons[c].fd /\ fds'[cons[c].fd] = fds[cons[c].fd]
  /\ \A t \in Thread : Dialling(t)' =>
       /\ Dialling(t) /\ th'[t].fd = th[t].fd /\ th'[t].peer = th[t].peer
       /\ th'[t].pc = "recheck" => Dialled(t).back # <<>>
       /\ fds'[th[t].fd] = fds[th[t].fd]
  /\ \A t \in Thread, c \in Con : cons'[c].fd # -1 =>
       /\ Writing(t, c)' <=> Writing(t, c)
       /\ Writing(t, c) => th'[t].msg = th[t].msg
  /\ UNCHANGED <<peers, g_inbound_count, got>>

\* Descriptors and connections have only been closed.
LEMMA NarrowedKeeps ==
  ASSUME TransportInv, Narrowed
  PROVE  FdsOK' /\ DialOK' /\ ConsOK' /\ SocketsOK' /\ HalfFrames' /\ Arrived' /\ InboundCounted' /\ g_inbound_count' \in Nat
<1> USE DEF TransportInv
<1>0. /\ fds \in [Fd -> Nat] /\ Len(socks) \in Nat /\ DOMAIN socks = Sock /\ DOMAIN socks' = Sock
      /\ \A c \in Con : cons[c] \in ConRecord
      /\ \A f \in Fd : fds[f] # 0 => fds[f] \in Sock
      /\ Sock' = Sock /\ Con' = Con /\ Fd' = Fd
  <2>1. socks \in Seq(SocketRecord) /\ fds \in [Fd -> Nat] /\ cons \in Seq(ConRecord)
    BY DEF TransportType
  <2>2. Len(socks) \in Nat /\ DOMAIN socks = Sock
    BY <2>1, SeqDomain DEF Sock
  <2>3. \A c \in Con : cons[c] \in ConRecord
    BY <2>1, SeqDomain DEF Con
  <2>4. DOMAIN socks' = Sock /\ Sock' = Sock /\ Con' = Con /\ Fd' = Fd
    BY SeqDomain DEF Narrowed, Sock, Con, Fd
  <2> QED BY <2>1, <2>2, <2>3, <2>4 DEF FdsOK, Sock
<1>1. FdsOK'
  <2>1. \A f \in Fd : fds'[f] # 0 => fds'[f] = fds[f]
    BY DEF Narrowed
  <2>2. \A f \in Fd : fds'[f] <= Len(socks')
    BY <1>0, <2>1 DEF Narrowed, FdsOK
  <2> QED BY <1>0, <2>1, <2>2 DEF FdsOK
<1>2. ASSUME NEW t \in Thread, Dialling(t)'
      PROVE  /\ Dialling(t) /\ th'[t].fd = th[t].fd /\ th[t].fd \in Fd /\ fds'[th[t].fd] # 0
             /\ Dialled(t)'.peer = th'[t].peer
             /\ Dialled(t)'.server = "reading" => Dialled(t)'.out = <<>>
             /\ th'[t].pc = "recheck" => Dialled(t)'.back # <<>>
  <2>1. /\ Dialling(t) /\ th'[t].fd = th[t].fd /\ th'[t].peer = th[t].peer
        /\ th'[t].pc = "recheck" => Dialled(t).back # <<>>
        /\ fds'[th[t].fd] = fds[th[t].fd]
    BY <1>2 DEF Narrowed
  <2>2. /\ th[t].fd \in Fd /\ fds[th[t].fd] # 0
        /\ Dialled(t).peer = th[t].peer
        /\ Dialled(t).server = "reading" => Dialled(t).out = <<>>
    BY <2>1 DEF DialOK
  <2> DEFINE s == fds[th[t].fd]
  <2>3. s \in Sock /\ Dialled(t) = socks[s] /\ Dialled(t)' = socks'[s]
    BY <1>0, <2>1, <2>2 DEF Dialled
  <2> HIDE DEF s
  <2> QED BY <2>1, <2>2, <2>3 DEF Narrowed
<1>3. DialOK'
  <2>1. \A t, u \in Thread : Dialling(t)' /\ Dialling(u)' /\ th'[t].fd = th'[u].fd => t = u
    BY <1>2 DEF DialOK
  <2>2. ASSUME NEW t \in Thread, NEW c \in Con, Dialling(t)' PROVE th'[t].fd # cons'[c].fd
    <3>1. th'[t].fd = th[t].fd /\ th[t].fd \in 1 .. MaxSockets /\ th[t].fd # cons[c].fd
      BY <1>2, <2>2 DEF DialOK, Fd
    <3>2. CASE cons'[c].fd = -1
      BY <3>1, <3>2
    <3>3. CASE cons'[c].fd # -1
      BY <3>1, <3>3 DEF Narrowed
    <3> QED BY <3>2, <3>3
  <2> QED BY <1>0, <1>2, <2>1, <2>2 DEF DialOK
<1>4. ASSUME NEW c \in Con, cons'[c].fd # -1
      PROVE  /\ Open(c) /\ cons'[c].fd = cons[c].fd /\ fds'[cons'[c].fd] = fds[cons[c].fd] /\ fds[cons[c].fd] \in Sock
             /\ Line(c)'.peer = Line(c).peer /\ Line(c)'.out = Line(c).out
             /\ Line(c)'.back = Line(c).back /\ Line(c)'.server = Line(c).server
  <2>1. cons'[c].fd = cons[c].fd /\ fds'[cons[c].fd] = fds[cons[c].fd]
    BY <1>4 DEF Narrowed
  <2>2. Open(c) /\ cons[c].fd \in Fd /\ fds[cons[c].fd] # 0
    BY <1>0, <1>4, <2>1 DEF ConsOK, Open, ConRecord, Fd
  <2> DEFINE s == fds[cons[c].fd]
  <2>3. s \in Sock /\ Line(c) = socks[s] /\ Line(c)' = socks'[s]
    BY <1>0, <2>1, <2>2 DEF Line
  <2> HIDE DEF s
  <2>4. /\ socks'[s].peer = socks[s].peer /\ socks'[s].back = socks[s].back
        /\ socks'[s].out = socks[s].out /\ socks'[s].server = socks[s].server
    BY <2>3 DEF Narrowed
  <2> QED BY <2>1, <2>2, <2>3, <2>4 DEF s
<1>5. ConsOK'
  <2>1. \A c \in Con : Open(c)' => fds'[cons'[c].fd] # 0 /\ Line(c)'.peer = cons'[c].key /\ Line(c)'.back # <<>>
    BY <1>4 DEF ConsOK, Open, Narrowed
  <2>2. \A c, d \in Con : Open(c)' /\ cons'[c].fd = cons'[d].fd => c = d
    BY <1>4 DEF ConsOK, Open
  <2> QED BY <1>0, <2>1, <2>2 DEF ConsOK
<1>6. HalfFrames'
  <2>1. ASSUME NEW c \in Con, Open(c)', Line(c)'.server = "reading"
        PROVE  /\ (\A t \in Thread : ~ Writing(t, c)') => Len(Line(c)'.out) % 2 = 0
               /\ \A t \in Thread : Writing(t, c)' =>
                    Len(Line(c)'.out) % 2 = 1 /\ Line(c)'.out[Len(Line(c)'.out)].msg = th'[t].msg
    <3>1. cons'[c].fd # -1
      BY <2>1 DEF Open
    <3>2. \A t \in Thread : (Writing(t, c)' <=> Writing(t, c)) /\ (Writing(t, c) => th'[t].msg = th[t].msg)
      BY <3>1 DEF Narrowed
    <3>3. Open(c) /\ Line(c).server = "reading" /\ Line(c)'.out = Line(c).out
      BY <1>4, <2>1, <3>1
    <3>4. /\ (\A t \in Thread : ~ Writing(t, c)) => Len(Line(c).out) % 2 = 0
          /\ \A t \in Thread : Writing(t, c) =>
               Len(Line(c).out) % 2 = 1 /\ Line(c).out[Len(Line(c).out)].msg = th[t].msg
      BY <3>3 DEF HalfFrames
    <3> QED BY <3>2, <3>3, <3>4
  <2> QED BY <1>0, <2>1 DEF HalfFrames
<1>7. Served /\ Steady
  BY DEF Narrowed, Served, Steady
<1>8. SocketsOK'
  BY <1>7, ServedSockets DEF Narrowed
<1>9. Inbounds' = Inbounds
  BY <1>0 DEF Inbounds, Narrowed
<1>10. InboundCounted' /\ g_inbound_count' \in Nat
  BY <1>9, Recounted DEF Narrowed
<1>11. Arrived'
  BY <1>7, ArrivedStays DEF Narrowed
<1> QED BY <1>1, <1>3, <1>5, <1>6, <1>8, <1>10, <1>11

\* One thread has changed.
LEMMA OneThread ==
  ASSUME TransportType, NEW t \in Thread, NEW r \in ThreadRecord, r.pc # "resting" => r.peer \in TPeer,
         th' = [th EXCEPT ![t] = r]
  PROVE  /\ th' \in [Thread -> ThreadRecord] /\ \A u \in Thread : th'[u].pc # "resting" => th'[u].peer \in TPeer
         /\ th'[t] = r /\ \A u \in Thread : u # t => th'[u] = th[u]
         /\ th[t] \in ThreadRecord /\ (th[t].pc # "resting" => th[t].peer \in TPeer)
<1>1. th \in [Thread -> ThreadRecord] /\ \A u \in Thread : th[u].pc # "resting" => th[u].peer \in TPeer
  BY DEF TransportType
<1>2. th' \in [Thread -> ThreadRecord] /\ th'[t] = r /\ \A u \in Thread : u # t => th'[u] = th[u]
  BY <1>1
<1>3. \A u \in Thread : th'[u].pc # "resting" => th'[u].peer \in TPeer
  BY <1>1, <1>2
<1> QED BY <1>1, <1>2, <1>3

\* A thread that rests has no peer, connection or descriptor.
LEMMA RestingFacts ==
  /\ Resting \in ThreadRecord /\ Resting.pc = "resting"
  /\ [Resting EXCEPT !.failed = TRUE] \in ThreadRecord
  /\ [Resting EXCEPT !.failed = TRUE].pc = "resting"
  BY DEF Resting, ThreadRecord

\* Only one thread changes, and it neither dials nor writes nor evicts: it
\* takes on nothing but, perhaps, a connection of its peer.
LEMMA ThreadAlone ==
  ASSUME TransportInv, NEW t \in Thread, NEW r \in ThreadRecord, r.pc # "resting" => r.peer \in TPeer,
         th' = [th EXCEPT ![t] = r],
         th[t].pc \notin {"body", "evict"}, r.pc \in {"resting", "find", "dial", "lock"},
         r.pc = "lock" => r.con \in Con /\ cons[r.con].key = r.peer,
         UNCHANGED <<sys, cons, fds, socks, peers, g_inbound_count, got>>,
         sends' \in [n : Nat, cuts : Nat]
  PROVE  TransportInv'
<1> USE DEF TransportInv
<1>1. /\ th' \in [Thread -> ThreadRecord] /\ \A u \in Thread : th'[u].pc # "resting" => th'[u].peer \in TPeer
      /\ th'[t] = r /\ \A u \in Thread : u # t => th'[u] = th[u]
  BY OneThread
<1>2. Con' = Con
  BY DEF Con
<1>3. TransportType'
  BY <1>1 DEF TransportType, Fd
<1>4. Narrowed
  <2>1. ASSUME NEW u \in Thread, Dialling(u)'
        PROVE  /\ Dialling(u) /\ th'[u].fd = th[u].fd /\ th'[u].peer = th[u].peer
               /\ th'[u].pc = "recheck" => Dialled(u).back # <<>>
    <3>1. u # t
      BY <1>1, <2>1 DEF Dialling
    <3>2. th'[u] = th[u]
      BY <1>1, <3>1
    <3> QED BY <2>1, <3>2 DEF Dialling, DialOK
  <2>2. \A u \in Thread, c \in Con : (Writing(u, c)' <=> Writing(u, c)) /\ (Writing(u, c) => th'[u].msg = th[u].msg)
    BY <1>1 DEF Writing
  <2> QED BY <1>1, <2>1, <2>2 DEF Narrowed, TransportType
<1>5. LockOK'
  BY <1>1, <1>2 DEF LockOK
<1>6. CacheOK'
  <2>1. \A c : \A u \in Thread : th[u].pc = "evict" /\ th[u].con = c => th'[u].pc = "evict" /\ th'[u].con = c
    BY <1>1
  <2>2. \A c \in Con : Open(c)' <=> Open(c)
    BY DEF Open
  <2> QED BY <1>2, <2>1, <2>2 DEF CacheOK
<1> QED BY <1>3, <1>4, <1>5, <1>6, NarrowedKeeps

\* send! begins.
LEMMA BeginStep ==
  ASSUME TransportInv, NEW t \in Thread, Begin(t)
  PROVE  TransportInv'
<1> USE DEF TransportInv
<1>1. PICK p \in TPeer : th' = [th EXCEPT ![t] = [Resting EXCEPT !.pc = "find", !.msg = sends.n + 1, !.peer = p]]
  BY DEF Begin
<1> DEFINE r == [Resting EXCEPT !.pc = "find", !.msg = sends.n + 1, !.peer = p]
<1>2. th[t].pc = "resting" /\ sends' = [sends EXCEPT !.n = @ + 1] /\ UNCHANGED <<sys, cons, fds, socks, peers, g_inbound_count, got>>
  BY DEF Begin
<1>3. sends \in [n : Nat, cuts : Nat] /\ sends.n + 1 \in Nat
  <2>1. sends \in [n : Nat, cuts : Nat]
    BY DEF TransportType
  <2> QED BY <2>1
<1>4. r \in ThreadRecord /\ r.pc = "find" /\ r.peer = p
  BY <1>3 DEF ThreadRecord, Resting
<1>5. sends' \in [n : Nat, cuts : Nat]
  BY <1>2, <1>3
<1> HIDE DEF r
<1>6. th' = [th EXCEPT ![t] = r]
  BY <1>1 DEF r
<1> QED BY <1>2, <1>4, <1>5, <1>6, ThreadAlone

\* find_connection_locked returns a connection of the cache to this peer, or there is none.
LEMMA FindFacts ==
  ASSUME TransportInv, NEW p
  PROVE  LET c == find_connection_locked(p) IN
         /\ c # 0 => c \in Con /\ cons[c].key = p
         /\ c = 0 => \A i \in DOMAIN sys.connections : cons[sys.connections[i]].key # p
<1> USE DEF TransportInv
<1> DEFINE list == sys.connections
           M == {i \in 1 .. Len(list) : cons[list[i]].key = p}
           k == IF M # {} THEN Min(M) ELSE 0
<1>1. find_connection_locked(p) = IF k = 0 THEN 0 ELSE list[k]
  BY DEF find_connection_locked, SelectInSeq
<1>2. list \in Seq(Nat)
  BY DEF TransportType
<1>3. DOMAIN list = 1 .. Len(list) /\ Len(list) \in Nat /\ \A i \in 1 .. Len(list) : list[i] \in Con
  BY <1>2, SeqDomain DEF CacheOK
<1>4. M # {} => Min(M) \in M
  <2>1. M \subseteq Nat
    OBVIOUS
  <2> HIDE DEF M
  <2>2. ASSUME M # {} PROVE \E i \in M : \A j \in M : i <= j
    BY <2>1, <2>2, Least
  <2> QED BY <2>2 DEF Min
<1>5. CASE M # {}
  <2>1. k \in M /\ k # 0
    <3>1. 0 \notin M
      OBVIOUS
    <3> HIDE DEF M
    <3> QED BY <1>4, <1>5, <3>1
  <2>2. list[k] \in Con /\ cons[list[k]].key = p
    BY <1>3, <2>1
  <2>3. \A c \in Con : c # 0
    BY DEF Con
  <2> HIDE DEF k, list
  <2> QED BY <1>1, <2>1, <2>2, <2>3
<1>6. CASE M = {}
  <2>1. k = 0
    BY <1>6
  <2>2. \A i \in DOMAIN list : cons[list[i]].key # p
    BY <1>3, <1>6
  <2> HIDE DEF k
  <2> QED BY <1>1, <2>1, <2>2
<1> QED BY <1>5, <1>6

\* send! has looked into the cache.
LEMMA FindStep ==
  ASSUME TransportInv, NEW t \in Thread, Find(t)
  PROVE  TransportInv'
<1> USE DEF TransportInv
<1> DEFINE c == find_connection_locked(th[t].peer)
           r == [th[t] EXCEPT !.pc = IF c = 0 THEN "dial" ELSE "lock", !.con = c]
<1>1. /\ th[t].pc = "find" /\ UNCHANGED <<sys, cons, fds, socks, peers, g_inbound_count, got, sends>>
      /\ th' = [th EXCEPT ![t] = r]
  BY DEF Find
<1>2. th[t] \in ThreadRecord /\ th[t].peer \in TPeer
  BY <1>1 DEF TransportType
<1>3. c # 0 => c \in Con /\ cons[c].key = th[t].peer
  BY FindFacts
<1> HIDE DEF c
<1>4. c \in Nat
  BY <1>3 DEF Con
<1>5. /\ r \in ThreadRecord /\ r.peer = th[t].peer /\ r.con = c
      /\ r.pc \in {"dial", "lock"} /\ (r.pc = "lock" => c # 0)
  BY <1>2, <1>4 DEF ThreadRecord
<1> HIDE DEF r
<1>6. sends' \in [n : Nat, cuts : Nat]
  BY <1>1 DEF TransportType
<1> QED BY <1>1, <1>2, <1>3, <1>5, <1>6, ThreadAlone

\* dial takes a new socket under a descriptor that was free.
LEMMA DialStep ==
  ASSUME TransportInv, NEW t \in Thread, dial(t)
  PROVE  TransportInv'
<1> USE DEF TransportInv
<1>1. th[t].pc = "dial" /\ UNCHANGED <<sys, cons, peers, g_inbound_count, got, sends>>
  BY DEF dial
<1>2. CASE th' = Failing(t) /\ UNCHANGED <<fds, socks>>
  <2> DEFINE r == [Resting EXCEPT !.failed = TRUE]
  <2>1. th' = [th EXCEPT ![t] = r]
    BY <1>2 DEF Failing
  <2>2. r \in ThreadRecord /\ r.pc = "resting"
    BY RestingFacts
  <2> HIDE DEF r
  <2>3. sends' \in [n : Nat, cuts : Nat]
    BY <1>1 DEF TransportType
  <2> QED BY <1>1, <1>2, <2>1, <2>2, <2>3, ThreadAlone
<1>3. CASE /\ peers[th[t].peer].state \in {"listening", "closing"} /\ Len(socks) < MaxSockets
           /\ LET s == Len(socks) + 1
              IN /\ socks' = Append(socks, [NewSocket(th[t].peer) EXCEPT
                               !.out = <<Hello(s, hmac_sha256(OwnCookie, <<s>>))>>])
                 /\ fds' = [fds EXCEPT ![FreeFd] = s]
                 /\ th' = [th EXCEPT ![t].pc = "handshake", ![t].fd = FreeFd]
  <2> DEFINE s == Len(socks) + 1
             f == FreeFd
             p == th[t].peer
             k == [NewSocket(p) EXCEPT !.out = <<Letter(s)>>]
             r == [th[t] EXCEPT !.pc = "handshake", !.fd = f]
  <2>1. socks' = Append(socks, k) /\ fds' = [fds EXCEPT ![f] = s] /\ th' = [th EXCEPT ![t] = r]
    BY <1>3 DEF Letter
  <2>2. f \in Fd /\ fds[f] = 0
    BY <1>3, FreeFdFacts
  <2>3. /\ socks \in Seq(SocketRecord) /\ DOMAIN socks = Sock /\ Len(socks) \in Nat
        /\ fds \in [Fd -> Nat] /\ p \in TPeer /\ th[t] \in ThreadRecord
    BY <1>1, SeqDomain DEF TransportType, Sock
  <2>4. s \in Nat /\ s \notin Sock
    BY <2>3 DEF Sock
  <2>5. k \in SocketRecord /\ k.peer = p /\ k.out = <<Letter(s)>> /\ k.back = <<>> /\ k.server = "pending"
    <3>1. <<Letter(s)>> \in Seq(Item) /\ <<>> \in Seq(Item) /\ <<>> \in Seq(Reply)
      BY <2>4, LetterFacts, EmptySeq
    <3> HIDE DEF s, p
    <3> QED BY <2>3, <3>1 DEF NewSocket, SocketRecord
  <2> HIDE DEF k, s, f
  <2>6. f \in Nat
    BY <2>2 DEF Fd
  <2>7. r \in ThreadRecord /\ r.pc = "handshake" /\ r.fd = f /\ r.peer = p
    BY <2>3, <2>6 DEF ThreadRecord
  <2> HIDE DEF r, p
  <2>8. /\ socks' \in Seq(SocketRecord) /\ Len(socks') = s /\ socks'[s] = k
        /\ \A q \in Sock : socks'[q] = socks[q]
        /\ Sock' = Sock \cup {s} /\ DOMAIN socks' = Sock'
    <3>1. /\ socks' \in Seq(SocketRecord) /\ Len(socks') = Len(socks) + 1
          /\ \A q \in 1 .. Len(socks) : socks'[q] = socks[q]
          /\ socks'[Len(socks) + 1] = k
      BY <2>1, <2>3, <2>5, AppendProperties
    <3>2. 1 .. (Len(socks) + 1) = (1 .. Len(socks)) \cup {Len(socks) + 1}
      BY <2>3
    <3>3. DOMAIN socks' = 1 .. Len(socks')
      BY <3>1, SeqDomain
    <3> QED BY <3>1, <3>2, <3>3 DEF s, Sock
  <2>9. /\ th' \in [Thread -> ThreadRecord] /\ \A u \in Thread : th'[u].pc # "resting" => th'[u].peer \in TPeer
        /\ th'[t] = r /\ \A u \in Thread : u # t => th'[u] = th[u]
    BY <2>1, <2>3, <2>7, OneThread DEF p
  <2>10. fds' \in [Fd -> Nat] /\ fds'[f] = s /\ \A g \in Fd : g # f => fds'[g] = fds[g]
    BY <2>1, <2>2, <2>3, <2>4
  <2>11. Con' = Con /\ Fd' = Fd /\ cons' = cons /\ peers' = peers
    BY <1>1 DEF Con, Fd
  <2>12. \A g \in Fd : fds[g] # 0 => fds[g] \in Sock /\ fds'[g] = fds[g] /\ g # f
    BY <2>2, <2>3, <2>10 DEF FdsOK, Sock
  <2>13. TransportType'
    BY <1>1, <2>8, <2>9, <2>10, <2>11 DEF TransportType
  <2>14. FdsOK'
    <3>1. \A g \in Fd : fds'[g] <= s
      BY <2>3, <2>4, <2>10 DEF FdsOK, s
    <3>2. \A g, h \in Fd : fds'[g] # 0 /\ fds'[g] = fds'[h] => g = h
      <4>1. \A g \in Fd : g # f => fds'[g] # s
        BY <2>3, <2>10 DEF FdsOK, s
      <4> QED BY <2>10, <4>1 DEF FdsOK
    <3> QED BY <2>8, <2>11, <3>1, <3>2 DEF FdsOK
  <2>15. ASSUME NEW u \in Thread, u # t, Dialling(u)
         PROVE  th[u].fd # f /\ Dialled(u)' = Dialled(u) /\ fds'[th[u].fd] # 0
    <3>1. th[u].fd \in Fd /\ fds[th[u].fd] # 0
      BY <2>15 DEF DialOK
    <3>2. fds[th[u].fd] \in Sock /\ fds'[th[u].fd] = fds[th[u].fd] /\ th[u].fd # f /\ th'[u] = th[u]
      BY <2>9, <2>12, <2>15, <3>1
    <3> QED BY <2>8, <3>1, <3>2 DEF Dialled
  <2>16. ASSUME NEW c \in Con, Open(c)
         PROVE  cons[c].fd # f /\ Line(c)' = Line(c) /\ fds'[cons[c].fd] # 0
    <3>1. cons[c].fd \in Fd /\ fds[cons[c].fd] # 0
      <4>1. cons[c] \in ConRecord
        BY SeqDomain DEF TransportType, Con
      <4> QED BY <2>16, <4>1 DEF ConsOK, Open, ConRecord, Fd
    <3>2. fds[cons[c].fd] \in Sock /\ fds'[cons[c].fd] = fds[cons[c].fd] /\ cons[c].fd # f
      BY <2>12, <3>1
    <3> QED BY <2>8, <2>11, <3>1, <3>2 DEF Line
  <2>17. DialOK'
    <3>1. Dialled(t)' = k /\ th'[t].fd = f /\ fds'[f] # 0 /\ th'[t].pc = "handshake" /\ th'[t].peer = p
      BY <2>4, <2>7, <2>8, <2>9, <2>10 DEF Dialled, s
    <3>2. ASSUME NEW u \in Thread, Dialling(u)'
          PROVE  /\ th'[u].fd \in Fd /\ fds'[th'[u].fd] # 0
                 /\ Dialled(u)'.peer = th'[u].peer
                 /\ Dialled(u)'.server = "reading" => Dialled(u)'.out = <<>>
                 /\ th'[u].pc = "recheck" => Dialled(u)'.back # <<>>
      <4>1. CASE u = t
        BY <2>2, <2>5, <3>1, <4>1
      <4>2. CASE u # t
        <5>1. th'[u] = th[u] /\ Dialling(u)
          BY <2>9, <3>2, <4>2 DEF Dialling
        <5> QED BY <2>15, <4>2, <5>1 DEF DialOK
      <4> QED BY <4>1, <4>2
    <3>3. ASSUME NEW u \in Thread, NEW v \in Thread, Dialling(u)', Dialling(v)', th'[u].fd = th'[v].fd PROVE u = v
      <4>1. \A w \in Thread : w # t => th'[w] = th[w] /\ (Dialling(w)' => Dialling(w))
        BY <2>9 DEF Dialling
      <4>2. u # t => th[u].fd # f /\ Dialling(u)
        BY <2>15, <3>3, <4>1
      <4>3. v # t => th[v].fd # f /\ Dialling(v)
        BY <2>15, <3>3, <4>1
      <4> QED BY <3>1, <3>3, <4>1, <4>2, <4>3 DEF DialOK
    <3>4. ASSUME NEW u \in Thread, NEW c \in Con, Dialling(u)' PROVE th'[u].fd # cons[c].fd
      <4>1. CASE u = t
        <5>1. f # -1
          BY <2>6
        <5> QED BY <2>16, <3>1, <4>1, <5>1 DEF Open
      <4>2. CASE u # t
        BY <2>9, <3>4, <4>2 DEF DialOK, Dialling
      <4> QED BY <4>1, <4>2
    <3> QED BY <2>11, <3>2, <3>3, <3>4 DEF DialOK
  <2>18. ConsOK'
    <3>1. \A c \in Con : Open(c)' <=> Open(c)
      BY <2>11 DEF Open
    <3> QED BY <2>11, <2>16, <3>1 DEF ConsOK
  <2>19. LockOK'
    BY <2>7, <2>9, <2>11 DEF LockOK
  <2>20. SocketsOK'
    <3>1. \A x : Letter(x)' = Letter(x)
      BY DEF Letter, Hello, hmac_sha256
    <3>2. /\ peers'[k.peer].state # "none"
          /\ k.out = <<Letter(s)>> /\ k.back = <<>> /\ k.server = "pending"
      BY <1>3, <2>5, <2>11 DEF p
    <3> QED BY <2>8, <2>11, <3>1, <3>2 DEF SocketsOK
  <2>21. HalfFrames'
    <3>1. \A c \in Con : Open(c)' <=> Open(c)
      BY <2>11 DEF Open
    <3>2. \A u \in Thread, c \in Con : (Writing(u, c)' <=> Writing(u, c)) /\ (Writing(u, c) => th'[u].msg = th[u].msg)
      BY <1>1, <2>7, <2>9 DEF Writing
    <3>3. ASSUME NEW c \in Con, Open(c), Line(c)'.server = "reading"
          PROVE  /\ (\A u \in Thread : ~ Writing(u, c)') => Len(Line(c)'.out) % 2 = 0
                 /\ \A u \in Thread : Writing(u, c)' =>
                      Len(Line(c)'.out) % 2 = 1 /\ Line(c)'.out[Len(Line(c)'.out)].msg = th'[u].msg
      <4>1. Line(c)' = Line(c)
        BY <2>16, <3>3
      <4> QED BY <3>2, <3>3, <4>1 DEF HalfFrames
    <3> QED BY <2>11, <3>1, <3>3 DEF HalfFrames
  <2>22. Arrived'
    <3>1. Steady
      BY <2>11 DEF Steady
    <3> QED BY <1>1, <3>1, ArrivedStays
  <2>23. InboundCounted'
    <3>1. Inbounds' = Inbounds
      BY <2>3, <2>4, <2>5, <2>8 DEF Inbounds
    <3> QED BY <1>1, <3>1, Recounted
  <2>24. CacheOK'
    <3>1. \A c : \A u \in Thread : th[u].pc = "evict" /\ th[u].con = c => th'[u].pc = "evict" /\ th'[u].con = c
      BY <1>1, <2>9
    <3>2. \A c \in Con : Open(c)' <=> Open(c)
      BY <2>11 DEF Open
    <3> QED BY <1>1, <2>11, <3>1, <3>2 DEF CacheOK
  <2> QED BY <2>13, <2>14, <2>17, <2>18, <2>19, <2>20, <2>21, <2>22, <2>23, <2>24
<1> QED BY <1>2, <1>3 DEF dial

\* A descriptor is closed: what is behind it hangs up.
LEMMA CloseFacts ==
  ASSUME TransportType, FdsOK, NEW f \in Fd, fds' = Close(f), socks' = Hang(f)
  PROVE  /\ fds' \in [Fd -> Nat] /\ \A g \in Fd : fds'[g] \in {fds[g], 0} /\ (g # f => fds'[g] = fds[g])
         /\ socks' \in Seq(SocketRecord) /\ Len(socks') = Len(socks)
         /\ \A s \in Sock : /\ socks'[s].peer = socks[s].peer /\ socks'[s].back = socks[s].back
                            /\ socks'[s].out = socks[s].out /\ socks'[s].server = socks[s].server
<1>1. fds \in [Fd -> Nat] /\ socks \in Seq(SocketRecord) /\ Len(socks) \in Nat
  BY SeqDomain DEF TransportType
<1>2. fds' \in [Fd -> Nat] /\ \A g \in Fd : fds'[g] \in {fds[g], 0} /\ (g # f => fds'[g] = fds[g])
  BY <1>1 DEF Close
<1>3. CASE fds[f] = 0
  BY <1>1, <1>2, <1>3 DEF Hang
<1>4. CASE fds[f] # 0
  <2> DEFINE s == fds[f]
             r == [socks[s] EXCEPT !.client = FALSE]
  <2>1. s \in Sock
    BY <1>1, <1>4 DEF FdsOK, Sock
  <2>2. socks' = [socks EXCEPT ![s] = r]
    BY <1>4 DEF Hang
  <2> HIDE DEF s
  <2>3. socks[s] \in SocketRecord
    BY <1>1, <2>1, SeqDomain DEF Sock
  <2>4. r \in SocketRecord /\ r.peer = socks[s].peer /\ r.back = socks[s].back /\ r.out = socks[s].out /\ r.server = socks[s].server
    BY <2>3 DEF SocketRecord
  <2> HIDE DEF r
  <2>5. /\ socks' \in Seq(SocketRecord) /\ Len(socks') = Len(socks)
        /\ socks'[s] = r /\ \A q \in Sock : q # s => socks'[q] = socks[q]
    BY <2>1, <2>2, <2>4, OneSocket
  <2> QED BY <1>2, <2>4, <2>5
<1> QED BY <1>3, <1>4

\* handshake_initiate: an answer, or the descriptor is closed.
LEMMA HandshakeStep ==
  ASSUME TransportInv, NEW t \in Thread, handshake_initiate(t)
  PROVE  TransportInv'
<1> USE DEF TransportInv
<1> DEFINE f == th[t].fd
           s == fds[f]
           answer == Head(socks[s].back)
           good == /\ s # 0 /\ socks[s].back # <<>>
                   /\ answer.kind = "hello" /\ answer.mac = hmac_sha256(OwnCookie, <<s, answer.nonce>>)
<1>1. /\ th[t].pc = "handshake" /\ UNCHANGED <<sys, cons, peers, g_inbound_count, got, sends>>
      /\ good => th' = [th EXCEPT ![t].pc = "recheck"] /\ UNCHANGED <<fds, socks>>
      /\ ~ good => th' = Failing(t) /\ fds' = Close(f) /\ socks' = Hang(f)
  BY DEF handshake_initiate
<1>2. /\ th[t] \in ThreadRecord /\ th[t].peer \in TPeer /\ f \in Fd /\ s # 0
  BY <1>1 DEF TransportType, DialOK, Dialling
<1>3. \E r \in ThreadRecord :
        /\ r.pc # "resting" => r.peer \in TPeer
        /\ th' = [th EXCEPT ![t] = r]
        /\ \/ r.pc = "resting"
           \/ /\ r.pc = "recheck" /\ r.fd = f /\ r.peer = th[t].peer /\ Dialled(t).back # <<>>
              /\ UNCHANGED <<fds, socks>>
        /\ UNCHANGED <<fds, socks>> \/ (r.pc = "resting" /\ fds' = Close(f) /\ socks' = Hang(f))
  <2>1. CASE good
    <3> DEFINE r == [th[t] EXCEPT !.pc = "recheck"]
    <3>1. th' = [th EXCEPT ![t] = r] /\ UNCHANGED <<fds, socks>>
      BY <1>1, <2>1
    <3>2. r \in ThreadRecord /\ r.pc = "recheck" /\ r.fd = th[t].fd /\ r.peer = th[t].peer
      BY <1>2 DEF ThreadRecord
    <3>3. Dialled(t).back # <<>>
      BY <2>1 DEF Dialled
    <3> HIDE DEF r, good
    <3> QED BY <1>2, <3>1, <3>2, <3>3
  <2>2. CASE ~ good
    <3> DEFINE r == [Resting EXCEPT !.failed = TRUE]
    <3>1. th' = [th EXCEPT ![t] = r] /\ fds' = Close(f) /\ socks' = Hang(f)
      BY <1>1, <2>2 DEF Failing
    <3>2. r \in ThreadRecord /\ r.pc = "resting"
      BY RestingFacts
    <3> HIDE DEF r, good, f
    <3> QED BY <3>1, <3>2
  <2> QED BY <2>1, <2>2
<1> HIDE DEF good, s, f
<1>4. PICK r \in ThreadRecord :
        /\ r.pc # "resting" => r.peer \in TPeer
        /\ th' = [th EXCEPT ![t] = r]
        /\ \/ r.pc = "resting"
           \/ /\ r.pc = "recheck" /\ r.fd = f /\ r.peer = th[t].peer /\ Dialled(t).back # <<>>
              /\ UNCHANGED <<fds, socks>>
        /\ UNCHANGED <<fds, socks>> \/ (r.pc = "resting" /\ fds' = Close(f) /\ socks' = Hang(f))
  BY <1>3
<1>5. /\ th' \in [Thread -> ThreadRecord] /\ \A u \in Thread : th'[u].pc # "resting" => th'[u].peer \in TPeer
      /\ th'[t] = r /\ \A u \in Thread : u # t => th'[u] = th[u]
  BY <1>4, OneThread
<1>6. /\ fds' \in [Fd -> Nat] /\ \A g \in Fd : fds'[g] \in {fds[g], 0} /\ (g # f => fds'[g] = fds[g])
      /\ socks' \in Seq(SocketRecord) /\ Len(socks') = Len(socks)
      /\ \A q \in Sock : /\ socks'[q].peer = socks[q].peer /\ socks'[q].back = socks[q].back
                         /\ socks'[q].out = socks[q].out /\ socks'[q].server = socks[q].server
  <2>1. CASE UNCHANGED <<fds, socks>>
    BY <2>1 DEF TransportType
  <2>2. CASE fds' = Close(f) /\ socks' = Hang(f)
    BY <1>2, <2>2, CloseFacts
  <2> QED BY <1>4, <2>1, <2>2
<1>7. \A c \in Con : Open(c) => cons[c].fd \in Fd /\ cons[c].fd # f
  <2>1. \A c \in Con : cons[c] \in ConRecord
    BY SeqDomain DEF TransportType, Con
  <2>2. \A c \in Con : f # cons[c].fd
    BY <1>1 DEF DialOK, Dialling, f
  <2> QED BY <2>1, <2>2 DEF Open, ConRecord, Fd
<1>8. ASSUME NEW u \in Thread, Dialling(u)'
      PROVE  /\ Dialling(u) /\ th'[u].fd = th[u].fd /\ th'[u].peer = th[u].peer
             /\ th'[u].pc = "recheck" => Dialled(u).back # <<>>
             /\ fds'[th[u].fd] = fds[th[u].fd]
  <2>1. CASE u = t
    <3>1. r.pc = "recheck"
      BY <1>4, <1>5, <1>8, <2>1 DEF Dialling
    <3> QED BY <1>1, <1>4, <1>5, <2>1, <3>1 DEF Dialling, f
  <2>2. CASE u # t
    <3>1. th'[u] = th[u] /\ Dialling(u)
      BY <1>5, <1>8, <2>2 DEF Dialling
    <3>2. th[u].fd # f /\ th[u].fd \in Fd
      BY <1>1, <2>2, <3>1 DEF DialOK, Dialling, f
    <3> QED BY <1>6, <3>1, <3>2 DEF DialOK
  <2> QED BY <2>1, <2>2
<1>9. Narrowed
  <2>1. \A u \in Thread, c \in Con : (Writing(u, c)' <=> Writing(u, c)) /\ (Writing(u, c) => th'[u].msg = th[u].msg)
    BY <1>1, <1>4, <1>5 DEF Writing
  <2>2. cons' = cons /\ cons \in Seq(ConRecord)
    BY <1>1 DEF TransportType
  <2>3. \A c \in Con : cons'[c].fd # -1 => fds'[cons[c].fd] = fds[cons[c].fd]
    BY <1>6, <1>7, <2>2 DEF Open
  <2> QED BY <1>1, <1>6, <1>8, <2>1, <2>2, <2>3 DEF Narrowed
<1>10. TransportType'
  BY <1>1, <1>5, <1>6 DEF TransportType, Fd
<1>11. Con' = Con
  BY <1>1 DEF Con
<1>12. LockOK'
  BY <1>1, <1>4, <1>5, <1>11 DEF LockOK
<1>13. CacheOK'
  <2>1. \A c : \A u \in Thread : th[u].pc = "evict" /\ th[u].con = c => th'[u].pc = "evict" /\ th'[u].con = c
    BY <1>1, <1>5
  <2>2. \A c \in Con : Open(c)' <=> Open(c)
    BY <1>1 DEF Open
  <2> QED BY <1>1, <1>11, <2>1, <2>2 DEF CacheOK
<1> QED BY <1>9, <1>10, <1>12, <1>13, NarrowedKeeps

\* The mutex of a connection is taken.
LEMMA LockStep ==
  ASSUME TransportInv, NEW t \in Thread, LockConnection(t)
  PROVE  TransportInv'
<1> USE DEF TransportInv
<1> DEFINE c == th[t].con
           r == [th[t] EXCEPT !.pc = "header"]
           k == [cons[c] EXCEPT !.mutex = t]
<1>1. /\ th[t].pc = "lock" /\ cons[c].mutex = 0 /\ cons' = [cons EXCEPT ![c] = k] /\ th' = [th EXCEPT ![t] = r]
      /\ UNCHANGED <<sys, fds, socks, peers, g_inbound_count, got, sends>>
  BY DEF LockConnection
<1>2. /\ c \in Con /\ cons[c].key = th[t].peer /\ th[t] \in ThreadRecord /\ th[t].peer \in TPeer
      /\ cons \in Seq(ConRecord) /\ \A d \in Con : cons[d] \in ConRecord
  BY <1>1, SeqDomain DEF LockOK, TransportType, Con
<1>3. r \in ThreadRecord /\ r.pc = "header" /\ r.peer = th[t].peer /\ r.con = c
  BY <1>2 DEF ThreadRecord
<1>4. k \in ConRecord /\ k.key = cons[c].key /\ k.fd = cons[c].fd /\ k.mutex = t
  <2> HIDE DEF c
  <2> QED BY <1>2 DEF ConRecord
<1> HIDE DEF r, k, c
<1>5. /\ th' \in [Thread -> ThreadRecord] /\ \A u \in Thread : th'[u].pc # "resting" => th'[u].peer \in TPeer
      /\ th'[t] = r /\ \A u \in Thread : u # t => th'[u] = th[u]
  BY <1>1, <1>2, <1>3, OneThread
<1>6. /\ cons' \in Seq(ConRecord) /\ Len(cons') = Len(cons) /\ Con' = Con
      /\ cons'[c] = k /\ \A d \in Con : d # c => cons'[d] = cons[d]
  BY <1>1, <1>2, <1>4, ExceptSeq DEF Con
<1>7. \A d \in Con : cons'[d].key = cons[d].key /\ cons'[d].fd = cons[d].fd
  BY <1>4, <1>6
<1>8. TransportType'
  BY <1>1, <1>5, <1>6 DEF TransportType, Fd
<1>9. Narrowed
  <2>1. ASSUME NEW u \in Thread, Dialling(u)'
        PROVE  /\ Dialling(u) /\ th'[u].fd = th[u].fd /\ th'[u].peer = th[u].peer
               /\ th'[u].pc = "recheck" => Dialled(u).back # <<>>
    <3>1. th'[u] = th[u]
      BY <1>3, <1>5, <2>1 DEF Dialling
    <3> QED BY <2>1, <3>1 DEF Dialling, DialOK
  <2>2. \A u \in Thread, d \in Con : (Writing(u, d)' <=> Writing(u, d)) /\ (Writing(u, d) => th'[u].msg = th[u].msg)
    BY <1>1, <1>3, <1>5 DEF Writing
  <2>3. socks \in Seq(SocketRecord) /\ fds \in [Fd -> Nat]
    BY DEF TransportType
  <2> QED BY <1>1, <1>6, <1>7, <2>1, <2>2, <2>3 DEF Narrowed
<1>10. LockOK'
  <2> SUFFICES ASSUME NEW u \in Thread
               PROVE  /\ th'[u].pc \in {"lock", "header", "body", "evict"} => th'[u].con \in Con /\ cons'[th'[u].con].key = th'[u].peer
                      /\ th'[u].pc \in {"header", "body"} => cons'[th'[u].con].mutex = u
    BY <1>6 DEF LockOK
  <2>1. CASE u = t
    BY <1>2, <1>3, <1>4, <1>5, <1>6, <2>1
  <2>2. CASE u # t
    <3>1. th'[u] = th[u]
      BY <1>5, <2>2
    <3>2. th[u].pc \in {"header", "body"} => th[u].con # c
      <4>1. 0 \notin Thread
        BY TransportAssumption
      <4> QED BY <1>1, <4>1 DEF LockOK, c
    <3> QED BY <1>6, <1>7, <3>1, <3>2 DEF LockOK
  <2> QED BY <2>1, <2>2
<1>11. CacheOK'
  <2>1. \A d : \A u \in Thread : th[u].pc = "evict" /\ th[u].con = d => th'[u].pc = "evict" /\ th'[u].con = d
    BY <1>1, <1>5
  <2>2. \A d \in Con : Open(d)' <=> Open(d)
    BY <1>7 DEF Open
  <2> QED BY <1>1, <1>6, <1>7, <2>1, <2>2 DEF CacheOK
<1> QED BY <1>8, <1>9, <1>10, <1>11, NarrowedKeeps

\* connection_for: the other thread's connection, or one of its own.
LEMMA ConnectStep ==
  ASSUME TransportInv, NEW t \in Thread, connection_for(t)
  PROVE  TransportInv'
<1> USE DEF TransportInv
<1> DEFINE other == find_connection_locked(th[t].peer)
           f == th[t].fd
           p == th[t].peer
           list == sys.connections
<1>1. th[t].pc = "recheck" /\ sys.mutex = 0 /\ UNCHANGED <<peers, g_inbound_count, got, sends>>
  BY DEF connection_for
<1>2. /\ th[t] \in ThreadRecord /\ p \in TPeer /\ f \in Fd /\ fds[f] # 0 /\ Dialling(t)
      /\ Dialled(t).peer = p /\ Dialled(t).back # <<>>
      /\ Dialled(t).server = "reading" => Dialled(t).out = <<>>
  BY <1>1 DEF TransportType, DialOK, Dialling
<1>3. /\ cons \in Seq(ConRecord) /\ Len(cons) \in Nat /\ \A d \in Con : cons[d] \in ConRecord
      /\ list \in Seq(Nat) /\ DOMAIN list = 1 .. Len(list) /\ Len(list) \in Nat
      /\ socks \in Seq(SocketRecord) /\ fds \in [Fd -> Nat]
  BY SeqDomain DEF TransportType, Con
<1>4. \A d \in Con : Open(d) => cons[d].fd \in Fd /\ cons[d].fd # f
  BY <1>2, <1>3 DEF DialOK, Open, ConRecord, Fd
<1>5. /\ other # 0 => other \in Con /\ cons[other].key = p
      /\ other = 0 => \A i \in DOMAIN list : cons[list[i]].key # p
  BY FindFacts
<1>6. ASSUME NEW u \in Thread, u # t, Dialling(u) PROVE th[u].fd \in Fd /\ th[u].fd # f
  BY <1>2, <1>6 DEF DialOK
<1>7. CASE other # 0
  <2> DEFINE r == [th[t] EXCEPT !.pc = "lock", !.con = other]
  <2>1. th' = [th EXCEPT ![t] = r] /\ fds' = Close(f) /\ socks' = Hang(f) /\ UNCHANGED <<sys, cons>>
    BY <1>7 DEF connection_for
  <2>2. other \in Nat
    BY <1>5, <1>7 DEF Con
  <2> HIDE DEF other
  <2>3. r \in ThreadRecord /\ r.pc = "lock" /\ r.con = other /\ r.peer = p
    BY <1>2, <2>2 DEF ThreadRecord
  <2> HIDE DEF r, f, p
  <2>4. /\ th' \in [Thread -> ThreadRecord] /\ \A u \in Thread : th'[u].pc # "resting" => th'[u].peer \in TPeer
        /\ th'[t] = r /\ \A u \in Thread : u # t => th'[u] = th[u]
    BY <1>2, <2>1, <2>3, OneThread
  <2>5. /\ fds' \in [Fd -> Nat] /\ \A g \in Fd : fds'[g] \in {fds[g], 0} /\ (g # f => fds'[g] = fds[g])
        /\ socks' \in Seq(SocketRecord) /\ Len(socks') = Len(socks)
        /\ \A q \in Sock : /\ socks'[q].peer = socks[q].peer /\ socks'[q].back = socks[q].back
                           /\ socks'[q].out = socks[q].out /\ socks'[q].server = socks[q].server
    BY <1>2, <2>1, CloseFacts
  <2>6. Narrowed
    <3>1. ASSUME NEW u \in Thread, Dialling(u)'
          PROVE  /\ Dialling(u) /\ th'[u].fd = th[u].fd /\ th'[u].peer = th[u].peer
                 /\ th'[u].pc = "recheck" => Dialled(u).back # <<>>
                 /\ fds'[th[u].fd] = fds[th[u].fd]
      <4>1. u # t /\ th'[u] = th[u] /\ Dialling(u)
        BY <2>3, <2>4, <3>1 DEF Dialling
      <4> QED BY <1>6, <2>5, <4>1 DEF DialOK
    <3>2. \A u \in Thread, d \in Con : (Writing(u, d)' <=> Writing(u, d)) /\ (Writing(u, d) => th'[u].msg = th[u].msg)
      BY <1>1, <2>3, <2>4 DEF Writing
    <3>3. \A d \in Con : cons'[d].fd # -1 => fds'[cons[d].fd] = fds[cons[d].fd]
      BY <1>4, <2>1, <2>5 DEF Open
    <3> QED BY <1>1, <1>3, <2>1, <2>5, <3>1, <3>2, <3>3 DEF Narrowed
  <2>7. TransportType'
    BY <1>1, <2>1, <2>4, <2>5 DEF TransportType, Fd
  <2>8. Con' = Con
    BY <2>1 DEF Con
  <2>9. LockOK'
    BY <1>5, <1>7, <2>1, <2>3, <2>4, <2>8 DEF LockOK
  <2>10. CacheOK'
    <3>1. \A d : \A u \in Thread : th[u].pc = "evict" /\ th[u].con = d => th'[u].pc = "evict" /\ th'[u].con = d
      BY <1>1, <2>4
    <3>2. \A d \in Con : Open(d)' <=> Open(d)
      BY <2>1 DEF Open
    <3> QED BY <2>1, <2>8, <3>1, <3>2 DEF CacheOK
  <2> QED BY <2>6, <2>7, <2>9, <2>10, NarrowedKeeps
<1>8. CASE other = 0
  <2>0. PICK c : c = Len(cons) + 1
    OBVIOUS
  <2> DEFINE r == [th[t] EXCEPT !.pc = "lock", !.con = c]
             k == [key |-> p, fd |-> f, mutex |-> 0]
  <2>1. /\ th' = [th EXCEPT ![t] = r] /\ cons' = Append(cons, k)
        /\ sys' = [sys EXCEPT !.connections = <<c>> \o list]
        /\ UNCHANGED <<fds, socks>>
    BY <1>8, <2>0 DEF connection_for
  <2>2. c \in Nat /\ c \notin Con
    BY <1>3, <2>0 DEF Con
  <2>3. k \in ConRecord /\ k.key = p /\ k.fd = f /\ f # -1
    BY <1>2 DEF ConRecord, Fd
  <2>4. r \in ThreadRecord /\ r.pc = "lock" /\ r.con = c /\ r.peer = p
    BY <1>2, <2>2 DEF ThreadRecord
  <2> HIDE DEF r, f, p, k, other
  <2>5. /\ th' \in [Thread -> ThreadRecord] /\ \A u \in Thread : th'[u].pc # "resting" => th'[u].peer \in TPeer
        /\ th'[t] = r /\ \A u \in Thread : u # t => th'[u] = th[u]
    BY <1>2, <2>1, <2>4, OneThread
  <2>6. /\ cons' \in Seq(ConRecord) /\ Con' = Con \cup {c} /\ cons'[c] = k
        /\ \A d \in Con : cons'[d] = cons[d]
    <3>1. /\ cons' \in Seq(ConRecord) /\ Len(cons') = Len(cons) + 1
          /\ \A d \in 1 .. Len(cons) : cons'[d] = cons[d]
          /\ cons'[Len(cons) + 1] = k
      BY <1>3, <2>1, <2>3, AppendProperties
    <3>2. 1 .. (Len(cons) + 1) = (1 .. Len(cons)) \cup {Len(cons) + 1}
      BY <1>3
    <3> QED BY <2>0, <3>1, <3>2 DEF Con
  <2>7. sys' = [sys EXCEPT !.connections = <<c>> \o list] /\ sys'.connections = <<c>> \o list
        /\ sys'.mutex = sys.mutex /\ sys'.todo = sys.todo /\ <<c>> \o list \in Seq(Nat)
        /\ sys' \in [connections : Seq(Nat), mutex : {0, 1}, todo : Seq(Nat), stopped : BOOLEAN]
    <3>1. <<c>> \in Seq(Nat)
      BY <2>2
    <3>2. <<c>> \o list \in Seq(Nat)
      BY <1>3, <3>1, ConcatProperties
    <3>3. sys \in [connections : Seq(Nat), mutex : {0, 1}, todo : Seq(Nat), stopped : BOOLEAN]
      BY DEF TransportType
    <3> HIDE DEF list
    <3> QED BY <2>1, <3>2, <3>3
  <2>8. TransportType'
    BY <1>1, <2>1, <2>5, <2>6, <2>7 DEF TransportType, Fd
  <2>9. FdsOK'
    BY <2>1 DEF FdsOK, Fd
  <2>10. ASSUME NEW u \in Thread, Dialling(u)'
         PROVE  u # t /\ th'[u] = th[u] /\ Dialling(u) /\ Dialled(u)' = Dialled(u) /\ th[u].fd # f
    <3>1. u # t /\ th'[u] = th[u] /\ Dialling(u)
      BY <2>4, <2>5, <2>10 DEF Dialling
    <3> QED BY <1>6, <2>1, <3>1 DEF Dialled
  <2>11. DialOK'
    <3>1. ASSUME NEW u \in Thread, NEW d \in Con', Dialling(u)' PROVE th'[u].fd # cons'[d].fd
      <4>1. CASE d = c
        BY <2>3, <2>6, <2>10, <3>1, <4>1
      <4>2. CASE d # c
        <5>1. d \in Con /\ cons'[d] = cons[d]
          BY <2>6, <4>2
        <5> QED BY <2>10, <3>1, <5>1 DEF DialOK
      <4> QED BY <4>1, <4>2
    <3>2. \A u \in Thread : Dialling(u)' =>
             /\ th'[u].fd \in Fd /\ fds'[th'[u].fd] # 0
             /\ Dialled(u)'.peer = th'[u].peer
             /\ Dialled(u)'.server = "reading" => Dialled(u)'.out = <<>>
             /\ th'[u].pc = "recheck" => Dialled(u)'.back # <<>>
      BY <2>1, <2>10 DEF DialOK
    <3>3. \A u, v \in Thread : Dialling(u)' /\ Dialling(v)' /\ th'[u].fd = th'[v].fd => u = v
      BY <2>10 DEF DialOK
    <3>4. Fd' = Fd
      BY DEF Fd
    <3> QED BY <3>1, <3>2, <3>3, <3>4 DEF DialOK
  <2>12. /\ Line(c)' = Dialled(t) /\ Open(c)'
         /\ \A d \in Con : (Open(d)' <=> Open(d)) /\ Line(d)' = Line(d)
    BY <2>1, <2>3, <2>6 DEF Line, Dialled, Open, f
  <2>13. ConsOK'
    <3>1. ASSUME NEW d \in Con', Open(d)'
          PROVE  fds'[cons'[d].fd] # 0 /\ Line(d)'.peer = cons'[d].key /\ Line(d)'.back # <<>>
      <4>1. CASE d = c
        BY <1>2, <2>1, <2>3, <2>6, <2>12, <4>1
      <4>2. CASE d # c
        BY <2>1, <2>6, <2>12, <3>1, <4>2 DEF ConsOK
      <4> QED BY <4>1, <4>2
    <3>2. ASSUME NEW d \in Con', NEW e \in Con', Open(d)', cons'[d].fd = cons'[e].fd PROVE d = e
      <4>1. \A x \in Con : cons'[x].fd # f
        BY <1>4, <2>3, <2>6 DEF Open
      <4> QED BY <2>3, <2>6, <2>12, <3>2, <4>1 DEF ConsOK
    <3> QED BY <3>1, <3>2 DEF ConsOK
  <2>14. LockOK'
    BY <2>3, <2>4, <2>5, <2>6 DEF LockOK
  <2>15. SocketsOK'
    <3>1. \A x : Letter(x)' = Letter(x)
      BY DEF Letter, Hello, hmac_sha256
    <3> QED BY <1>1, <2>1, <3>1 DEF SocketsOK, Sock
  <2>16. HalfFrames'
    <3>1. ASSUME NEW d \in Con', Open(d)', Line(d)'.server = "reading"
          PROVE  /\ (\A u \in Thread : ~ Writing(u, d)') => Len(Line(d)'.out) % 2 = 0
                 /\ \A u \in Thread : Writing(u, d)' =>
                      Len(Line(d)'.out) % 2 = 1 /\ Line(d)'.out[Len(Line(d)'.out)].msg = th'[u].msg
      <4>1. CASE d = c
        <5>1. \A u \in Thread : ~ Writing(u, c)'
          BY <2>2, <2>4, <2>5 DEF Writing, LockOK
        <5>2. Len(Line(c)'.out) = 0
          BY <1>2, <2>12, <3>1, <4>1, EmptySeq
        <5>3. 0 % 2 = 0
          OBVIOUS
        <5> QED BY <4>1, <5>1, <5>2, <5>3
      <4>2. CASE d # c
        <5>1. d \in Con
          BY <2>6, <4>2
        <5>2. \A u \in Thread : (Writing(u, d)' <=> Writing(u, d)) /\ (Writing(u, d) => th'[u].msg = th[u].msg)
          BY <1>1, <2>4, <2>5 DEF Writing
        <5> QED BY <2>12, <3>1, <5>1, <5>2 DEF HalfFrames
      <4> QED BY <4>1, <4>2
    <3> QED BY <3>1 DEF HalfFrames
  <2>17. Arrived' /\ InboundCounted'
    <3>1. Steady
      BY <1>1 DEF Steady
    <3>2. Inbounds' = Inbounds
      BY <2>1 DEF Inbounds
    <3> QED BY <1>1, <3>1, <3>2, ArrivedStays, Recounted
  <2>18. CacheOK'
    <3>1. /\ DOMAIN (<<c>> \o list) = 1 .. Len(list) + 1 /\ (<<c>> \o list)[1] = c
          /\ \A i \in 2 .. Len(list) + 1 : i - 1 \in DOMAIN list /\ (<<c>> \o list)[i] = list[i - 1]
      <4>1. <<c>> \in Seq(Nat) /\ Len(<<c>>) = 1 /\ <<c>>[1] = c
        BY <2>2
      <4>2. /\ Len(<<c>> \o list) = 1 + Len(list)
            /\ \A i \in 1 .. 1 + Len(list) : (<<c>> \o list)[i] = IF i <= 1 THEN <<c>>[i] ELSE list[i - 1]
        BY <1>3, <4>1, ConcatProperties
      <4>3. DOMAIN (<<c>> \o list) = 1 .. Len(list) + 1
        BY <1>3, <2>7, <4>2, SeqDomain
      <4> HIDE DEF list
      <4> QED BY <1>3, <4>1, <4>2, <4>3
    <3> DEFINE new == <<c>> \o list
    <3>2. \A i \in DOMAIN list : list[i] \in Con /\ cons[list[i]].key # p
      BY <1>5, <1>8 DEF CacheOK
    <3>3. sys'.connections = new /\ DOMAIN new = 1 .. Len(list) + 1 /\ new[1] = c
          /\ \A i \in 2 .. Len(list) + 1 : i - 1 \in DOMAIN list /\ new[i] = list[i - 1]
      BY <2>7, <3>1
    <3> HIDE DEF new, list
    <3>4. \A i \in DOMAIN new : i = 1 \/ i \in 2 .. Len(list) + 1
      BY <1>3, <3>3
    <3>5. \A i \in DOMAIN new : new[i] \in Con'
      BY <2>6, <3>2, <3>3, <3>4
    <3>6. \A i \in DOMAIN sys'.todo : sys'.todo[i] \in Con'
      BY <2>6, <2>7 DEF CacheOK
    <3>7. ASSUME NEW i \in DOMAIN new, NEW j \in DOMAIN new, i # j PROVE cons'[new[i]].key # cons'[new[j]].key
      <4>1. CASE i = 1
        <5>1. j \in 2 .. Len(list) + 1
          BY <3>4, <3>7, <4>1
        <5> QED BY <2>3, <2>6, <3>2, <3>3, <4>1, <5>1
      <4>2. CASE j = 1
        <5>1. i \in 2 .. Len(list) + 1
          BY <3>4, <3>7, <4>2
        <5> QED BY <2>3, <2>6, <3>2, <3>3, <4>2, <5>1
      <4>3. CASE i # 1 /\ j # 1
        <5>1. i \in 2 .. Len(list) + 1 /\ j \in 2 .. Len(list) + 1
          BY <3>4, <4>3
        <5>2. i - 1 \in DOMAIN list /\ j - 1 \in DOMAIN list /\ i - 1 # j - 1 /\ new[i] = list[i - 1] /\ new[j] = list[j - 1]
          BY <3>3, <3>7, <5>1
        <5>3. cons[list[i - 1]].key # cons[list[j - 1]].key
          BY <5>2 DEF CacheOK, list
        <5> QED BY <2>6, <3>2, <5>2, <5>3
      <4> QED BY <4>1, <4>2, <4>3
    <3>8. ASSUME NEW i \in DOMAIN new, NEW d, d = new[i]
          PROVE  Open(d)' \/ sys'.mutex = 1 \/ \E u \in Thread : th'[u].pc = "evict" /\ th'[u].con = d
      <4>1. CASE i = 1
        BY <2>12, <3>3, <3>8, <4>1
      <4>2. CASE i \in 2 .. Len(list) + 1
        <5>1. d = list[i - 1] /\ i - 1 \in DOMAIN list
          BY <3>3, <3>8, <4>2
        <5>2. Open(d) \/ sys.mutex = 1 \/ \E u \in Thread : th[u].pc = "evict" /\ th[u].con = d
          BY <5>1 DEF CacheOK, list
        <5>3. \A u \in Thread : th[u].pc = "evict" => th'[u] = th[u]
          BY <1>1, <2>5
        <5>4. d \in Con
          BY <3>2, <5>1
        <5> QED BY <2>7, <2>12, <5>2, <5>3, <5>4
      <4> QED BY <3>4, <4>1, <4>2
    <3>9. \A i \in DOMAIN new : cons'[new[i]].fd # -1 \/ sys'.mutex = 1
             \/ \E u \in Thread : th'[u].pc = "evict" /\ th'[u].con = new[i]
      BY <3>8 DEF Open
    <3> QED BY <3>3, <3>5, <3>6, <3>7, <3>9 DEF CacheOK, Open
  <2> QED BY <2>8, <2>9, <2>11, <2>13, <2>14, <2>15, <2>16, <2>17, <2>18
<1> QED BY <1>7, <1>8

\* A dead connection leaves the cache.
LEMMA EvictStep ==
  ASSUME TransportInv, NEW t \in Thread, Evict(t)
  PROVE  TransportInv'
<1> USE DEF TransportInv
<1> DEFINE list == sys.connections
           r == [Resting EXCEPT !.failed = TRUE]
<1>0. PICK c : c = th[t].con
  OBVIOUS
<1> DEFINE S == {i \in DOMAIN list : list[i] # c}
           new == Sublist(list, S)
<1>1. /\ th[t].pc = "evict" /\ sys.mutex = 0
      /\ sys' = [sys EXCEPT !.connections = new] /\ th' = [th EXCEPT ![t] = r]
      /\ UNCHANGED <<cons, fds, socks, peers, g_inbound_count, got, sends>>
  BY <1>0 DEF Evict, Failing
<1>2. r \in ThreadRecord /\ r.pc = "resting"
  BY RestingFacts
<1>3. /\ sys \in [connections : Seq(Nat), mutex : {0, 1}, todo : Seq(Nat), stopped : BOOLEAN]
      /\ list \in Seq(Nat) /\ DOMAIN list = 1 .. Len(list) /\ Len(list) \in Nat
      /\ cons \in Seq(ConRecord) /\ socks \in Seq(SocketRecord) /\ fds \in [Fd -> Nat]
  BY SeqDomain DEF TransportType
<1> HIDE DEF r, list
<1>4. S \in SUBSET (1 .. Len(list))
  BY <1>3
<1> HIDE DEF S
<1>5. /\ new \in Seq(Nat) /\ DOMAIN new = 1 .. Cardinality(S)
      /\ \A i \in DOMAIN new : InOrder(S)[i] \in S /\ new[i] = list[InOrder(S)[i]]
      /\ \A i, j \in DOMAIN new : InOrder(S)[i] = InOrder(S)[j] => i = j
  <2>1. /\ new \in Seq(Nat) /\ Len(new) = Cardinality(S)
        /\ \A i \in 1 .. Cardinality(S) : InOrder(S)[i] \in S /\ new[i] = list[InOrder(S)[i]]
    <3>1. list \in Seq(Nat) /\ S \in SUBSET (1 .. Len(list))
      BY <1>3, <1>4
    <3> QED BY SMTT(60), <3>1, SublistFacts
  <2>2. DOMAIN new = 1 .. Len(new)
    BY <2>1, SeqDomain
  <2>3. \A i, j \in 1 .. Cardinality(S) : InOrder(S)[i] = InOrder(S)[j] => i = j
    BY <1>3, <1>4, OrderFacts
  <2> QED BY <2>1, <2>2, <2>3
<1> HIDE DEF new
<1>6. /\ th' \in [Thread -> ThreadRecord] /\ \A u \in Thread : th'[u].pc # "resting" => th'[u].peer \in TPeer
      /\ th'[t] = r /\ \A u \in Thread : u # t => th'[u] = th[u]
  BY <1>1, <1>2, OneThread
<1>7. /\ sys' \in [connections : Seq(Nat), mutex : {0, 1}, todo : Seq(Nat), stopped : BOOLEAN]
      /\ sys'.connections = new /\ sys'.todo = sys.todo /\ sys'.mutex = sys.mutex
  BY <1>1, <1>3, <1>5
<1>8. TransportType'
  BY <1>1, <1>6, <1>7 DEF TransportType, Fd
<1>9. Narrowed
  <2>1. ASSUME NEW u \in Thread, Dialling(u)'
        PROVE  /\ Dialling(u) /\ th'[u].fd = th[u].fd /\ th'[u].peer = th[u].peer
               /\ th'[u].pc = "recheck" => Dialled(u).back # <<>>
    <3>1. th'[u] = th[u]
      BY <1>2, <1>6, <2>1 DEF Dialling
    <3> QED BY <2>1, <3>1 DEF Dialling, DialOK
  <2>2. \A u \in Thread, d \in Con : (Writing(u, d)' <=> Writing(u, d)) /\ (Writing(u, d) => th'[u].msg = th[u].msg)
    BY <1>1, <1>2, <1>6 DEF Writing
  <2> QED BY <1>1, <1>3, <2>1, <2>2 DEF Narrowed
<1>10. Con' = Con
  BY <1>1 DEF Con
<1>11. LockOK'
  BY <1>1, <1>2, <1>6, <1>10 DEF LockOK
<1>12. CacheOK'
  <2>1. \A i \in DOMAIN list : /\ list[i] \in Con
                               /\ Open(list[i]) \/ sys.mutex = 1 \/ \E u \in Thread : th[u].pc = "evict" /\ th[u].con = list[i]
    BY DEF CacheOK, list
  <2>2. \A i, j \in DOMAIN list : i # j => cons[list[i]].key # cons[list[j]].key
    BY DEF CacheOK, list
  <2>3. \A i \in DOMAIN new : InOrder(S)[i] \in DOMAIN list /\ new[i] = list[InOrder(S)[i]] /\ new[i] # c
    BY <1>5 DEF S
  <2>4. \A i, j \in DOMAIN new : i # j => cons[new[i]].key # cons[new[j]].key
    BY <1>5, <2>2, <2>3
  <2>5. ASSUME NEW i \in DOMAIN new
        PROVE  /\ new[i] \in Con
               /\ cons[new[i]].fd # -1 \/ \E u \in Thread : th'[u].pc = "evict" /\ th'[u].con = new[i]
    <3>1. /\ new[i] \in Con /\ new[i] # c
          /\ cons[new[i]].fd # -1 \/ \E u \in Thread : th[u].pc = "evict" /\ th[u].con = new[i]
      BY <1>1, <2>1, <2>3 DEF Open
    <3> QED BY <1>0, <1>6, <3>1
  <2> QED BY <1>1, <1>7, <1>10, <2>4, <2>5 DEF CacheOK, Open
<1> QED BY <1>8, <1>9, <1>11, <1>12, NarrowedKeeps

\* stop-node! takes the mutex, or gives it back and leaves no connection.
LEMMA StopStep ==
  ASSUME TransportInv, StopBegin \/ StopEnd
  PROVE  TransportInv'
<1> USE DEF TransportInv
<1>1. UNCHANGED <<th, cons, fds, socks, peers, g_inbound_count, got, sends>>
  BY DEF StopBegin, StopEnd
<1>2. /\ sys \in [connections : Seq(Nat), mutex : {0, 1}, todo : Seq(Nat), stopped : BOOLEAN]
      /\ cons \in Seq(ConRecord) /\ socks \in Seq(SocketRecord) /\ fds \in [Fd -> Nat]
  BY DEF TransportType
<1>3. /\ sys' \in [connections : Seq(Nat), mutex : {0, 1}, todo : Seq(Nat), stopped : BOOLEAN]
      /\ \/ sys'.mutex = 1 /\ sys'.connections = sys.connections /\ sys'.todo = sys.connections
         \/ sys'.connections = <<>> /\ sys'.todo = sys.todo
  <2>1. CASE StopBegin
    <3>1. sys' = [sys EXCEPT !.mutex = 1, !.todo = sys.connections]
      BY <2>1 DEF StopBegin
    <3> QED BY <1>2, <3>1
  <2>2. CASE StopEnd
    <3>1. sys' = [sys EXCEPT !.mutex = 0, !.stopped = TRUE, !.connections = <<>>]
      BY <2>2 DEF StopEnd
    <3> QED BY <1>2, <3>1, EmptySeq
  <2> QED BY <2>1, <2>2
<1>4. TransportType'
  BY <1>1, <1>3 DEF TransportType, Fd
<1>5. Narrowed
  BY <1>1, <1>2 DEF Narrowed, Dialling, DialOK, Writing
<1>6. LockOK'
  BY <1>1 DEF LockOK, Con
<1>7. CacheOK'
  <2>1. DOMAIN <<>> = {}
    OBVIOUS
  <2>2. Con' = Con
    BY <1>1 DEF Con
  <2> QED BY <1>1, <1>3, <2>1, <2>2 DEF CacheOK, Open
<1> QED BY <1>4, <1>5, <1>6, <1>7, NarrowedKeeps

\* The descriptor of a connection is closed with the connection: nobody else
\* has it.
LEMMA Disconnected ==
  ASSUME TransportInv, NEW c \in Con, NEW k \in ConRecord, k.key = cons[c].key, k.fd = -1,
         cons' = [cons EXCEPT ![c] = k],
         fds' = (IF cons[c].fd = -1 THEN fds ELSE Close(cons[c].fd)),
         socks' = (IF cons[c].fd = -1 THEN socks ELSE Hang(cons[c].fd)),
         UNCHANGED <<peers, g_inbound_count, got>>,
         \A t \in Thread : \/ th'[t] = th[t]
                           \/ th[t].pc \in {"header", "body"} /\ th[t].con = c /\ th'[t].pc = "evict"
  PROVE  /\ Narrowed /\ Con' = Con
         /\ cons'[c] = k /\ \A d \in Con : d # c => cons'[d] = cons[d]
         /\ \A d \in Con : cons'[d].key = cons[d].key
<1> USE DEF TransportInv
<1>1. /\ cons \in Seq(ConRecord) /\ \A d \in Con : cons[d] \in ConRecord
      /\ socks \in Seq(SocketRecord) /\ fds \in [Fd -> Nat]
  BY SeqDomain DEF TransportType, Con
<1>2. /\ cons' \in Seq(ConRecord) /\ Len(cons') = Len(cons) /\ Con' = Con
      /\ cons'[c] = k /\ \A d \in Con : d # c => cons'[d] = cons[d]
  BY <1>1, ExceptSeq DEF Con
<1>3. \A d \in Con : cons'[d].key = cons[d].key
  BY <1>2
<1>4. \A d \in Con : cons[d].fd # -1 => cons[d].fd \in Fd
  BY <1>1 DEF ConRecord, Fd
<1>5. /\ fds' \in [Fd -> Nat] /\ \A g \in Fd : fds'[g] \in {fds[g], 0} /\ (g # cons[c].fd => fds'[g] = fds[g])
      /\ socks' \in Seq(SocketRecord) /\ Len(socks') = Len(socks)
      /\ \A q \in Sock : /\ socks'[q].peer = socks[q].peer /\ socks'[q].back = socks[q].back
                         /\ socks'[q].out = socks[q].out /\ socks'[q].server = socks[q].server
  <2>1. CASE cons[c].fd = -1
    BY <1>1, <2>1
  <2>2. CASE cons[c].fd # -1
    BY <1>4, <2>2, CloseFacts
  <2> QED BY <2>1, <2>2
<1>6. ASSUME NEW d \in Con, cons'[d].fd # -1
      PROVE  d # c /\ cons'[d].fd = cons[d].fd /\ fds'[cons[d].fd] = fds[cons[d].fd]
  <2>1. d # c /\ cons'[d].fd = cons[d].fd /\ cons[d].fd \in Fd
    BY <1>2, <1>4, <1>6
  <2>2. cons[d].fd # cons[c].fd
    BY <1>6, <2>1 DEF ConsOK, Open
  <2> QED BY <1>5, <2>1, <2>2
<1>7. ASSUME NEW u \in Thread, Dialling(u)'
      PROVE  /\ Dialling(u) /\ th'[u].fd = th[u].fd /\ th'[u].peer = th[u].peer
             /\ th'[u].pc = "recheck" => Dialled(u).back # <<>>
             /\ fds'[th[u].fd] = fds[th[u].fd]
  <2>1. th'[u] = th[u] /\ Dialling(u)
    BY <1>7 DEF Dialling
  <2> QED BY <1>5, <2>1 DEF DialOK, Dialling
<1>8. ASSUME NEW u \in Thread, NEW d \in Con, cons'[d].fd # -1
      PROVE  (Writing(u, d)' <=> Writing(u, d)) /\ (Writing(u, d) => th'[u].msg = th[u].msg)
  <2>1. d # c
    BY <1>6, <1>8
  <2> QED BY <2>1 DEF Writing
<1>9. Narrowed
  BY <1>2, <1>3, <1>5, <1>6, <1>7, <1>8 DEF Narrowed
<1> QED BY <1>2, <1>3, <1>9

\* stop-node! closes a connection when its mutex is free.
LEMMA StopConnectionStep ==
  ASSUME TransportInv, StopConnection
  PROVE  TransportInv'
<1> USE DEF TransportInv
<1>0. PICK c : c = Head(sys.todo)
  OBVIOUS
<1> DEFINE k == [cons[c] EXCEPT !.fd = -1]
<1>1. /\ sys.mutex = 1 /\ sys.todo # <<>> /\ cons[c].mutex = 0
      /\ fds' = (IF cons[c].fd = -1 THEN fds ELSE Close(cons[c].fd))
      /\ socks' = (IF cons[c].fd = -1 THEN socks ELSE Hang(cons[c].fd))
      /\ cons' = [cons EXCEPT ![c] = k] /\ sys' = [sys EXCEPT !.todo = Tail(@)]
      /\ UNCHANGED <<th, peers, g_inbound_count, got, sends>>
  BY <1>0 DEF StopConnection
<1>2. sys \in [connections : Seq(Nat), mutex : {0, 1}, todo : Seq(Nat), stopped : BOOLEAN] /\ sys.todo \in Seq(Nat)
  BY DEF TransportType
<1>3. /\ Tail(sys.todo) \in Seq(Nat) /\ DOMAIN Tail(sys.todo) = 1 .. Len(sys.todo) - 1
      /\ \A i \in DOMAIN Tail(sys.todo) : Tail(sys.todo)[i] = sys.todo[i + 1] /\ i + 1 \in DOMAIN sys.todo
      /\ 1 \in DOMAIN sys.todo /\ c = sys.todo[1]
  <2>1. /\ Tail(sys.todo) \in Seq(Nat) /\ Len(Tail(sys.todo)) = Len(sys.todo) - 1
        /\ \A i \in 1 .. Len(Tail(sys.todo)) : Tail(sys.todo)[i] = sys.todo[i + 1]
    BY <1>1, <1>2, HeadTailProperties
  <2>2. DOMAIN Tail(sys.todo) = 1 .. Len(Tail(sys.todo)) /\ DOMAIN sys.todo = 1 .. Len(sys.todo) /\ Len(sys.todo) \in Nat
    BY <1>2, <2>1, SeqDomain
  <2>3. Len(sys.todo) # 0 /\ c = sys.todo[1]
    BY <1>0, <1>1, <1>2
  <2> QED BY <2>1, <2>2, <2>3
<1>4. c \in Con /\ \A i \in DOMAIN Tail(sys.todo) : Tail(sys.todo)[i] \in Con
  BY <1>3 DEF CacheOK
<1>5. cons[c] \in ConRecord
  BY <1>4, SeqDomain DEF TransportType, Con
<1>6. k \in ConRecord /\ k.key = cons[c].key /\ k.fd = -1 /\ k.mutex = cons[c].mutex
  BY <1>5 DEF ConRecord
<1> HIDE DEF k
<1>7. /\ Narrowed /\ Con' = Con
      /\ cons'[c] = k /\ \A d \in Con : d # c => cons'[d] = cons[d]
      /\ \A d \in Con : cons'[d].key = cons[d].key
  BY <1>1, <1>4, <1>6, Disconnected
<1>8. /\ sys' \in [connections : Seq(Nat), mutex : {0, 1}, todo : Seq(Nat), stopped : BOOLEAN]
      /\ sys'.connections = sys.connections /\ sys'.mutex = 1 /\ sys'.todo = Tail(sys.todo)
  BY <1>1, <1>2, <1>3
<1>9. TransportType'
  BY <1>1, <1>7, <1>8 DEF TransportType, Fd, Narrowed
<1>10. LockOK'
  <2>1. \A d \in Con : cons'[d].mutex = cons[d].mutex
    BY <1>6, <1>7
  <2> QED BY <1>1, <1>7, <2>1 DEF LockOK
<1>11. CacheOK'
  <2>1. /\ \A i \in DOMAIN sys.connections : sys.connections[i] \in Con
        /\ \A i, j \in DOMAIN sys.connections : i # j => cons[sys.connections[i]].key # cons[sys.connections[j]].key
    BY DEF CacheOK
  <2>2. \A i \in DOMAIN sys'.todo : sys'.todo[i] \in Con'
    BY <1>4, <1>7, <1>8
  <2>3. /\ \A i \in DOMAIN sys'.connections : sys'.connections[i] \in Con'
        /\ \A i, j \in DOMAIN sys'.connections :
             i # j => cons'[sys'.connections[i]].key # cons'[sys'.connections[j]].key
    BY <1>7, <1>8, <2>1
  <2> QED BY <1>8, <2>2, <2>3 DEF CacheOK
<1> QED BY <1>7, <1>9, <1>10, <1>11, NarrowedKeeps

\* A write that fails closes the connection and gives its mutex back.
LEMMA WriteFailsStep ==
  ASSUME TransportInv, NEW t \in Thread, th[t].pc \in {"header", "body"}, NEW c, c = th[t].con,
         th' = [th EXCEPT ![t].pc = "evict"],
         cons' = GiveUp(c),
         fds' = (IF cons[c].fd = -1 THEN fds ELSE Close(cons[c].fd)),
         socks' = (IF cons[c].fd = -1 THEN socks ELSE Hang(cons[c].fd)),
         UNCHANGED <<sys, peers, g_inbound_count, got, sends>>
  PROVE  TransportInv'
<1> USE DEF TransportInv
<1> DEFINE r == [th[t] EXCEPT !.pc = "evict"]
           k == [cons[c] EXCEPT !.fd = -1, !.mutex = 0]
<1>1. c \in Con /\ cons[c].key = th[t].peer /\ cons[c].mutex = t /\ th[t].peer \in TPeer /\ th[t] \in ThreadRecord
  BY DEF LockOK, TransportType
<1>2. cons[c] \in ConRecord
  BY <1>1, SeqDomain DEF TransportType, Con
<1>3. cons' = [cons EXCEPT ![c] = k] /\ th' = [th EXCEPT ![t] = r]
  BY DEF GiveUp
<1>4. k \in ConRecord /\ k.key = cons[c].key /\ k.fd = -1
  BY <1>2 DEF ConRecord
<1>5. r \in ThreadRecord /\ r.pc = "evict" /\ r.con = c /\ r.peer = th[t].peer
  BY <1>1 DEF ThreadRecord
<1> HIDE DEF k, r
<1>6. /\ th' \in [Thread -> ThreadRecord] /\ \A u \in Thread : th'[u].pc # "resting" => th'[u].peer \in TPeer
      /\ th'[t] = r /\ \A u \in Thread : u # t => th'[u] = th[u]
  BY <1>1, <1>3, <1>5, OneThread
<1>7. /\ Narrowed /\ Con' = Con
      /\ cons'[c] = k /\ \A d \in Con : d # c => cons'[d] = cons[d]
      /\ \A d \in Con : cons'[d].key = cons[d].key
  <2>1. \A u \in Thread : \/ th'[u] = th[u]
                          \/ th[u].pc \in {"header", "body"} /\ th[u].con = c /\ th'[u].pc = "evict"
    BY <1>5, <1>6
  <2> QED BY <1>1, <1>3, <1>4, <2>1, Disconnected
<1>8. TransportType'
  BY <1>6, <1>7 DEF TransportType, Fd, Narrowed
<1>9. LockOK'
  <2>1. ASSUME NEW u \in Thread
        PROVE  /\ th'[u].pc \in {"lock", "header", "body", "evict"} => th'[u].con \in Con /\ cons'[th'[u].con].key = th'[u].peer
               /\ th'[u].pc \in {"header", "body"} => cons'[th'[u].con].mutex = u
    <3>1. CASE u = t
      BY <1>1, <1>5, <1>6, <1>7, <3>1
    <3>2. CASE u # t
      <4>1. th'[u] = th[u]
        BY <1>6, <3>2
      <4>2. th[u].pc \in {"header", "body"} => th[u].con # c
        BY <1>1, <3>2 DEF LockOK
      <4> QED BY <1>7, <4>1, <4>2 DEF LockOK
    <3> QED BY <3>1, <3>2
  <2> QED BY <1>7, <2>1 DEF LockOK
<1>10. CacheOK'
  <2>1. \A d \in Con : cons[d].fd # -1 => cons'[d].fd # -1 \/ d = c
    BY <1>7
  <2>2. \A u \in Thread : th[u].pc = "evict" => th'[u] = th[u]
    BY <1>6
  <2>3. th'[t].pc = "evict" /\ th'[t].con = c
    BY <1>5, <1>6
  <2>4. ASSUME NEW d \in Con,
               cons[d].fd # -1 \/ sys.mutex = 1 \/ \E u \in Thread : th[u].pc = "evict" /\ th[u].con = d
        PROVE  cons'[d].fd # -1 \/ sys.mutex = 1 \/ \E u \in Thread : th'[u].pc = "evict" /\ th'[u].con = d
    BY <2>1, <2>2, <2>3, <2>4
  <2> QED BY <1>7, <2>4 DEF CacheOK, Open
<1> QED BY <1>7, <1>8, <1>9, <1>10, NarrowedKeeps

\* write_frame_fd: the next half of this thread's frame.
LEMMA WriteStep ==
  ASSUME TransportInv, NEW t \in Thread, write_frame_fd(t)
  PROVE  TransportInv'
<1> USE DEF TransportInv
<1>0. PICK c, f, s : c = th[t].con /\ f = cons[c].fd /\ s = fds[f]
  OBVIOUS
<1> DEFINE x == th[t].msg
           p == th[t].peer
           kind == th[t].pc
           piece == Piece(kind, x, p)
           failing == f = -1 \/ (f # -1 /\ ~ Writable(f))
<1>1. kind \in {"header", "body"} /\ UNCHANGED <<sys, peers, g_inbound_count, got, sends>>
  BY DEF write_frame_fd
<1>2. /\ c \in Con /\ cons[c].key = p /\ cons[c].mutex = t /\ th[t] \in ThreadRecord /\ p \in TPeer /\ x \in Nat
  BY <1>0, <1>1 DEF LockOK, TransportType, ThreadRecord
<1>3. CASE failing
  <2>1. /\ th' = [th EXCEPT ![t].pc = "evict"] /\ cons' = GiveUp(c)
        /\ fds' = (IF f = -1 THEN fds ELSE Close(f))
        /\ socks' = (IF f = -1 THEN socks ELSE Hang(f))
    BY <1>0, <1>3 DEF write_frame_fd
  <2> QED BY <1>0, <1>1, <2>1, WriteFailsStep
<1>4. CASE ~ failing
  <2>1. f # -1 /\ Writable(f)
    BY <1>4
  <2> DEFINE r == IF kind = "header" THEN [th[t] EXCEPT !.pc = "body"] ELSE Resting
             k == [cons[c] EXCEPT !.mutex = IF kind = "body" THEN 0 ELSE @]
             line == socks[s]
             more == Append(line.out, piece)
             l == [line EXCEPT !.out = more]
  <2>2. /\ socks' = [socks EXCEPT ![s] = l] /\ th' = [th EXCEPT ![t] = r]
        /\ cons' = [cons EXCEPT ![c] = k] /\ fds' = fds
    BY <1>0, <1>4 DEF write_frame_fd
  <2>3. /\ cons \in Seq(ConRecord) /\ \A d \in Con : cons[d] \in ConRecord
        /\ socks \in Seq(SocketRecord) /\ DOMAIN socks = Sock /\ \A q \in Sock : socks[q] \in SocketRecord
        /\ Len(socks) \in Nat /\ fds \in [Fd -> Nat]
    BY SeqDomain DEF TransportType, Con, Sock
  <2>4. f \in Fd /\ s # 0 /\ s \in Sock /\ Open(c) /\ Line(c) = line /\ line.peer = p /\ line.back # <<>>
    <3>1. f \in Fd /\ Open(c) /\ Line(c) = line /\ s # 0
      BY <1>0, <1>2, <2>1, <2>3 DEF ConRecord, Fd, Open, Line, Writable
    <3>2. s \in Sock
      BY <1>0, <2>3, <3>1 DEF FdsOK, Sock
    <3> QED BY <1>2, <3>1, <3>2 DEF ConsOK
  <2>5. line \in SocketRecord /\ line.out \in Seq(Item) /\ line.server = "reading" /\ Framed(line.out, p)
    <3>1. line \in SocketRecord
      BY <2>3, <2>4
    <3>2. line.server = "reading"
      <4>1. line.server # "closed"
        BY <1>0, <2>1 DEF Writable
      <4>2. line.server \notin {"pending", "greeting"}
        BY <2>4 DEF SocketsOK
      <4> HIDE DEF line
      <4> QED BY <3>1, <4>1, <4>2 DEF SocketRecord
    <3>3. Framed(line.out, p)
      BY <2>4, <3>2 DEF SocketsOK
    <3> HIDE DEF line
    <3> QED BY <3>1, <3>2, <3>3 DEF SocketRecord
  <2>6. /\ kind = "header" => Len(line.out) % 2 = 0
        /\ kind = "body" => Len(line.out) % 2 = 1 /\ line.out[Len(line.out)].msg = x
    <3>1. kind = "header" => \A u \in Thread : ~ Writing(u, c)
      <4>1. \A u \in Thread : Writing(u, c) => u = t
        BY <1>2 DEF LockOK, Writing
      <4> QED BY <4>1 DEF Writing
    <3>2. kind = "body" => Writing(t, c)
      BY <1>0 DEF Writing
    <3>3. /\ (\A u \in Thread : ~ Writing(u, c)) => Len(line.out) % 2 = 0
          /\ Writing(t, c) => Len(line.out) % 2 = 1 /\ line.out[Len(line.out)].msg = x
      BY <1>2, <2>4, <2>5 DEF HalfFrames
    <3> QED BY <3>1, <3>2, <3>3
  <2>7. /\ more \in Seq(Item) /\ Framed(more, p) /\ Len(more) = Len(line.out) + 1 /\ more[Len(more)].msg = x
        /\ Len(line.out) \in Nat
    <3> HIDE DEF line, x, p, kind
    <3>1. p \in TPeer /\ x \in Nat /\ kind \in {"header", "body"}
      BY <1>1, <1>2
    <3>2. line.out \in Seq(Item) /\ Framed(line.out, p)
      BY <2>5
    <3>3. Len(line.out) \in Nat
      BY <3>2, SeqDomain
    <3>4. /\ more \in Seq(Item) /\ Framed(more, p) /\ Len(more) = Len(line.out) + 1
          /\ more[Len(more)].msg = x
      BY <2>6, <3>1, <3>2, FramedAppend
    <3> QED BY <3>3, <3>4
  <2>8. l \in SocketRecord /\ l.peer = p /\ l.back = line.back /\ l.server = "reading" /\ l.out = more
    <3> HIDE DEF more, line
    <3> QED BY <2>4, <2>5, <2>7 DEF SocketRecord
  <2>9. k \in ConRecord /\ k.key = cons[c].key /\ k.fd = cons[c].fd /\ k.mutex = IF kind = "body" THEN 0 ELSE t
    <3>1. cons[c] \in ConRecord
      BY <1>2, <2>3
    <3> QED BY <1>2, <3>1 DEF ConRecord
  <2>10. /\ r \in ThreadRecord /\ (r.pc # "resting" => r.peer \in TPeer)
         /\ kind = "header" => r.pc = "body" /\ r.con = c /\ r.msg = x /\ r.peer = p
         /\ kind = "body" => r.pc = "resting"
    <3>1. kind = "header" => /\ [th[t] EXCEPT !.pc = "body"] \in ThreadRecord
                             /\ [th[t] EXCEPT !.pc = "body"].pc = "body" /\ [th[t] EXCEPT !.pc = "body"].con = c
                             /\ [th[t] EXCEPT !.pc = "body"].msg = x /\ [th[t] EXCEPT !.pc = "body"].peer = p
      BY <1>0, <1>2 DEF ThreadRecord
    <3> QED BY <1>1, <1>2, <3>1, RestingFacts
  <2> HIDE DEF r, k, l, more, failing, piece
  <2>11. /\ th' \in [Thread -> ThreadRecord] /\ \A u \in Thread : th'[u].pc # "resting" => th'[u].peer \in TPeer
         /\ th'[t] = r /\ \A u \in Thread : u # t => th'[u] = th[u]
    BY <2>2, <2>10, OneThread
  <2>12. /\ cons' \in Seq(ConRecord) /\ Len(cons') = Len(cons) /\ Con' = Con
         /\ cons'[c] = k /\ \A d \in Con : d # c => cons'[d] = cons[d]
    BY <1>2, <2>2, <2>3, <2>9, ExceptSeq DEF Con
  <2>13. \A d \in Con : cons'[d].key = cons[d].key /\ cons'[d].fd = cons[d].fd
    BY <2>9, <2>12
  <2>14. /\ socks' \in Seq(SocketRecord) /\ Len(socks') = Len(socks) /\ Sock' = Sock
         /\ socks'[s] = l /\ \A q \in Sock : q # s => socks'[q] = socks[q]
         /\ Inbounds' = Inbounds \cup {s}
    BY <2>2, <2>4, <2>8, OneSocket
  <2>15. TransportType'
    BY <1>1, <2>2, <2>11, <2>12, <2>14 DEF TransportType, Fd
  <2>16. FdsOK'
    BY <2>2, <2>14 DEF FdsOK, Fd
  <2>17. ASSUME NEW g \in Fd, g # f, fds[g] # 0 PROVE socks'[fds[g]] = socks[fds[g]]
    <3>1. fds[g] # s /\ fds[g] \in Sock
      BY SMTT(60), <1>0, <2>3, <2>4, <2>17 DEF FdsOK, Sock
    <3> QED BY <2>14, <3>1
  <2>18. ASSUME NEW u \in Thread, Dialling(u)'
         PROVE  th'[u] = th[u] /\ Dialling(u) /\ Dialled(u)' = Dialled(u)
    <3>1. u # t
      BY <1>1, <2>10, <2>11, <2>18 DEF Dialling
    <3>2. th'[u] = th[u] /\ Dialling(u)
      BY <2>11, <2>18, <3>1 DEF Dialling
    <3>3. th[u].fd \in Fd /\ fds[th[u].fd] # 0 /\ th[u].fd # f
      BY <1>0, <1>2, <3>2 DEF DialOK
    <3> QED BY <2>2, <2>17, <3>2, <3>3 DEF Dialled
  <2>19. DialOK'
    <3>1. Fd' = Fd
      BY DEF Fd
    <3> QED BY <2>2, <2>12, <2>13, <2>18, <3>1 DEF DialOK
  <2>20. \A d \in Con : Open(d)' <=> Open(d)
    BY <2>13 DEF Open
  <2>21. ASSUME NEW d \in Con, Open(d), d # c PROVE Line(d)' = Line(d)
    <3>1. cons[d].fd \in Fd /\ fds[cons[d].fd] # 0 /\ cons[d].fd # f
      BY <1>0, <1>2, <2>3, <2>4, <2>21 DEF ConsOK, Open, ConRecord, Fd
    <3> QED BY <2>2, <2>13, <2>17, <3>1 DEF Line
  <2>22. Line(c)' = l
    BY <1>0, <1>2, <2>2, <2>13, <2>14 DEF Line
  <2>23. ConsOK'
    <3>1. ASSUME NEW d \in Con, Open(d)
          PROVE  fds'[cons'[d].fd] # 0 /\ Line(d)'.peer = cons'[d].key /\ Line(d)'.back # <<>>
      <4>1. fds[cons[d].fd] # 0 /\ Line(d).peer = cons[d].key /\ Line(d).back # <<>>
        BY <3>1 DEF ConsOK
      <4>2. CASE d = c
        BY <1>2, <2>2, <2>4, <2>8, <2>13, <2>22, <4>1, <4>2
      <4>3. CASE d # c
        BY <2>2, <2>13, <2>21, <3>1, <4>1, <4>3
      <4> QED BY <4>2, <4>3
    <3> QED BY <2>12, <2>13, <2>20, <3>1 DEF ConsOK
  <2>24. LockOK'
    <3>1. ASSUME NEW u \in Thread
          PROVE  /\ th'[u].pc \in {"lock", "header", "body", "evict"} => th'[u].con \in Con /\ cons'[th'[u].con].key = th'[u].peer
                 /\ th'[u].pc \in {"header", "body"} => cons'[th'[u].con].mutex = u
      <4>1. CASE u = t
        BY <1>1, <1>2, <2>9, <2>10, <2>11, <2>12, <4>1
      <4>2. CASE u # t
        <5>1. th'[u] = th[u]
          BY <2>11, <4>2
        <5>2. th[u].pc \in {"header", "body"} => th[u].con # c
          BY <1>2, <4>2 DEF LockOK
        <5> QED BY <2>12, <2>13, <5>1, <5>2 DEF LockOK
      <4> QED BY <4>1, <4>2
    <3> QED BY <2>12, <3>1 DEF LockOK
  <2>25. SocketsOK'
    <3>1. \A y : Letter(y)' = Letter(y)
      BY DEF Letter, Hello, hmac_sha256
    <3>2. peers'[l.peer].state # "none" /\ Framed(l.out, l.peer) /\ peers'[l.peer].cookie = OwnCookie
      BY <1>1, <2>4, <2>5, <2>7, <2>8 DEF SocketsOK
    <3> QED BY <1>1, <2>8, <2>14, <3>1, <3>2 DEF SocketsOK
  <2>26. HalfFrames'
    <3>1. ASSUME NEW d \in Con, Open(d), Line(d)'.server = "reading"
          PROVE  /\ (\A u \in Thread : ~ Writing(u, d)') => Len(Line(d)'.out) % 2 = 0
                 /\ \A u \in Thread : Writing(u, d)' =>
                      Len(Line(d)'.out) % 2 = 1 /\ Line(d)'.out[Len(Line(d)'.out)].msg = th'[u].msg
      <4>1. CASE d = c
        <5>1. \A u \in Thread : u # t => ~ Writing(u, c)'
          BY <1>2, <2>11 DEF Writing, LockOK
        <5>2. CASE kind = "header"
          <6>1. Writing(t, c)' /\ th'[t].msg = x
            BY <2>10, <2>11, <5>2 DEF Writing
          <6>2. Len(more) % 2 = 1
            <7> DEFINE n == Len(line.out)
            <7>1. n \in Nat /\ n % 2 = 0 /\ Len(more) = n + 1
              BY <2>6, <2>7, <5>2
            <7> HIDE DEF n
            <7> QED BY <7>1
          <6> QED BY <2>7, <2>8, <2>22, <4>1, <5>1, <6>1, <6>2
        <5>3. CASE kind = "body"
          <6>1. ~ Writing(t, c)'
            BY <2>10, <2>11, <5>3 DEF Writing
          <6>2. Len(more) % 2 = 0
            <7> DEFINE n == Len(line.out)
            <7>1. n \in Nat /\ n % 2 = 1 /\ Len(more) = n + 1
              BY <2>6, <2>7, <5>3
            <7> HIDE DEF n
            <7> QED BY <7>1
          <6> QED BY <2>7, <2>8, <2>22, <4>1, <5>1, <6>1, <6>2
        <5> QED BY <1>1, <5>2, <5>3
      <4>2. CASE d # c
        <5>1. Line(d)' = Line(d)
          BY <2>21, <3>1, <4>2
        <5>2. \A u \in Thread : (Writing(u, d)' <=> Writing(u, d)) /\ (Writing(u, d) => th'[u].msg = th[u].msg)
          BY <1>0, <1>1, <2>10, <2>11, <4>2 DEF Writing
        <5> QED BY <3>1, <5>1, <5>2 DEF HalfFrames
      <4> QED BY <4>1, <4>2
    <3> QED BY <2>12, <2>20, <3>1 DEF HalfFrames
  <2>27. Arrived'
    <3>1. Steady
      BY <1>1 DEF Steady
    <3> QED BY <1>1, <3>1, ArrivedStays
  <2>28. InboundCounted'
    <3>1. s \in Inbounds
      BY <2>3, <2>4, <2>5 DEF Inbounds
    <3>2. Inbounds' = Inbounds
      BY <2>14, <3>1
    <3> QED BY <1>1, <3>2, Recounted
  <2>29. CacheOK'
    <3>1. \A d : \A u \in Thread : th[u].pc = "evict" /\ th[u].con = d => th'[u].pc = "evict" /\ th'[u].con = d
      BY <1>1, <2>11
    <3> QED BY <1>1, <2>12, <2>13, <2>20, <3>1 DEF CacheOK, Open
  <2> QED BY <2>15, <2>16, <2>19, <2>23, <2>24, <2>25, <2>26, <2>27, <2>28, <2>29
<1> QED BY <1>3, <1>4

-----------------------------------------------------------------------------

\* Every step keeps all of it.
LEMMA TransportStep == TransportInv /\ [TransportNext]_transportVars => TransportInv'
<1> SUFFICES ASSUME TransportInv, [TransportNext]_transportVars PROVE TransportInv'
  OBVIOUS
<1>1. CASE UNCHANGED transportVars
  <2> USE <1>1 DEF transportVars
  <2>1. Con' = Con /\ Sock' = Sock /\ Fd' = Fd /\ Inbounds' = Inbounds
    BY DEF Con, Sock, Fd, Inbounds
  <2>2. Served /\ Steady
    BY DEF Served, Steady, TransportInv, TransportType
  <2>3. TransportType'
    BY DEF TransportInv, TransportType, Fd
  <2>4. SocketsOK'
    BY <2>2, ServedSockets
  <2> QED BY <2>1, <2>2, <2>3, <2>4, ServedKeeps, ArrivedStays, Recounted DEF TransportInv
<1>2. CASE TransportNext
  <2>1. DOMAIN socks = Sock
    BY SeqDomain DEF TransportInv, TransportType, Sock
  <2>2. CASE \E t \in Thread : Begin(t) \/ Sending(t)
    BY <2>2, BeginStep, FindStep, DialStep, HandshakeStep, ConnectStep, LockStep, WriteStep, EvictStep DEF Sending
  <2>3. CASE StopBegin \/ Stopping
    BY <2>3, StopStep, StopConnectionStep DEF Stopping
  <2>4. CASE \E p \in TPeer : start_node(p) \/ StopPeer(p)
    BY <2>4, StartNodeStep, StopPeerStep
  <2>5. CASE \E s \in DOMAIN socks : Inbound(s) \/ Cut(s)
    BY <2>1, <2>5, AcceptStep, RespondStep, ReadStep, CutStep DEF Inbound
  <2> QED BY <1>2, <2>2, <2>3, <2>4, <2>5 DEF TransportNext
<1> QED BY <1>1, <1>2

\* What it was for.
LEMMA TransportMeans == TransportInv => FramesArriveWhole /\ SameCookie /\ InboundCounted /\ CacheIsSound
<1> SUFFICES ASSUME TransportInv PROVE FramesArriveWhole /\ SameCookie /\ InboundCounted /\ CacheIsSound
  OBVIOUS
<1> USE DEF TransportInv
<1>1. FramesArriveWhole /\ SameCookie /\ InboundCounted
  BY DEF Arrived, SameCookie
<1>2. DOMAIN cons = Con /\ \A c \in Con : cons[c] \in ConRecord
  BY SeqDomain DEF TransportType, Con
<1>3. \A c, d \in Con : (c # d /\ cons[c].fd # -1) => cons[c].fd # cons[d].fd
  BY DEF ConsOK, Open
<1>4. ASSUME NEW c \in Range(sys.connections)
      PROVE  \/ cons[c].fd # -1 /\ fds[cons[c].fd] # 0 /\ socks[fds[cons[c].fd]].peer = cons[c].key
             \/ \E t \in Thread : th[t].pc = "evict" /\ th[t].con = c
             \/ sys.mutex = 1
  <2>1. PICK i \in DOMAIN sys.connections : c = sys.connections[i]
    BY DEF Range
  <2>2. c \in Con
    BY <2>1 DEF CacheOK
  <2>3. Open(c) \/ sys.mutex = 1 \/ \E t \in Thread : th[t].pc = "evict" /\ th[t].con = c
    BY <2>1 DEF CacheOK
  <2> QED BY <2>2, <2>3 DEF ConsOK, Open, Line
<1>5. CacheIsSound
  BY <1>2, <1>3, <1>4 DEF CacheIsSound, CacheOK
<1> QED BY <1>1, <1>5

\* For any threads, peers, cookies, sizes of sockets, sends and cuts, while
\* descriptors are closed and given out again: what arrives at a node are
\* whole frames of one sender that has its cookie, the inbound threads are
\* counted exactly, and the cache has one connection per peer, closed only
\* while somebody is about to take it out.
THEOREM FramesAndConnections == TransportSpec => []TransportSound
<1>1. TransportSpec => []TransportInv
  BY TransportStart, TransportStep, PTL DEF TransportSpec
<1>2. TransportInv => TransportSound
  BY TransportMeans DEF TransportSound
<1> QED BY <1>1, <1>2, PTL
=============================================================================
