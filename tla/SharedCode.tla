----------------------------- MODULE SharedCode -----------------------------
(***************************************************************************)
(* Calls through a global, as icecreme's VMs execute them (icecreme/vm.c): *)
(* a call site is an instruction of a chunk that every VM started from the *)
(* same program shares, while each VM (the main one and one per actor or   *)
(* mux worker thread) has its own table of globals.  A site starts as      *)
(* OP_CALLGLOBAL and any VM may overwrite its opcode in place with a       *)
(* quickened one, or back.  A VM first fetches the opcode and then runs    *)
(* its body, and other VMs run between the two.                            *)
(*                                                                         *)
(* The module follows one instruction and one global.  With one to three   *)
(* arguments the instruction is a call site; with none it is the counted   *)
(* loop that replaces a self-recursive global function and has to notice   *)
(* that the function was redefined.                                        *)
(***************************************************************************)
EXTENDS Integers, Sequences, FiniteSets

CONSTANTS CVM,        \* the VMs that run the program
          CNargs,     \* the argument counts of the instruction; 0 is the loop
          CLimit      \* the counted loop runs its counter up to CLimit

ASSUME LimitAssumption == CLimit \in Nat \ {0}

VARIABLES nargs,      \* ins->b of the site; fixed when it is compiled
          siteOp,     \* ins->op of the site, shared by all VMs
          cell,       \* cell[v]: the value of the global in VM v
          fetched,    \* fetched[v]: what VM v's dispatch jumped to, or Idle
          ran,        \* ran[v]: the procedure VM v's last call applied
          loop        \* loop[v]: the frame that runs the counted loop, or Idle

codeVars == <<nargs, siteOp, cell, fetched, ran, loop>>

-----------------------------------------------------------------------------
(* Values: builtins by name, two closures, the accessor of two record      *)
(* types, a constructor, or an unbound cell.  Arguments by their kind.      *)

Builtin2 == {"bi_plus", "bi_minus", "bi_star", "bi_cons", "bi_modulo",
             "bi_string_append", "bi_hash_table_ref"}

Builtin1 == {"bi_car", "bi_cdr", "bi_number_to_string"}

Builtin3 == {"bi_plus", "bi_hash_table_set", "bi_hash_table_ref"}

Accessor == {"accessorA", "accessorB"}

Closures == {"closure1", "closure2"}

NoBinding == "unbound"

n_ctor_args == 2

GlobalValues(n) ==
  Closures \cup {NoBinding} \cup
  (CASE n = 0 -> {}
     [] n = 1 -> Builtin1 \cup Accessor
     [] n = 2 -> Builtin2 \cup {"constructor"}
     [] n = 3 -> Builtin3 \cup {"constructor"})

ArgumentsOf(n) ==
  CASE n = 1 -> {<<"pair">>, <<"recordA">>, <<"int">>}
    [] n = 2 -> {<<"int", "int">>, <<"int", "zero">>}
    [] n = 3 -> {<<"int", "int", "int">>}

Idle == [op |-> "idle"]

-----------------------------------------------------------------------------
(* Quickening                                                              *)

quicken_callglobal_op(callee, n) ==
  CASE callee \in Accessor /\ n = 1                  -> "RECACC"
    [] callee = "constructor" /\ n = n_ctor_args     -> "RECCTOR"
    [] callee = "bi_plus" /\ n = 2                   -> "ADD2"
    [] callee = "bi_minus" /\ n = 2                  -> "SUB2"
    [] callee = "bi_star" /\ n = 2                   -> "MUL2"
    [] callee = "bi_cons" /\ n = 2                   -> "CONS2"
    [] callee = "bi_modulo" /\ n = 2                 -> "MOD2"
    [] callee = "bi_string_append" /\ n = 2          -> "STRAPPEND2"
    [] callee = "bi_hash_table_ref" /\ n \in {2, 3}  -> "HASHREF"
    [] callee = "bi_car" /\ n = 1                    -> "CAR1"
    [] callee = "bi_cdr" /\ n = 1                    -> "CDR1"
    [] callee = "bi_number_to_string" /\ n = 1       -> "NUMTOSTR1"
    [] callee = "bi_plus" /\ n = 3                   -> "ADD3"
    [] callee = "bi_hash_table_set" /\ n = 3         -> "HASHSET"
    [] OTHER                                         -> "CALLGLOBAL"

\* Fault: an opcode that trusts what the site was quickened for.
TrustingAdd2(callee, args) == TRUE

\* Each quickened opcode says when its fast path is taken; all of them do
\* the same otherwise (see RunQuickened).
OP_QCALLGLOBAL_ADD2(callee, args) == callee = "bi_plus"
OP_QCALLGLOBAL_SUB2(callee, args) == callee = "bi_minus"
OP_QCALLGLOBAL_MUL2(callee, args) == callee = "bi_star"
OP_QCALLGLOBAL_CONS2(callee, args) == callee = "bi_cons"
OP_QCALLGLOBAL_CAR1(callee, args) == callee = "bi_car" /\ args[1] = "pair"
OP_QCALLGLOBAL_CDR1(callee, args) == callee = "bi_cdr" /\ args[1] = "pair"
OP_QCALLGLOBAL_RECACC(callee, args) ==
  \/ callee = "accessorA" /\ args[1] = "recordA"
  \/ callee = "accessorB" /\ args[1] = "recordB"
OP_QCALLGLOBAL_RECCTOR(callee, args) ==
  callee = "constructor" /\ Len(args) = n_ctor_args
OP_QCALLGLOBAL_ADD3(callee, args) == callee = "bi_plus"
OP_QCALLGLOBAL_MOD2(callee, args) ==
  /\ callee = "bi_modulo"
  /\ args[1] \in {"int", "zero"} /\ args[2] = "int"
OP_QCALLGLOBAL_STRAPPEND2(callee, args) == callee = "bi_string_append"
OP_QCALLGLOBAL_NUMTOSTR1(callee, args) == callee = "bi_number_to_string"
OP_QCALLGLOBAL_HASHSET(callee, args) == callee = "bi_hash_table_set"
OP_QCALLGLOBAL_HASHREF(callee, args) == callee = "bi_hash_table_ref"

TakesFastPath(op, callee, args) ==
  \/ op = "ADD2" /\ OP_QCALLGLOBAL_ADD2(callee, args)
  \/ op = "SUB2" /\ OP_QCALLGLOBAL_SUB2(callee, args)
  \/ op = "MUL2" /\ OP_QCALLGLOBAL_MUL2(callee, args)
  \/ op = "CONS2" /\ OP_QCALLGLOBAL_CONS2(callee, args)
  \/ op = "CAR1" /\ OP_QCALLGLOBAL_CAR1(callee, args)
  \/ op = "CDR1" /\ OP_QCALLGLOBAL_CDR1(callee, args)
  \/ op = "RECACC" /\ OP_QCALLGLOBAL_RECACC(callee, args)
  \/ op = "RECCTOR" /\ OP_QCALLGLOBAL_RECCTOR(callee, args)
  \/ op = "ADD3" /\ OP_QCALLGLOBAL_ADD3(callee, args)
  \/ op = "MOD2" /\ OP_QCALLGLOBAL_MOD2(callee, args)
  \/ op = "STRAPPEND2" /\ OP_QCALLGLOBAL_STRAPPEND2(callee, args)
  \/ op = "NUMTOSTR1" /\ OP_QCALLGLOBAL_NUMTOSTR1(callee, args)
  \/ op = "HASHSET" /\ OP_QCALLGLOBAL_HASHSET(callee, args)
  \/ op = "HASHREF" /\ OP_QCALLGLOBAL_HASHREF(callee, args)

\* The procedure whose work a fast path does.  The record opcodes read it
\* from the cell, the others have it built in.
BuiltIn(op, callee) ==
  CASE op \in {"ADD2", "ADD3"} -> "bi_plus"
    [] op = "SUB2"             -> "bi_minus"
    [] op = "MUL2"             -> "bi_star"
    [] op = "CONS2"            -> "bi_cons"
    [] op = "CAR1"             -> "bi_car"
    [] op = "CDR1"             -> "bi_cdr"
    [] op = "MOD2"             -> "bi_modulo"
    [] op = "STRAPPEND2"       -> "bi_string_append"
    [] op = "NUMTOSTR1"        -> "bi_number_to_string"
    [] op = "HASHSET"          -> "bi_hash_table_set"
    [] op = "HASHREF"          -> "bi_hash_table_ref"
    [] OTHER                   -> callee

-----------------------------------------------------------------------------
(* The dispatch loop of one VM                                             *)

\* NEXT(): ins->op is read once, and the jump table is entered with it.
Fetch(v) ==
  /\ nargs > 0
  /\ fetched[v] = Idle
  /\ fetched' = [fetched EXCEPT ![v] = [op |-> siteOp]]
  /\ ran' = [ran EXCEPT ![v] = "nothing"]
  /\ UNCHANGED <<nargs, siteOp, cell, loop>>

\* What dispatch_call does with the cell's value; an unbound cell aborts.
CallsFound(v) == ran' = [ran EXCEPT ![v] = cell[v]]

OP_CALLGLOBAL(v) ==
  /\ fetched[v].op = "CALLGLOBAL"
  /\ siteOp' = IF quicken_callglobal_op(cell[v], nargs) = "CALLGLOBAL"
               THEN siteOp
               ELSE quicken_callglobal_op(cell[v], nargs)
  /\ CallsFound(v)
  /\ fetched' = [fetched EXCEPT ![v] = Idle]
  /\ UNCHANGED <<nargs, cell, loop>>

\* A quickened opcode: the fast path, or back to OP_CALLGLOBAL and the call.
RunQuickened(v) ==
  /\ fetched[v].op \notin {"idle", "CALLGLOBAL"}
  /\ \E args \in ArgumentsOf(nargs) :
       IF TakesFastPath(fetched[v].op, cell[v], args)
       THEN /\ ran' = [ran EXCEPT ![v] = BuiltIn(fetched[v].op, cell[v])]
            /\ UNCHANGED siteOp
       ELSE /\ siteOp' = "CALLGLOBAL"
            /\ CallsFound(v)
  /\ fetched' = [fetched EXCEPT ![v] = Idle]
  /\ UNCHANGED <<nargs, cell, loop>>

OP_DEFGLOBAL(v) ==
  /\ fetched[v] = Idle
  /\ \E x \in GlobalValues(nargs) \ {NoBinding} : cell' = [cell EXCEPT ![v] = x]
  /\ UNCHANGED <<nargs, siteOp, fetched, ran, loop>>

-----------------------------------------------------------------------------
(* The guarded counted loop                                                *)

global_is_current_closure(v, closure) ==
  cell[v] \in Closures /\ cell[v] = closure

\* The global function is called from outside with a fresh counter.
EnterLoop(v) ==
  /\ nargs = 0 /\ loop[v] = Idle
  /\ cell[v] \in Closures
  /\ loop' = [loop EXCEPT ![v] =
                [op |-> "loop", closure |-> cell[v], counter |-> 0]]
  /\ UNCHANGED <<nargs, siteOp, cell, fetched, ran>>

\* At the end of an iteration: counter += step, and back to the top while it
\* is in range and the global still names the running closure.
\* OP_TESTGLOBALIDENTITY, which follows, tells a finished loop from a
\* redefinition; that one goes to the plain compilation of the function's
\* `if`, which calls whatever the global names now.
OP_FORLOOPGUARDEDINC(v) ==
  /\ loop[v].op = "loop"
  /\ LET next_val == loop[v].counter + 1
         in_range == next_val <= CLimit
         current == global_is_current_closure(v, loop[v].closure)
     IN loop' = [loop EXCEPT ![v] =
          IF in_range /\ current THEN [loop[v] EXCEPT !.counter = next_val]
          ELSE IF current \/ ~in_range \/ cell[v] \notin Closures
               THEN Idle
               ELSE [op |-> "loop", closure |-> cell[v], counter |-> next_val]]
  /\ UNCHANGED <<nargs, siteOp, cell, fetched, ran>>

-----------------------------------------------------------------------------

CodeInit ==
  /\ nargs \in CNargs
  /\ siteOp = "CALLGLOBAL"
  /\ \E x \in GlobalValues(nargs) : cell = [v \in CVM |-> x]
  /\ fetched = [v \in CVM |-> Idle]
  /\ ran = [v \in CVM |-> "nothing"]
  /\ loop = [v \in CVM |-> Idle]

CodeNext ==
  \E v \in CVM : \/ Fetch(v)
                 \/ OP_CALLGLOBAL(v)
                 \/ RunQuickened(v)
                 \/ OP_DEFGLOBAL(v)
                 \/ EnterLoop(v)
                 \/ OP_FORLOOPGUARDEDINC(v)

-----------------------------------------------------------------------------
(* Properties                                                              *)

\* A call through a global applies the procedure the global has in the VM
\* that makes the call at the moment it is made, whatever the shared site
\* was quickened for, by this VM or another, and however often the global was
\* redefined since the opcode was fetched.
CallMeansGlobal ==
  [][\A v \in CVM :
       fetched[v] # Idle /\ fetched'[v] = Idle => ran'[v] = cell[v]]_codeVars

\* The loop never starts an iteration in a closure that is no longer the
\* global's value: the recursion it stands for would have called the new one.
LoopFollowsGlobal ==
  [][\A v \in CVM :
       loop'[v] # loop[v] /\ loop'[v] # Idle => loop'[v].closure = cell[v]]_codeVars

\* Code that one VM has rewritten still means, in every VM, what the globals of
\* that VM mean at the time.
CodeMeansGlobals == CallMeansGlobal /\ LoopFollowsGlobal

=============================================================================
