------------------------------ MODULE Globals ------------------------------
(***************************************************************************)
(* The tables of globals of icecreme's VMs and the default ports they name *)
(* (icecreme/vm.c, loader.c, builtins.c).  A VM's globals are an array of  *)
(* cells found by name; a chunk refers to a cell by its slot, resolved     *)
(* once against the table of the VM that loads it.  A VM made for an actor *)
(* starts with a copy of its parent's array, and is meant to get default   *)
(* ports of its own: the Parameter objects behind current-output-port and  *)
(* current-input-port.                                                     *)
(***************************************************************************)
EXTENDS Integers, Sequences, FiniteSets, SequencesExt

CONSTANTS GVM,               \* the VMs; vm 1 is the main one
          GName,             \* names that a loaded program uses
          CREME_GLOBALS_CAP,
          MaxNesting,        \* how deep one VM nests redirections
          ChildrenRedirect   \* whether an actor redirects its default port

ASSUME GlobalsAssumption == 1 \in GVM /\ CREME_GLOBALS_CAP \in Nat

VARIABLES globals,   \* globals[v]: the cells of VM v, <<>> before it is made
          param,     \* param[v]: the value of the Parameter made for VM v
          slotOf,    \* slotOf[n]: the slot a chunk's references to n resolved to
          redirect,  \* redirect[v]: the redirections VM v is inside of
          runs       \* runs[v]: the names of which VM v runs a chunk

globalVars == <<globals, param, slotOf, redirect, runs>>

Out == "current-output-port"

In == "current-input-port"

Ports == {"stdout", "file"}

\* strlen(); the two port names are the only ones whose length a caller
\* writes out instead of computing it.
strlen(n) == CASE n = Out -> 19 [] n = In -> 18 [] OTHER -> 1

-----------------------------------------------------------------------------
(* Cells                                                                   *)

NoCell == [name |-> "", value |-> 0, bound |-> FALSE]

\* The cell's value is the VM whose Parameter it holds, or 0 for any other.
Cell(n, v) == [name |-> n, value |-> v, bound |-> TRUE]

\* The first cell whose name has the length `len` and these characters.
Matches(g, n, len) ==
  {i \in 1..Len(g) : g[i].name = n /\ strlen(g[i].name) = len}

\* Fault: the new cell is put in front of the others.
InternInFront(g, n, len) ==
  IF Matches(g, n, len) # {}
  THEN [slot |-> CHOOSE i \in Matches(g, n, len) :
                   \A j \in Matches(g, n, len) : i <= j, g |-> g]
  ELSE [slot |-> 1, g |-> <<[NoCell EXCEPT !.name = n]>> \o g]

creme_global_intern(g, n, len) ==
  IF Matches(g, n, len) # {}
  THEN [slot |-> CHOOSE i \in Matches(g, n, len) :
                   \A j \in Matches(g, n, len) : i <= j, g |-> g]
  ELSE [slot |-> Len(g) + 1, g |-> Append(g, [NoCell EXCEPT !.name = n])]

Bind(g, n, len, x) ==
  LET r == creme_global_intern(g, n, len)
  IN [r.g EXCEPT ![r.slot] = Cell(n, x)]

\* The two cells as the code binds them: the lengths it passes are one more
\* than the names', so the search never finds a cell that is there already.
BindPorts(g, v) == Bind(Bind(g, Out, 20, v), In, 19, 0)

creme_register_base_builtins == BindPorts(<<Cell("+", 0)>>, 1)

-----------------------------------------------------------------------------
(* Actions                                                                 *)

creme_new_child_vm(v, parent) ==
  /\ globals[v] = <<>> /\ globals[parent] # <<>>
  /\ globals' = [globals EXCEPT ![v] = BindPorts(globals[parent], v)]
  /\ runs' = [runs EXCEPT ![v] = runs[parent]]
  /\ UNCHANGED <<param, slotOf, redirect>>

\* A chunk that uses the name n is loaded into v: every global operand is
\* replaced by the slot the name has in v's table.
resolve_globals(v, n) ==
  /\ globals[v] # <<>> /\ slotOf[n] = 0
  /\ Len(globals[v]) < CREME_GLOBALS_CAP
  /\ LET r == creme_global_intern(globals[v], n, strlen(n))
     IN /\ slotOf' = [slotOf EXCEPT ![n] = r.slot]
        /\ globals' = [globals EXCEPT ![v] = r.g]
  /\ runs' = [runs EXCEPT ![v] = @ \cup {n}]
  /\ UNCHANGED <<param, redirect>>

\* (parameterize ((current-output-port p)) ...): the Parameter is the value
\* of the cell the compiled reference names.
Parameterized(v, p) ==
  /\ globals[v] # <<>> /\ Len(redirect[v]) < MaxNesting
  /\ v = 1 \/ ChildrenRedirect
  /\ Out \in runs[v] /\ globals[v][slotOf[Out]].value # 0
  /\ LET owner == globals[v][slotOf[Out]].value
     IN /\ redirect' = [redirect EXCEPT ![v] =
                          Append(@, [owner |-> owner, saved |-> param[owner]])]
        /\ param' = [param EXCEPT ![owner] = p]
  /\ UNCHANGED <<globals, slotOf, runs>>

\* with-output-to-file goes to the VM's own Parameter directly.  Programs nest
\* less deeply than PORT_RESTORE_CAP and CREME_UNWIND_CAP allow.
bi_with_output_to_file(v, p) ==
  /\ globals[v] # <<>> /\ Len(redirect[v]) < MaxNesting
  /\ redirect' = [redirect EXCEPT ![v] =
                    Append(@, [owner |-> v, saved |-> param[v]])]
  /\ param' = [param EXCEPT ![v] = p]
  /\ UNCHANGED <<globals, slotOf, runs>>

\* Leaving either one, in whatever way: the saved port is put back.
bi_restore_output_port(v) ==
  /\ redirect[v] # <<>>
  /\ param' = [param EXCEPT ![Last(redirect[v]).owner] = Last(redirect[v]).saved]
  /\ redirect' = [redirect EXCEPT ![v] = Front(@)]
  /\ UNCHANGED <<globals, slotOf, runs>>

-----------------------------------------------------------------------------

\* creme_init_current_ports: every VM's own Parameter starts at stdout.
GlobalsInit ==
  /\ globals = [v \in GVM |-> IF v = 1 THEN creme_register_base_builtins ELSE <<>>]
  /\ param = [v \in GVM |-> "stdout"]
  /\ slotOf = [n \in GName |-> 0]
  /\ redirect = [v \in GVM |-> <<>>]
  /\ runs = [v \in GVM |-> {}]

GlobalsNext ==
  \E v \in GVM :
    \/ \E u \in GVM : creme_new_child_vm(v, u)
    \/ \E n \in GName : resolve_globals(v, n)
    \/ \E p \in Ports : Parameterized(v, p)
    \/ \E p \in Ports : bi_with_output_to_file(v, p)
    \/ bi_restore_output_port(v)

-----------------------------------------------------------------------------
(* Properties                                                              *)

\* "every global name's slot ... shared by every VM that ever runs this same
\* bytecode": a VM that runs a chunk, loaded by itself or by an ancestor
\* before the VM was made, finds at the slot the chunk carries a cell with the
\* name the chunk means, although each VM goes on loading chunks of its own.
SlotMeansName ==
  \A v \in GVM : \A n \in runs[v] : globals[v][slotOf[n]].name = n

\* When no redirection is in force anywhere, every default port is stdout.
PortsRestored ==
  (\A v \in GVM : redirect[v] = <<>>) => \A v \in GVM : param[v] = "stdout"

\* The slots of the globals mean one name in every VM, and a VM's redirections
\* of its output nest.
GlobalsMeanNames == SlotMeansName /\ PortsRestored

=============================================================================
