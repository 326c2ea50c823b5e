------------------------------ MODULE MCProcess ------------------------------
(***************************************************************************)
(* A running icecreme process: calls and their variables, guards and       *)
(* unwinding, code and globals that several VMs share, hash tables, ports, *)
(* and the connections that its actors send over.  A behaviour is about    *)
(* one of them, its subject, and the others rest.                          *)
(***************************************************************************)
EXTENDS Calls, Control, SharedCode, Globals, HashTable, Ports, Transport

VARIABLE subject

CONSTANT Subject

-----------------------------------------------------------------------------
(* Closures nested two deep, with rest parameters and captures of locals   *)
(* and of upvalues.                                                        *)

Proc(params, rest, captures, protos) ==
  [params |-> params, rest |-> rest, captures |-> captures, protos |-> protos]

Nested ==
  [main |-> Proc(0, FALSE, <<>>, <<"outer">>),
   outer |-> Proc(1, FALSE, <<>>, <<"inner", "leaf">>),
   inner |-> Proc(1, TRUE, <<<<TRUE, 0>>>>, <<"leaf2">>),
   leaf |-> Proc(0, FALSE, <<<<TRUE, 0>>>>, <<>>),
   leaf2 |-> Proc(0, TRUE, <<<<FALSE, 0>>, <<TRUE, 1>>>>, <<>>)]

-----------------------------------------------------------------------------

ProcessInit ==
  /\ subject \in Subject
  /\ CallsInit /\ ControlInit /\ CodeInit /\ GlobalsInit /\ TableInit /\ PortsInit /\ TransportInit
  /\ subject # "code" => nargs = 1 /\ \A v \in CVM : cell[v] = NoBinding

processVars == <<subject, callVars, vm, codeVars, globalVars, tableVars, portVars, transportVars>>

ProcessNext ==
  /\ UNCHANGED subject
  /\ \/ /\ subject = "calls" /\ CallsNext
        /\ UNCHANGED <<vm, codeVars, globalVars, tableVars, portVars, transportVars>>
     \/ /\ subject = "control" /\ ControlNext
        /\ UNCHANGED <<callVars, codeVars, globalVars, tableVars, portVars, transportVars>>
     \/ /\ subject = "code" /\ CodeNext
        /\ UNCHANGED <<callVars, vm, globalVars, tableVars, portVars, transportVars>>
     \/ /\ subject = "globals" /\ GlobalsNext
        /\ UNCHANGED <<callVars, vm, codeVars, tableVars, portVars, transportVars>>
     \/ /\ subject = "tables" /\ TableNext
        /\ UNCHANGED <<callVars, vm, codeVars, globalVars, portVars, transportVars>>
     \/ /\ subject = "ports" /\ PortsNext
        /\ UNCHANGED <<callVars, vm, codeVars, globalVars, tableVars, transportVars>>
     \/ /\ subject = "nodes" /\ TransportNext
        /\ UNCHANGED <<callVars, vm, codeVars, globalVars, tableVars, portVars>>

ProcessSpec == ProcessInit /\ [][ProcessNext]_processVars
=============================================================================
