----------------------------- MODULE Supervisor ------------------------------
(***************************************************************************)
(* (creme actor-supervisor), modules/creme/actor-supervisor.sld, on the    *)
(* actors of ActorSystem: a supervisor starts its children, registers and  *)
(* monitors them, and starts permanent ones again when they go down.       *)
(*                                                                         *)
(* The supervisor is an actor whose program is the library's; every step   *)
(* of it is a call of the runtime joined with what the program makes of    *)
(* it.  Children end when they like and may send to the supervisor.        *)
(***************************************************************************)
EXTENDS ActorSystem

CONSTANTS
  Sup,        \* the supervisor
  Permanent,  \* children by name: restart 'permanent
  Temporary,  \* and anything else
  Specs       \* the argument of start-supervisor: a sequence of names

ASSUME SupAssumption == Sup \in Actor \ {Main}
\* A name stands for its spec, so no two specs have the same one.
ASSUME SpecsAssumption ==
  /\ Name = Permanent \cup Temporary /\ Permanent \cap Temporary = {}
  /\ Specs \in Seq(Name)
  /\ \A i, j \in 1 .. Len(Specs) : Specs[i] = Specs[j] => i = j

VARIABLES
  step,         \* where the program is: before "spawn", "register", "monitor", "file", or in the "loop"
  todo,         \* specs that start-child has still to be called for
  child,        \* the ref in start-child
  children,     \* spec |-> current ref, None: no entry
  incarnations  \* history: spec |-> all actors started for it

programVars == <<step, todo, child, children, incarnations>>
supVars == <<vars, programVars>>

SupInit ==
  /\ Init
  /\ step = IF Specs = <<>> THEN "loop" ELSE "spawn"
  /\ todo = Specs /\ child = None
  /\ children = [s \in Name |-> None]
  /\ incarnations = [s \in Name |-> {}]

\* (start-supervisor specs)
StartSupervisor == Spawn(Main, Sup) /\ UNCHANGED programVars

(***************************************************************************)
(* start-child.                                                            *)
(***************************************************************************)
SpawnChild(b) ==
  /\ step = "spawn"
  /\ Spawn(Sup, b)
  /\ step' = "register"
  /\ child' = b
  /\ incarnations' = [incarnations EXCEPT ![Head(todo)] = @ \cup {b}]
  /\ UNCHANGED <<todo, children>>

\* make-behavior raises and takes the supervisor down with it.
MakeBehaviorRaises ==
  /\ step = "spawn"
  /\ End(Sup)
  /\ UNCHANGED programVars

\* Fault: a name in use is left alone.
RegisterChildOnce ==
  /\ step = "register"
  /\ IF children[Head(todo)] = None THEN Register(Sup, Head(todo), child) ELSE Ready(Sup) /\ UNCHANGED vars
  /\ step' = "monitor"
  /\ UNCHANGED <<todo, child, children, incarnations>>

RegisterChild ==
  /\ step = "register"
  /\ Register(Sup, Head(todo), child)
  /\ step' = "monitor"
  /\ UNCHANGED <<todo, child, children, incarnations>>

MonitorChild ==
  /\ step = "monitor"
  /\ Monitor(Sup, child)
  /\ step' = "file"
  /\ UNCHANGED <<todo, child, children, incarnations>>

\* monitor comes to its end; the new entry replaces the former one.
ChildStarted ==
  /\ step = "file"
  /\ File(Sup)
  /\ children' = [children EXCEPT ![Head(todo)] = child]
  /\ todo' = Tail(todo)
  /\ step' = IF Tail(todo) = <<>> THEN "loop" ELSE "spawn"
  /\ UNCHANGED <<child, incarnations>>

(***************************************************************************)
(* supervisor-loop.                                                        *)
(***************************************************************************)
\* Fault: the first child is taken for the one that is down.
FindEntryFirst(b) == {s \in Name : children[s] # None /\ s = Specs[1]}

\* find-entry: by the id of the ref.
FindEntry(b) == {s \in Name : children[s] # None /\ id[children[s]] = id[b]}

\* Fault: restart for the wrong kind.
HandleDownSwapped(s) ==
  IF s \in Permanent
  THEN children' = [children EXCEPT ![s] = None] /\ UNCHANGED <<step, todo>>
  ELSE todo' = <<s>> /\ step' = "spawn" /\ UNCHANGED children

HandleDown(s) ==
  IF s \in Permanent
  THEN todo' = <<s>> /\ step' = "spawn" /\ UNCHANGED children
  ELSE children' = [children EXCEPT ![s] = None] /\ UNCHANGED <<step, todo>>

Loop ==
  /\ step = "loop"
  /\ Receive(Sup)
  /\ LET m == Head(mail[Sup]) IN
     IF m # Plain /\ FindEntry(m) # {}
     THEN \E s \in FindEntry(m) : HandleDown(s)
     ELSE UNCHANGED <<step, todo, children>>
  /\ UNCHANGED <<child, incarnations>>

Supervise ==
  \/ \E b \in Actor : SpawnChild(b)
  \/ MakeBehaviorRaises
  \/ RegisterChild
  \/ MonitorChild
  \/ ChildStarted
  \/ Loop

\* A child ends or sends to the supervisor.
ChildCalls(a) == (End(a) \/ Send(a, Sup)) /\ UNCHANGED programVars

\* Calls in progress and ends of actors, the supervisor's own end included.
RuntimeStep(a) ==
  /\ Deliver(a) \/ Collect(a) \/ Notify(a) \/ Unregister(a)
  /\ UNCHANGED programVars

SupNext ==
  \/ StartSupervisor
  \/ Supervise
  \/ \E a \in Actor \ {Main, Sup} : ChildCalls(a)
  \/ \E a \in Actor : RuntimeStep(a)

SupSpec == SupInit /\ [][SupNext]_supVars

\* Every thread goes on; children need not do anything.
FairSupSpec ==
  /\ SupSpec
  /\ WF_supVars(Supervise)
  /\ \A a \in Actor : WF_supVars(RuntimeStep(a))

(***************************************************************************)
(* Properties.                                                             *)
(***************************************************************************)
\* No child is started beside one that still runs, however its end, its <down>
\* and the restart are interleaved; and a temporary child is started once.
OneIncarnation ==
  \A s \in Name :
    /\ \A a, b \in incarnations[s] :
         phase[a] \in {"running", "ended"} /\ phase[b] \in {"running", "ended"} => a = b
    /\ s \in Temporary => Cardinality(incarnations[s]) <= 1

\* While the supervisor waits, the name of a child finds the child it knows
\* under that name, although the former holder may leave the registry before
\* or after the new one is entered.
NameIsCurrent ==
  step = "loop" /\ phase[Sup] = "running" =>
    \A s \in Name :
      children[s] \in linked[Default] => Whereis(Default, s) = children[s]

\* A permanent child that ends after monitor has been filed for it is
\* replaced, unless the supervisor itself has ended or the bound on actors is
\* reached.
WatchedIsReplaced ==
  \A s \in Permanent, b \in Actor :
    children[s] = b /\ watched[<<Sup, b>>] > 0 /\ phase[b] = "ended"
      ~> \/ children[s] \notin {b, None}
         \/ phase[Sup] # "running"
         \/ Born = Actor

=============================================================================
