----------------------------- MODULE ActorSystem -----------------------------
(***************************************************************************)
(* The actors of one icecreme process (icecreme/actor.c): spawn, send!,    *)
(* receive!, register!, whereis, monitor, start-node and the end of an     *)
(* actor with its <down> messages.  Every actor is a thread.  A node (an   *)
(* ActorSystem of the source) has a registry under one mutex, so an access *)
(* to it is one step, and what a thread does between two accesses is open  *)
(* to interference from all others.                                        *)
(*                                                                         *)
(* Mailboxes are the queues that Mailbox implements.                       *)
(***************************************************************************)
EXTENDS Integers, Sequences, FiniteSets, Sublists

CONSTANTS
  Actor,         \* contexts, to be taken into use by spawn
  Main,          \* the script's own thread, an actor from the start
  System,        \* ActorSystems, to be taken into use by start-node
  Default,       \* g_default_system
  Name,          \* names for register!
  None,          \* NULL
  Capacity,      \* MAILBOX_CAP
  MaxTargets,    \* room for watchers in notify_down
  CrossNode,     \* workload: are actors of other nodes monitored and registered?
  MaxSends, MaxMonitors, MaxRegisters  \* bounds: calls

ASSUME ActorAssumption == Main \in Actor /\ None \notin Actor
ASSUME SystemAssumption == Default \in System /\ None \notin System
ASSUME CapacityAssumption == Capacity \in Nat \ {0}
ASSUME MaxTargetsAssumption == MaxTargets \in Nat
ASSUME WorkloadAssumption ==
  CrossNode \in BOOLEAN /\ {MaxSends, MaxMonitors, MaxRegisters} \subseteq Nat

VARIABLES
  \* ActorContext
  phase,     \* how far the actor's thread is: see Phase
  id,        \* 0: none yet
  home,      \* the field system
  mail,      \* the mailbox: an actor stands for its <down> record
  doing,     \* the call the thread is in the middle of
  targets,   \* watchers that notify_down has still to send to
  \* ActorSystem
  linked,    \* the list actors; ids tell them apart (IdsUnique), so their order is immaterial
  names,     \* name |-> id or 0
  monitors,  \* newest first
  nextId,    \* next_actor_id
  started,   \* systems in use
  \* history
  calls,     \* calls so far, by kind
  watched,   \* <<watcher, target>> |-> monitor calls filed before the target counted its watchers
  asked,     \* pairs <<watcher, target>> of all monitor calls
  owner,     \* system |-> name |-> the actor last registered
  downs      \* <<watcher, target>> |-> <down> records received

contextVars == <<phase, id, home, mail, doing, targets>>
systemVars == <<linked, names, monitors, nextId, started>>
history == <<watched, asked, owner, downs>>
vars == <<contextVars, systemVars, calls, history>>

Phase == {"unborn", "running", "ended", "notifying", "gone"}
Plain == "plain"                   \* any message that is not a <down>
ASSUME PlainAssumption == Plain \notin Actor
Idle == [op |-> "idle"]

Born == {a \in Actor : phase[a] # "unborn"}

\* A thread that runs Scheme code between two calls of the runtime.
Ready(a) == phase[a] = "running" /\ doing[a] = Idle

Count(kind) == calls' = [calls EXCEPT ![kind] = @ + 1]

\* find_context_by_id_locked
FindContext(k, i) ==
  IF \E c \in linked[k] : id[c] = i THEN CHOOSE c \in linked[k] : id[c] = i ELSE None

\* whereis, and resolve_target for a name
Whereis(k, n) == IF names[k][n] = 0 THEN None ELSE FindContext(k, names[k][n])

Init ==
  /\ phase = [a \in Actor |-> IF a = Main THEN "running" ELSE "unborn"]
  /\ id = [a \in Actor |-> IF a = Main THEN 1 ELSE 0]
  /\ home = [a \in Actor |-> Default]
  /\ mail = [a \in Actor |-> <<>>]
  /\ doing = [a \in Actor |-> Idle]
  /\ targets = [a \in Actor |-> <<>>]
  /\ linked = [k \in System |-> IF k = Default THEN {Main} ELSE {}]
  /\ names = [k \in System |-> [n \in Name |-> 0]]
  /\ monitors = [k \in System |-> <<>>]
  /\ nextId = [k \in System |-> IF k = Default THEN 2 ELSE 1]
  /\ started = {Default}
  /\ calls = [kind \in {"send", "monitor", "register"} |-> 0]
  /\ watched = [p \in Actor \X Actor |-> 0]
  /\ asked = {}
  /\ owner = [k \in System |-> [n \in Name |-> None]]
  /\ downs = [p \in Actor \X Actor |-> 0]

(***************************************************************************)
(* spawn: the context is linked and its thread started.                    *)
(***************************************************************************)
Spawn(a, b) ==
  LET k == home[a] IN
  /\ Ready(a)
  /\ phase[b] = "unborn"
  /\ phase' = [phase EXCEPT ![b] = "running"]
  /\ id' = [id EXCEPT ![b] = nextId[k]]
  /\ home' = [home EXCEPT ![b] = k]
  /\ linked' = [linked EXCEPT ![k] = @ \cup {b}]
  /\ nextId' = [nextId EXCEPT ![k] = @ + 1]
  /\ UNCHANGED <<mail, doing, targets, names, monitors, started, calls, history>>

(***************************************************************************)
(* send! to a reference or to a name.  The name is resolved under the      *)
(* mutex; the message goes to the mailbox after that, when there is room.  *)
(* An unknown name ends the actor (End).                                   *)
(***************************************************************************)
Send(a, b) ==
  /\ Ready(a)
  /\ calls["send"] < MaxSends
  /\ doing' = [doing EXCEPT ![a] = [op |-> "send", to |-> b]]
  /\ Count("send")
  /\ UNCHANGED <<phase, id, home, mail, targets, systemVars, history>>

SendRef(a) == \E b \in Born : Send(a, b)
SendName(a) == \E n \in Name : Whereis(home[a], n) # None /\ Send(a, Whereis(home[a], n))

Deliver(a) ==
  /\ doing[a].op = "send"
  /\ Len(mail[doing[a].to]) < Capacity
  /\ mail' = [mail EXCEPT ![doing[a].to] = Append(@, Plain)]
  /\ doing' = [doing EXCEPT ![a] = Idle]
  /\ UNCHANGED <<phase, id, home, targets, systemVars, calls, history>>

Receive(a) ==
  /\ Ready(a)
  /\ mail[a] # <<>>
  /\ mail' = [mail EXCEPT ![a] = Tail(@)]
  /\ downs' = IF Head(mail[a]) = Plain THEN downs
              ELSE [downs EXCEPT ![<<a, Head(mail[a])>>] = @ + 1]
  /\ UNCHANGED <<phase, id, home, doing, targets, systemVars, calls, watched, asked, owner>>

(***************************************************************************)
(* monitor.  target->system is read without a lock, then the entry is      *)
(* filed in that system under its mutex.                                   *)
(***************************************************************************)
Monitor(a, b) ==
  /\ Ready(a)
  /\ b \in Born
  /\ CrossNode \/ home[a] = home[b]
  /\ calls["monitor"] < MaxMonitors
  /\ doing' = [doing EXCEPT ![a] = [op |-> "monitor", to |-> b, in |-> home[b]]]
  /\ Count("monitor")
  /\ UNCHANGED <<phase, id, home, mail, targets, systemVars, history>>

File(a) ==
  LET b == doing[a].to
      k == doing[a].in
  IN
  /\ doing[a].op = "monitor"
  /\ monitors' = [monitors EXCEPT ![k] = <<[watcher |-> id[a], target |-> id[b]]>> \o @]
  /\ doing' = [doing EXCEPT ![a] = Idle]
  /\ asked' = asked \cup {<<a, b>>}
  /\ watched' = IF phase[b] \in {"running", "ended"}
                THEN [watched EXCEPT ![<<a, b>>] = @ + 1] ELSE watched
  /\ UNCHANGED <<phase, id, home, mail, targets, linked, names, nextId, started, calls, owner, downs>>

(***************************************************************************)
(* register!: the entry replaces any other one of that name.               *)
(***************************************************************************)
Register(a, n, b) ==
  LET k == home[a] IN
  /\ Ready(a)
  /\ b \in Born
  /\ CrossNode \/ home[b] = k
  /\ calls["register"] < MaxRegisters
  /\ names' = [names EXCEPT ![k][n] = id[b]]
  /\ owner' = [owner EXCEPT ![k][n] = b]
  /\ Count("register")
  /\ UNCHANGED <<contextVars, linked, monitors, nextId, started, watched, asked, downs>>

(***************************************************************************)
(* start-node: a new system, into which the caller moves with its id.      *)
(***************************************************************************)
\* alloc_actor_system: a system not in use is as Init describes it.
FreshSystem(k) == k \in System \ started

\* Fault: the new system counts from 1, whoever moves in.
MoveWithoutBump(a, k) ==
  /\ linked' = [linked EXCEPT ![home[a]] = @ \ {a}, ![k] = {a}]
  /\ home' = [home EXCEPT ![a] = k]
  /\ UNCHANGED nextId

\* move_context_to_system, under both mutexes.
MoveContext(a, k) ==
  /\ linked' = [linked EXCEPT ![home[a]] = @ \ {a}, ![k] = @ \cup {a}]
  /\ home' = [home EXCEPT ![a] = k]
  /\ nextId' = [nextId EXCEPT ![k] = IF id[a] >= @ THEN id[a] + 1 ELSE @]

StartNode(a, k) ==
  /\ Ready(a)
  /\ FreshSystem(k)
  /\ started' = started \cup {k}
  /\ MoveContext(a, k)
  /\ UNCHANGED <<phase, id, mail, doing, targets, names, monitors, calls, history>>

(***************************************************************************)
(* actor_thread_main after the thunk: notify_down collects the watchers    *)
(* under the mutex and sends to them without it; then unregister_actor.    *)
(***************************************************************************)
\* The thunk returns or creme_abort unwinds it.
End(a) ==
  /\ Ready(a)
  /\ a # Main
  /\ phase' = [phase EXCEPT ![a] = "ended"]
  /\ UNCHANGED <<id, home, mail, doing, targets, systemVars, calls, history>>

\* The monitors of a whose watchers are found.
Found(a) ==
  LET list == monitors[home[a]] IN
  {i \in DOMAIN list : list[i].target = id[a] /\ FindContext(home[a], list[i].watcher) # None}

\* The contexts to notify, newest monitor first, as many as there is room for.
Watchers(a) ==
  LET entries == Sublist(monitors[home[a]], Found(a))
      room == IF Len(entries) <= MaxTargets THEN Len(entries) ELSE MaxTargets
  IN  [i \in 1 .. room |-> FindContext(home[a], entries[i].watcher)]

Collect(a) ==
  /\ phase[a] = "ended"
  /\ phase' = [phase EXCEPT ![a] = "notifying"]
  /\ targets' = [targets EXCEPT ![a] = Watchers(a)]
  /\ UNCHANGED <<id, home, mail, doing, systemVars, calls, history>>

\* Fault: a watcher whose mailbox is full is passed over.
NotifyUnlessFull(a) ==
  LET w == Head(targets[a]) IN
  /\ phase[a] = "notifying"
  /\ targets[a] # <<>>
  /\ mail' = IF Len(mail[w]) < Capacity THEN [mail EXCEPT ![w] = Append(@, a)] ELSE mail
  /\ targets' = [targets EXCEPT ![a] = Tail(@)]
  /\ UNCHANGED <<phase, id, home, doing, systemVars, calls, history>>

\* mailbox_send of one <down>, when the watcher's mailbox has room.
Notify(a) ==
  LET w == Head(targets[a]) IN
  /\ phase[a] = "notifying"
  /\ targets[a] # <<>>
  /\ Len(mail[w]) < Capacity
  /\ mail' = [mail EXCEPT ![w] = Append(@, a)]
  /\ targets' = [targets EXCEPT ![a] = Tail(@)]
  /\ UNCHANGED <<phase, id, home, doing, systemVars, calls, history>>

ForgetMonitors(a) ==
  LET list == monitors[home[a]]
      others == {i \in DOMAIN list : id[a] \notin {list[i].watcher, list[i].target}}
  IN  monitors' = [monitors EXCEPT ![home[a]] = Sublist(list, others)]

\* Fault: every name the actor was registered under is freed, taken over or not.
UnregisterByName(a) ==
  LET k == home[a] IN
  /\ phase[a] = "notifying"
  /\ targets[a] = <<>>
  /\ phase' = [phase EXCEPT ![a] = "gone"]
  /\ linked' = [linked EXCEPT ![k] = @ \ {a}]
  /\ names' = [names EXCEPT ![k] = [n \in Name |-> 0]]
  /\ ForgetMonitors(a)
  /\ UNCHANGED <<id, home, mail, doing, targets, nextId, started, calls, history>>

Unregister(a) ==
  LET k == home[a] IN
  /\ phase[a] = "notifying"
  /\ targets[a] = <<>>
  /\ phase' = [phase EXCEPT ![a] = "gone"]
  /\ linked' = [linked EXCEPT ![k] = @ \ {a}]
  /\ names' = [names EXCEPT ![k] = [n \in Name |-> IF @[n] = id[a] THEN 0 ELSE @[n]]]
  /\ ForgetMonitors(a)
  /\ UNCHANGED <<id, home, mail, doing, targets, nextId, started, calls, history>>

\* What a thread does without its program: finish a call, come to its end.
Runtime(a) == Deliver(a) \/ File(a) \/ Collect(a) \/ Notify(a) \/ Unregister(a)

\* What a program may call.
Program(a) ==
  \/ \E b \in Actor : Spawn(a, b)
  \/ SendRef(a)
  \/ SendName(a)
  \/ Receive(a)
  \/ \E b \in Actor : Monitor(a, b)
  \/ \E n \in Name, b \in Actor : Register(a, n, b)
  \/ \E k \in System : StartNode(a, k)
  \/ End(a)

Next == \E a \in Actor : Runtime(a) \/ Program(a)

Spec == Init /\ [][Next]_vars

(***************************************************************************)
(* Properties.                                                             *)
(***************************************************************************)
Downs(a, b) == downs[<<a, b>>] + Cardinality({i \in 1 .. Len(mail[a]) : mail[a][i] = b})

\* Everything in a registry goes by id, so no two contexts of a system may
\* share one, though every system counts for itself and start-node brings an
\* id along from elsewhere.
IdsUnique ==
  \A k \in System : \A a, b \in linked[k] : id[a] = id[b] => a = b

\* A context is in the list of the system it believes to be in, and in no
\* other, from spawn to unregister_actor, across start-node.
LinkedAtHome ==
  \A a \in Actor, k \in System :
    a \in linked[k] <=> home[a] = k /\ phase[a] \notin {"unborn", "gone"}

\* Within one node, a name finds the actor it was last registered for, while
\* that one is linked, and otherwise nobody: in particular the end of a former
\* holder does not take the name away from its successor.
NameFindsLatest ==
  \A k \in System, n \in Name :
    Whereis(k, n) = IF owner[k][n] # None /\ owner[k][n] \in linked[k] THEN owner[k][n] ELSE None

\* <down> records go only to actors that called monitor for the one that is down.
DownToWatcher ==
  \A a, b \in Actor : Downs(a, b) > 0 => <<a, b>> \in asked

\* An actor that is gone has told its watchers: a live one has as many <down>
\* records as it filed monitors before the other counted its watchers.  Both
\* are in the node of the process, so neither has moved (one moves only to a
\* node of one's own, and the lists of the old one are not searched for it).
WatchersTold ==
  \A a, b \in Actor :
    /\ phase[a] = "running" /\ phase[b] = "gone"
    /\ home[a] = Default /\ home[b] = Default
    => Downs(a, b) = watched[<<a, b>>]

\* monitor keeps its promise, across ends, moves and full mailboxes: <down>
\* records go to those who asked for them, and to all of them.
DownsDelivered == DownToWatcher /\ WatchersTold
=============================================================================
