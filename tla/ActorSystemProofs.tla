-------------------------- MODULE ActorSystemProofs --------------------------
(***************************************************************************)
(* For any number of actors, nodes and names and any schedule: a context   *)
(* is in exactly one registry, that of its node, its id tells it apart     *)
(* from all others there, names find the actors they were given to, and    *)
(* <down> messages reach those who asked for them and nobody else.         *)
(***************************************************************************)
EXTENDS Supervisor, SublistProofs, SequenceTheorems, FiniteSetTheorems

\* The part of the state the argument is about.
registry == <<phase, id, home, linked, nextId, started>>

RegistryType ==
  /\ phase \in [Actor -> Phase]
  /\ id \in [Actor -> Nat]
  /\ home \in [Actor -> System]
  /\ linked \in [System -> SUBSET Actor]
  /\ nextId \in [System -> Nat]
  /\ started \in SUBSET System

\* Ids are not used again: those of one node differ even from the ids of
\* actors that ended there, because its counter is above all of them, and
\* start-node finds its new system unused.
IdsInv ==
  /\ \A a \in Actor : home[a] \in started
  /\ \A a \in Born : id[a] # 0 /\ id[a] < nextId[home[a]]
  /\ \A a, b \in Born : home[a] = home[b] /\ id[a] = id[b] => a = b

Inv == RegistryType /\ LinkedAtHome /\ IdsInv

LEMMA InvInit == Init => Inv
  BY ActorAssumption, SystemAssumption
  DEF Init, Inv, RegistryType, LinkedAtHome, IdsInv, Born, Phase

\* Steps after which the same contexts are alive, at the same place.
LEMMA SameRegistry ==
  ASSUME Inv, UNCHANGED <<id, home, linked, nextId, started>>,
         phase' \in [Actor -> Phase],
         \A a \in Actor : /\ (phase'[a] = "unborn") <=> (phase[a] = "unborn")
                          /\ (phase'[a] = "gone") <=> (phase[a] = "gone")
  PROVE  Inv'
  BY DEF Inv, RegistryType, LinkedAtHome, IdsInv, Born

\* spawn takes the next id of the caller's system.
LEMMA SpawnKeepsInv ==
  ASSUME Inv, NEW a \in Actor, NEW b \in Actor, Spawn(a, b)
  PROVE  Inv'
  <1> DEFINE k == home[a]
  <1>1. /\ k \in System /\ k \in started
        /\ phase[b] = "unborn"
        /\ phase' = [phase EXCEPT ![b] = "running"]
        /\ id' = [id EXCEPT ![b] = nextId[k]]
        /\ home' = [home EXCEPT ![b] = k]
        /\ linked' = [linked EXCEPT ![k] = @ \cup {b}]
        /\ nextId' = [nextId EXCEPT ![k] = @ + 1]
        /\ started' = started
    BY DEF Spawn, Inv, RegistryType, IdsInv
  <1> HIDE DEF k
  <1>2. nextId[k] \in Nat \ {0}
    <2>1. a \in Born
      BY DEF Spawn, Ready, Born
    <2> QED
      BY <1>1, <2>1 DEF Inv, RegistryType, IdsInv, Born, k
  <1>3. RegistryType'
    BY <1>1, <1>2 DEF Inv, RegistryType, Phase
  <1>4. LinkedAtHome'
    BY <1>1 DEF Inv, RegistryType, LinkedAtHome
  <1>5. Born' = Born \cup {b} /\ b \notin Born
    BY <1>1 DEF Inv, RegistryType, Born
  <1>6. /\ id'[b] = nextId[k] /\ home'[b] = k /\ nextId'[k] = nextId[k] + 1
        /\ \A c \in Born : id'[c] = id[c] /\ home'[c] = home[c]
        /\ \A j \in System \ {k} : nextId'[j] = nextId[j]
    BY <1>1, <1>5 DEF Inv, RegistryType, Born
  <1>7. ASSUME NEW c \in Born' PROVE id'[c] # 0 /\ id'[c] < nextId'[home'[c]]
    <2>1. CASE c = b
      BY <1>2, <1>6, <2>1
    <2>2. CASE c \in Born
      <3>1. home[c] \in System /\ id[c] \in Nat /\ id[c] # 0 /\ id[c] < nextId[home[c]]
            /\ nextId[home[c]] \in Nat
        BY <2>2 DEF Inv, RegistryType, IdsInv, Born
      <3>2. CASE home[c] = k
        BY <1>6, <2>2, <3>1, <3>2
      <3>3. CASE home[c] # k
        BY <1>6, <2>2, <3>1, <3>3
      <3> QED
        BY <3>2, <3>3
    <2> QED
      BY <1>5, <2>1, <2>2
  <1>8. ASSUME NEW c \in Born', NEW d \in Born', home'[c] = home'[d], id'[c] = id'[d]
        PROVE  c = d
    <2>1. ASSUME NEW e \in Born, home[e] = k PROVE id[e] # nextId[k]
      BY <1>2, <2>1 DEF Inv, RegistryType, IdsInv, Born
    <2>2. CASE c \in Born /\ d \in Born
      BY <1>6, <1>8, <2>2 DEF Inv, IdsInv
    <2>3. CASE c = b \/ d = b
      BY <1>5, <1>6, <1>8, <2>1, <2>3
    <2> QED
      BY <1>5, <2>2, <2>3
  <1>9. \A c \in Actor : home'[c] \in started'
    BY <1>1 DEF Inv, RegistryType, IdsInv
  <1> QED
    BY <1>3, <1>4, <1>7, <1>8, <1>9 DEF Inv, IdsInv

\* start-node: nobody else is or was in the new system, which counts on from
\* the caller's id.
LEMMA StartNodeKeepsInv ==
  ASSUME Inv, NEW a \in Actor, NEW k \in System, StartNode(a, k)
  PROVE  Inv'
  <1> DEFINE h == home[a]
  <1>1. /\ h \in System /\ h # k /\ linked[k] = {}
        /\ phase[a] = "running" /\ k \notin started
        /\ started' = started \cup {k}
        /\ linked' = [linked EXCEPT ![h] = @ \ {a}, ![k] = @ \cup {a}]
        /\ home' = [home EXCEPT ![a] = k]
        /\ nextId' = [nextId EXCEPT ![k] = IF id[a] >= @ THEN id[a] + 1 ELSE @]
        /\ phase' = phase /\ id' = id
    BY DEF StartNode, FreshSystem, MoveContext, Ready, Inv, RegistryType, LinkedAtHome, IdsInv
  <1>2. \A c \in Actor : home[c] # k
    BY <1>1 DEF Inv, IdsInv
  <1>3. /\ linked' \in [System -> SUBSET Actor]
        /\ linked'[k] = {a} /\ linked'[h] = linked[h] \ {a}
        /\ \A j \in System \ {h, k} : linked'[j] = linked[j]
    BY <1>1 DEF Inv, RegistryType
  <1>4. RegistryType'
    BY <1>1, <1>3 DEF Inv, RegistryType
  <1>5. LinkedAtHome'
    BY <1>1, <1>2, <1>3 DEF Inv, RegistryType, LinkedAtHome
  <1>6. Born' = Born
    BY <1>1 DEF Born
  <1>7. ASSUME NEW c \in Born PROVE id[c] # 0 /\ id[c] < nextId'[home'[c]]
    <2>1. CASE c = a
      BY <1>1, <2>1 DEF Inv, RegistryType, IdsInv, Born
    <2>2. CASE c # a
      BY <1>1, <1>2, <2>2 DEF Inv, RegistryType, IdsInv, Born
    <2> QED
      BY <2>1, <2>2
  <1>8. ASSUME NEW c \in Born, NEW d \in Born, home'[c] = home'[d], id[c] = id[d]
        PROVE  c = d
    BY <1>1, <1>2, <1>8 DEF Inv, RegistryType, IdsInv, Born
  <1>9. \A c \in Actor : home'[c] \in started'
    BY <1>1 DEF Inv, RegistryType, IdsInv
  <1> QED
    BY <1>1, <1>4, <1>5, <1>6, <1>7, <1>8, <1>9 DEF Inv, IdsInv

\* unregister_actor takes the actor out of its node's list.
LEMMA UnregisterKeepsInv ==
  ASSUME Inv, NEW a \in Actor, Unregister(a)
  PROVE  Inv'
  <1>1. /\ phase[a] = "notifying" /\ home[a] \in System
        /\ phase' = [phase EXCEPT ![a] = "gone"]
        /\ linked' = [linked EXCEPT ![home[a]] = @ \ {a}]
        /\ UNCHANGED <<id, home, nextId, started>>
    BY DEF Unregister, Inv, RegistryType
  <1>2. \A j \in System : linked'[j] = linked[j] \ {a}
    BY <1>1 DEF Inv, RegistryType, LinkedAtHome
  <1>3. RegistryType'
    BY <1>1 DEF Inv, RegistryType, Phase
  <1>4. LinkedAtHome'
    BY <1>1, <1>2 DEF Inv, RegistryType, LinkedAtHome
  <1>5. Born' = Born
    BY <1>1 DEF Inv, RegistryType, Born
  <1> QED
    BY <1>1, <1>3, <1>4, <1>5 DEF Inv, IdsInv

LEMMA InvStep == Inv /\ [Next]_vars => Inv'
  <1> SUFFICES ASSUME Inv, [Next]_vars PROVE Inv'
    OBVIOUS
  <1>0. phase \in [Actor -> Phase]
    BY DEF Inv, RegistryType
  <1>1. CASE \E a \in Actor : \E b \in Actor : Spawn(a, b)
    BY <1>1, SpawnKeepsInv
  <1>2. CASE \E a \in Actor : \E k \in System : StartNode(a, k)
    BY <1>2, StartNodeKeepsInv
  <1>3. CASE \E a \in Actor : Unregister(a)
    BY <1>3, UnregisterKeepsInv
  <1>4. CASE \E a \in Actor : End(a) \/ Collect(a)
    BY <1>0, <1>4, SameRegistry DEF End, Collect, Ready, systemVars, Phase
  <1>5. CASE UNCHANGED registry
    BY <1>0, <1>5, SameRegistry DEF registry
  <1>6. ASSUME NEW a \in Actor, Deliver(a) \/ File(a) \/ Notify(a) \/ SendRef(a) \/ SendName(a) \/ Receive(a)
        PROVE  UNCHANGED registry
    BY <1>6 DEF Deliver, File, Notify, SendRef, SendName, Send, Receive, systemVars, registry
  <1>7. ASSUME NEW a \in Actor, NEW b \in Actor, Monitor(a, b) PROVE UNCHANGED registry
    BY <1>7 DEF Monitor, systemVars, registry
  <1>8. ASSUME NEW a \in Actor, NEW b \in Actor, NEW n \in Name, Register(a, n, b)
        PROVE  UNCHANGED registry
    BY <1>8 DEF Register, contextVars, registry
  <1>9. UNCHANGED vars => UNCHANGED registry
    BY DEF vars, contextVars, systemVars, registry
  <1> QED
    BY <1>1, <1>2, <1>3, <1>4, <1>5, <1>6, <1>7, <1>8, <1>9 DEF Next, Runtime, Program

\* The registry invariant holds in every state of a process.
LEMMA InvHolds == Spec => []Inv
  <1>1. Init => Inv
    BY InvInit
  <1>2. Inv /\ [Next]_vars => Inv'
    BY InvStep
  <1> QED
    BY <1>1, <1>2, PTL DEF Spec

\* No two contexts of a node ever share an id, whoever is spawned, moves to a
\* node of its own or ends: what new_actor_context and
\* move_context_to_system guarantee, and every lookup by id relies on.
THEOREM UniqueIds == Spec => []IdsUnique
  <1>1. Inv => IdsUnique
    BY DEF Inv, RegistryType, LinkedAtHome, IdsInv, IdsUnique, Born
  <1> QED
    BY <1>1, InvHolds, PTL

\* A context is linked in the node it believes to be in, and only there, from
\* spawn to unregister_actor.
THEOREM OneRegistry == Spec => []LinkedAtHome
  <1>1. Inv => LinkedAtHome
    BY DEF Inv
  <1> QED
    BY <1>1, InvHolds, PTL

(***************************************************************************)
(* Names.                                                                  *)
(***************************************************************************)
\* What a name stands for.  An entry keeps the id of the actor it was last
\* registered for, and nobody else in the node can have that id; an entry is
\* removed only together with that actor.
NamesType ==
  /\ names \in [System -> [Name -> Nat]]
  /\ owner \in [System -> [Name -> Actor \cup {None}]]

NameOK(k, n) ==
  /\ names[k][n] < nextId[k]
  /\ owner[k][n] \in Born \cup {None}
  /\ names[k][n] # 0 => /\ owner[k][n] \in Born
                        /\ id[owner[k][n]] = names[k][n]
                        /\ \A c \in linked[k] : id[c] = names[k][n] => c = owner[k][n]
  /\ names[k][n] = 0 => owner[k][n] \notin linked[k]
  /\ k \notin started => names[k][n] = 0 /\ owner[k][n] = None

\* A counter starts at 1.
NamesInv ==
  /\ NamesType
  /\ \A k \in System : nextId[k] > 0
  /\ \A k \in System, n \in Name : NameOK(k, n)

LEMMA NamesInit == Init => NamesInv
  BY ActorAssumption, SystemAssumption
  DEF Init, NamesInv, NamesType, NameOK, Born

\* Steps that leave names, ids and lists alone.
LEMMA SameNames ==
  ASSUME Inv, NamesInv, UNCHANGED <<id, home, linked, nextId, started, names, owner>>,
         Born' = Born
  PROVE  NamesInv'
  BY DEF NamesInv, NamesType, NameOK

LEMMA SpawnKeepsNames ==
  ASSUME Inv, NamesInv, NEW a \in Actor, NEW b \in Actor, Spawn(a, b)
  PROVE  NamesInv'
  <1> DEFINE h == home[a]
  <1>1. /\ h \in System /\ h \in started /\ b \notin Born /\ Born' = Born \cup {b}
        /\ id' = [id EXCEPT ![b] = nextId[h]]
        /\ linked' = [linked EXCEPT ![h] = @ \cup {b}]
        /\ nextId' = [nextId EXCEPT ![h] = @ + 1]
        /\ UNCHANGED <<started, names, owner>>
    BY DEF Spawn, Inv, RegistryType, IdsInv, Born, history
  <1> HIDE DEF h
  <1>2. ASSUME NEW k \in System, NEW n \in Name PROVE NameOK(k, n)'
    <2>1. /\ names[k][n] \in Nat /\ nextId[k] \in Nat /\ NameOK(k, n)
          /\ linked[k] \subseteq Actor /\ names'[k][n] = names[k][n] /\ owner'[k][n] = owner[k][n]
      BY <1>1 DEF NamesInv, NamesType, Inv, RegistryType
    <2>2. nextId[k] <= nextId'[k] /\ nextId'[k] \in Nat
      BY <1>1, <2>1 DEF Inv, RegistryType
    <2>3. \A c \in Born : id'[c] = id[c]
      BY <1>1 DEF Inv, RegistryType, Born
    <2>4. linked[k] \subseteq Born
      BY DEF Inv, RegistryType, LinkedAtHome, Born
    <2>5. CASE k = h
      <3>1. linked'[k] = linked[k] \cup {b} /\ id'[b] = nextId[k]
        BY <1>1, <2>5 DEF Inv, RegistryType
      <3>2. b # None
        BY ActorAssumption
      <3> QED
        BY <1>1, <2>1, <2>2, <2>3, <2>4, <3>1, <3>2 DEF NameOK
    <2>6. CASE k # h
      <3>1. linked'[k] = linked[k]
        BY <1>1, <2>6 DEF Inv, RegistryType
      <3> QED
        BY <1>1, <2>1, <2>2, <2>3, <2>4, <3>1 DEF NameOK
    <2> QED
      BY <2>5, <2>6
  <1>3. \A k \in System : nextId'[k] > 0
    BY <1>1 DEF NamesInv, Inv, RegistryType
  <1> QED
    BY <1>1, <1>2, <1>3 DEF NamesInv, NamesType

LEMMA StartNodeKeepsNames ==
  ASSUME Inv, NamesInv, NEW a \in Actor, NEW j \in System, StartNode(a, j)
  PROVE  NamesInv'
  <1> DEFINE h == home[a]
  <1>1. /\ h \in System /\ h # j /\ j \notin started /\ Born' = Born /\ a \in Born
        /\ started' = started \cup {j}
        /\ linked' = [linked EXCEPT ![h] = @ \ {a}, ![j] = @ \cup {a}]
        /\ nextId' = [nextId EXCEPT ![j] = IF id[a] >= @ THEN id[a] + 1 ELSE @]
        /\ UNCHANGED <<id, names, owner>>
    BY DEF StartNode, FreshSystem, MoveContext, Ready, Inv, RegistryType, IdsInv, Born, history
  <1> HIDE DEF h
  <1>2. id[a] \in Nat
    BY DEF Inv, RegistryType
  <1>3. \A k \in System : nextId'[k] \in Nat /\ nextId[k] \in Nat /\ nextId[k] <= nextId'[k]
    BY <1>1, <1>2 DEF Inv, RegistryType
  <1>4. ASSUME NEW k \in System, NEW n \in Name PROVE NameOK(k, n)'
    <2>1. /\ names[k][n] \in Nat /\ NameOK(k, n)
          /\ names'[k][n] = names[k][n] /\ owner'[k][n] = owner[k][n]
      BY <1>1 DEF NamesInv, NamesType
    <2>2. names[k][n] < nextId'[k]
      BY <1>3, <2>1 DEF NameOK
    <2>3. CASE k = j
      <3>1. names[k][n] = 0 /\ owner[k][n] = None
        BY <1>1, <2>1, <2>3 DEF NameOK
      <3>2. None \notin linked'[k]
        BY <1>1, <2>3, ActorAssumption DEF Inv, RegistryType
      <3> QED
        BY <2>1, <2>2, <3>1, <3>2 DEF NameOK
    <2>4. CASE k # j
      <3>1. linked'[k] \subseteq linked[k]
        BY <1>1, <2>4 DEF Inv, RegistryType
      <3> QED
        BY <1>1, <2>1, <2>2, <2>4, <3>1 DEF NameOK
    <2> QED
      BY <2>3, <2>4
  <1>5. \A k \in System : nextId'[k] > 0
    BY <1>3 DEF NamesInv
  <1> QED
    BY <1>1, <1>4, <1>5 DEF NamesInv, NamesType

\* register!: the new entry holds the id of an actor of the caller's node.
LEMMA RegisterKeepsNames ==
  ASSUME Inv, NamesInv, ~CrossNode,
         NEW a \in Actor, NEW m \in Name, NEW b \in Actor, Register(a, m, b)
  PROVE  NamesInv'
  <1> DEFINE h == home[a]
  <1>1. /\ h \in System /\ h \in started /\ b \in Born /\ home[b] = h
        /\ names' = [names EXCEPT ![h][m] = id[b]]
        /\ owner' = [owner EXCEPT ![h][m] = b]
        /\ Born' = Born
        /\ UNCHANGED <<id, home, linked, nextId, started>>
    BY DEF Register, Inv, RegistryType, IdsInv, Born, contextVars
  <1> HIDE DEF h
  <1>2. id[b] \in Nat /\ id[b] # 0 /\ id[b] < nextId[h]
    BY <1>1 DEF Inv, RegistryType, IdsInv, Born
  <1>3. NamesType'
    BY <1>1, <1>2 DEF NamesInv, NamesType
  <1>4. ASSUME NEW k \in System, NEW n \in Name PROVE NameOK(k, n)'
    <2>1. CASE k = h /\ n = m
      <3>1. names'[k][n] = id[b] /\ owner'[k][n] = b
        BY <1>1, <2>1 DEF NamesInv, NamesType
      <3>2. \A c \in linked[h] : id[c] = id[b] => c = b
        BY <1>1 DEF Inv, RegistryType, LinkedAtHome, IdsInv, Born
      <3> QED
        BY <1>1, <1>2, <2>1, <3>1, <3>2 DEF NameOK
    <2>2. CASE ~(k = h /\ n = m)
      <3>1. names'[k][n] = names[k][n] /\ owner'[k][n] = owner[k][n]
        BY <1>1, <2>2 DEF NamesInv, NamesType
      <3> QED
        BY <1>1, <3>1 DEF NamesInv, NameOK
    <2> QED
      BY <2>1, <2>2
  <1> QED
    BY <1>1, <1>3, <1>4 DEF NamesInv

\* unregister_actor removes the entries with the actor's id: no one else's.
LEMMA UnregisterKeepsNames ==
  ASSUME Inv, NamesInv, NEW a \in Actor, Unregister(a)
  PROVE  NamesInv'
  <1> DEFINE h == home[a]
  <1>1. /\ h \in System /\ Born' = Born /\ a \in linked[h] /\ a \in Born
        /\ linked' = [linked EXCEPT ![h] = @ \ {a}]
        /\ names' = [names EXCEPT ![h] = [n \in Name |-> IF @[n] = id[a] THEN 0 ELSE @[n]]]
        /\ UNCHANGED <<id, nextId, started, owner>>
    BY DEF Unregister, Inv, RegistryType, LinkedAtHome, Born, history
  <1> HIDE DEF h
  <1>2. NamesType'
    BY <1>1 DEF NamesInv, NamesType
  <1>3. ASSUME NEW k \in System, NEW n \in Name PROVE NameOK(k, n)'
    <2>1. NameOK(k, n) /\ names[k][n] \in Nat /\ linked'[k] \subseteq linked[k]
      BY <1>1 DEF NamesInv, NamesType, Inv, RegistryType
    <2>2. CASE k = h /\ names[k][n] = id[a]
      <3>1. names'[k][n] = 0 /\ owner'[k][n] = owner[k][n] /\ linked'[k] = linked[k] \ {a}
        BY <1>1, <2>2 DEF NamesInv, NamesType, Inv, RegistryType
      <3>2. owner[k][n] = a
        BY <1>1, <2>1, <2>2 DEF NameOK, Inv, IdsInv
      <3>3. 0 < nextId[k] /\ k \in started
        BY <1>1, <2>2 DEF NamesInv, Inv, RegistryType, LinkedAtHome, IdsInv
      <3> QED
        BY <1>1, <3>1, <3>2, <3>3 DEF NameOK
    <2>3. CASE ~(k = h /\ names[k][n] = id[a])
      <3>1. names'[k][n] = names[k][n] /\ owner'[k][n] = owner[k][n]
        BY <1>1, <2>3 DEF NamesInv, NamesType
      <3> QED
        BY <1>1, <2>1, <3>1 DEF NameOK
    <2> QED
      BY <2>2, <2>3
  <1>4. \A k \in System : nextId'[k] > 0
    BY <1>1 DEF NamesInv
  <1> QED
    BY <1>2, <1>3, <1>4 DEF NamesInv

LEMMA NamesStep == ~CrossNode /\ Inv /\ NamesInv /\ [Next]_vars => NamesInv'
  <1> SUFFICES ASSUME ~CrossNode, Inv, NamesInv, [Next]_vars PROVE NamesInv'
    OBVIOUS
  <1>1. CASE \E a \in Actor : \E b \in Actor : Spawn(a, b)
    BY <1>1, SpawnKeepsNames
  <1>2. CASE \E a \in Actor : \E k \in System : StartNode(a, k)
    BY <1>2, StartNodeKeepsNames
  <1>3. CASE \E a \in Actor : Unregister(a)
    BY <1>3, UnregisterKeepsNames
  <1>4. CASE \E a \in Actor : \E n \in Name, b \in Actor : Register(a, n, b)
    BY <1>4, RegisterKeepsNames
  <1>5. ASSUME NEW a \in Actor, End(a) \/ Collect(a) PROVE NamesInv'
    <2>1. UNCHANGED <<id, home, linked, nextId, started, names, owner>>
      BY <1>5 DEF End, Collect, systemVars, history
    <2>2. Born' = Born
      BY <1>5 DEF End, Collect, Ready, Born, Inv, RegistryType
    <2> QED
      BY <2>1, <2>2, SameNames
  <1>6. CASE UNCHANGED <<phase, id, home, linked, nextId, started, names, owner>>
    BY <1>6, SameNames DEF Born
  <1>7. ASSUME NEW a \in Actor, Deliver(a) \/ File(a) \/ Notify(a) \/ SendRef(a) \/ SendName(a) \/ Receive(a)
        PROVE  UNCHANGED <<phase, id, home, linked, nextId, started, names, owner>>
    BY <1>7 DEF Deliver, File, Notify, SendRef, SendName, Send, Receive, systemVars, history
  <1>8. ASSUME NEW a \in Actor, NEW b \in Actor, Monitor(a, b)
        PROVE  UNCHANGED <<phase, id, home, linked, nextId, started, names, owner>>
    BY <1>8 DEF Monitor, systemVars, history
  <1>9. UNCHANGED vars => UNCHANGED <<phase, id, home, linked, nextId, started, names, owner>>
    BY DEF vars, contextVars, systemVars, history
  <1> QED
    BY <1>1, <1>2, <1>3, <1>4, <1>5, <1>6, <1>7, <1>8, <1>9 DEF Next, Runtime, Program

LEMMA NamesResolve == Inv /\ NamesInv => NameFindsLatest
  <1> SUFFICES ASSUME Inv, NamesInv, NEW k \in System, NEW n \in Name
               PROVE  Whereis(k, n) = IF owner[k][n] # None /\ owner[k][n] \in linked[k]
                                      THEN owner[k][n] ELSE None
    BY DEF NameFindsLatest
  <1>1. NameOK(k, n) /\ None \notin linked[k]
    BY ActorAssumption DEF NamesInv, Inv, RegistryType
  <1>2. CASE names[k][n] = 0
    BY <1>1, <1>2 DEF NameOK, Whereis
  <1>3. CASE names[k][n] # 0 /\ owner[k][n] \in linked[k]
    <2>1. \E c \in linked[k] : id[c] = names[k][n]
      BY <1>1, <1>3 DEF NameOK
    <2>2. FindContext(k, names[k][n]) = owner[k][n]
      BY <1>1, <1>3, <2>1 DEF NameOK, FindContext
    <2> QED
      BY <1>1, <1>3, <2>2 DEF Whereis
  <1>4. CASE names[k][n] # 0 /\ owner[k][n] \notin linked[k]
    BY <1>1, <1>4 DEF NameOK, Whereis, FindContext
  <1> QED
    BY <1>2, <1>3, <1>4

\* Where no reference is registered in another node than its own, whereis and
\* send! by name reach the actor the name was last registered for or, when it
\* has ended or moved away, nobody: register!'s replacement and
\* unregister_actor's clean-up by id never get in each other's way.
THEOREM NamesFindLatest == ~CrossNode => (Spec => []NameFindsLatest)
  <1> SUFFICES ASSUME ~CrossNode PROVE Spec => []NameFindsLatest
    OBVIOUS
  <1>1. Init => NamesInv
    BY NamesInit
  <1>2. Inv /\ NamesInv /\ [Next]_vars => NamesInv'
    BY NamesStep
  <1>3. Inv /\ NamesInv => NameFindsLatest
    BY NamesResolve
  <1> QED
    BY <1>1, <1>2, <1>3, InvHolds, PTL DEF Spec

(***************************************************************************)
(* <down> messages.                                                        *)
(***************************************************************************)
CallRecord == [op : {"idle"}] \cup [op : {"send"}, to : Actor]
              \cup [op : {"monitor"}, to : Actor, in : System]
MonitorEntry == [watcher : Nat, target : Nat]
EntryOf(a, b) == [watcher |-> id[a], target |-> id[b]]
Listed(k) == {monitors[k][i] : i \in 1 .. Len(monitors[k])}

DownType ==
  /\ mail \in [Actor -> Seq(Actor \cup {Plain})]
  /\ doing \in [Actor -> CallRecord]
  /\ targets \in [Actor -> Seq(Actor)]
  /\ monitors \in [System -> Seq(MonitorEntry)]
  /\ watched \in [Actor \X Actor -> Nat]
  /\ downs \in [Actor \X Actor -> Nat]
  /\ asked \in SUBSET (Born \X Born)

\* An entry is by ids: whoever has them in the node of the list is the pair
\* that called monitor, also after one of them has moved or ended.
MonitorsOK(k) ==
  /\ k \notin started => k # Default /\ monitors[k] = <<>>
  /\ \A m \in Listed(k) :
       /\ m.watcher < nextId[k] /\ m.target < nextId[k]
       /\ \A c, d \in Born : home[c] = k /\ home[d] = k /\ EntryOf(c, d) = m => <<c, d>> \in asked

\* Between the two halves of monitor, nobody else gets the target's id.
CallOK(a) ==
  doing[a].op = "monitor" =>
    /\ phase[a] = "running" /\ home[a] = doing[a].in
    /\ doing[a].to \in Born /\ id[doing[a].to] < nextId[home[a]]
    /\ \A d \in Born : home[d] = home[a] /\ id[d] = id[doing[a].to] => d = doing[a].to

AskedOK ==
  /\ \A a \in Actor : \A i \in 1 .. Len(targets[a]) : <<targets[a][i], a>> \in asked
  /\ \A a, b \in Actor : watched[<<a, b>>] > 0 => <<a, b>> \in asked
  /\ DownToWatcher

DownInv ==
  /\ DownType
  /\ \A k \in System : MonitorsOK(k)
  /\ \A a \in Actor : CallOK(a)
  /\ AskedOK

\* What a watcher that has not moved has been or will be told.
ToldOK(a, b) ==
  /\ phase[b] \in {"running", "ended"} =>
       watched[<<a, b>>] = Times(monitors[Default], EntryOf(a, b)) /\ Downs(a, b) = 0
  /\ phase[b] = "notifying" => Downs(a, b) + Times(targets[b], a) = watched[<<a, b>>]
  /\ phase[b] = "gone" => Downs(a, b) = watched[<<a, b>>]

ToldInv ==
  \A a, b \in Actor : phase[a] = "running" /\ home[a] = Default /\ home[b] = Default => ToldOK(a, b)

\* notify_down has room for MaxTargets watchers of one actor.
RoomForWatchers == \A a \in Actor : Cardinality(Found(a)) <= MaxTargets

\* One more at the front of a list.
LEMMA PrependTimes ==
  ASSUME NEW T, NEW q \in Seq(T), NEW x \in T, NEW m
  PROVE  /\ <<x>> \o q \in Seq(T)
         /\ Times(<<x>> \o q, m) = Times(q, m) + (IF x = m THEN 1 ELSE 0)
         /\ \A i \in 1 .. Len(<<x>> \o q) : (<<x>> \o q)[i] = x \/ \E j \in 1 .. Len(q) : (<<x>> \o q)[i] = q[j]
<1> DEFINE p == <<x>> \o q
<1>1. /\ p \in Seq(T) /\ Len(p) = Len(q) + 1 /\ Len(q) \in Nat
      /\ \A i \in 1 .. Len(p) : p[i] = IF i <= 1 THEN <<x>>[i] ELSE q[i - 1]
  <2>1. <<x>> \in Seq(T) /\ Len(<<x>>) = 1
    OBVIOUS
  <2> QED BY <2>1, ConcatProperties, LenProperties
<1>2. p[1] = x /\ \A i \in 1 .. Len(q) : p[i + 1] = q[i]
  BY <1>1
<1> HIDE DEF p
<1>3. /\ p # <<>> /\ Head(p) = x
      /\ Tail(p) \in Seq(T) /\ Len(Tail(p)) = Len(q) /\ \A i \in 1 .. Len(q) : Tail(p)[i] = p[i + 1]
  <2>1. p # <<>>
    BY <1>1, EmptySeq
  <2> QED BY <1>1, <1>2, <2>1, HeadTailProperties
<1>4. Tail(p) = q
  BY <1>2, <1>3, SeqEqual
<1>5. \A i \in 1 .. Len(p) : p[i] = x \/ \E j \in 1 .. Len(q) : p[i] = q[j]
  <2> SUFFICES ASSUME NEW i \in 1 .. Len(p), i # 1 PROVE \E j \in 1 .. Len(q) : p[i] = q[j]
    BY <1>2
  <2>1. i - 1 \in 1 .. Len(q) /\ p[i] = q[i - 1]
    BY <1>1
  <2> QED BY <2>1
<1> QED BY <1>1, <1>3, <1>4, <1>5, TailTimes DEF p

LEMMA FindSelf ==
  ASSUME Inv, NEW k \in System, NEW c \in linked[k]
  PROVE  FindContext(k, id[c]) = c
  BY DEF FindContext, Inv, RegistryType, LinkedAtHome, IdsInv, Born

LEMMA FindFacts ==
  ASSUME Inv, NEW k \in System, NEW i, FindContext(k, i) # None
  PROVE  /\ FindContext(k, i) \in Born /\ home[FindContext(k, i)] = k
         /\ id[FindContext(k, i)] = i
<1>1. FindContext(k, i) \in linked[k] /\ id[FindContext(k, i)] = i
  BY DEF FindContext
<1> QED BY <1>1 DEF Inv, RegistryType, LinkedAtHome, Born

LEMMA FoundFacts ==
  ASSUME DownType, RegistryType, NEW a \in Actor
  PROVE  /\ home[a] \in System /\ monitors[home[a]] \in Seq(MonitorEntry)
         /\ Found(a) \in SUBSET (1 .. Len(monitors[home[a]]))
  BY LenProperties DEF Found, DownType, RegistryType

\* notify_down's array, position by position.
LEMMA WatchersFacts ==
  ASSUME Inv, DownInv, NEW a \in Actor
  PROVE  /\ Watchers(a) \in Seq(Actor)
         /\ \A i \in 1 .. Len(Watchers(a)) :
              /\ Watchers(a)[i] \in Born /\ home[Watchers(a)[i]] = home[a]
              /\ EntryOf(Watchers(a)[i], a) \in Listed(home[a])
<1> DEFINE k == home[a]
           list == monitors[k]
           S == Found(a)
           es == Sublist(list, S)
           room == IF Len(es) <= MaxTargets THEN Len(es) ELSE MaxTargets
<1>1. k \in System /\ list \in Seq(MonitorEntry) /\ S \in SUBSET (1 .. Len(list))
  BY FoundFacts DEF Inv, DownInv
<1>2. Watchers(a) = [i \in 1 .. room |-> FindContext(k, es[i].watcher)]
  BY DEF Watchers
<1>3. \A j \in S : list[j].target = id[a] /\ FindContext(k, list[j].watcher) # None
  BY DEF Found
<1> HIDE DEF k, list, S
<1>4. /\ Len(es) \in Nat /\ Len(es) = Cardinality(S)
      /\ \A i \in 1 .. Len(es) : InOrder(S)[i] \in S /\ es[i] = list[InOrder(S)[i]]
  <2>1. /\ Len(Sublist(list, S)) = Cardinality(S) /\ Cardinality(S) \in Nat
        /\ \A i \in 1 .. Cardinality(S) : InOrder(S)[i] \in S /\ Sublist(list, S)[i] = list[InOrder(S)[i]]
    BY SMTT(60), <1>1, SublistFacts
  <2> QED BY <2>1
<1> HIDE DEF es
<1>5. room \in Nat /\ room <= Len(es)
  BY <1>4, MaxTargetsAssumption
<1> HIDE DEF room
<1>6. ASSUME NEW i \in 1 .. room
      PROVE  /\ FindContext(k, es[i].watcher) \in Born /\ home[FindContext(k, es[i].watcher)] = k
             /\ EntryOf(FindContext(k, es[i].watcher), a) \in Listed(k)
  <2>1. i \in 1 .. Len(es)
    BY <1>4, <1>5
  <2>2. PICK j \in S : es[i] = list[j]
    BY <1>4, <2>1
  <2>3. j \in 1 .. Len(list) /\ list[j] \in MonitorEntry
    BY <1>1, ElementOfSeq
  <2>4. es[i].target = id[a] /\ FindContext(k, es[i].watcher) # None
    BY <1>3, <2>2
  <2>5. /\ FindContext(k, es[i].watcher) \in Born /\ home[FindContext(k, es[i].watcher)] = k
        /\ id[FindContext(k, es[i].watcher)] = es[i].watcher
    BY <1>1, <2>4, FindFacts
  <2>6. EntryOf(FindContext(k, es[i].watcher), a) = es[i]
    BY <2>2, <2>3, <2>4, <2>5 DEF EntryOf, MonitorEntry
  <2>7. es[i] \in Listed(k)
    BY <2>2, <2>3 DEF Listed, list
  <2> QED BY <2>5, <2>6, <2>7
<1>7. Watchers(a) \in [1 .. room -> Actor]
  BY <1>2, <1>6 DEF Born
<1>8. Watchers(a) \in Seq(Actor) /\ Len(Watchers(a)) = room
  BY <1>5, <1>7, SeqDef, LenProperties
<1> QED BY <1>2, <1>6, <1>8 DEF k

\* With room for all, it names each watcher as often as there are entries.
LEMMA WatchersTimes ==
  ASSUME Inv, DownInv, RoomForWatchers,
         NEW a \in Actor, NEW b \in Actor, home[a] = home[b], phase[a] = "running"
  PROVE  Times(Watchers(b), a) = Times(monitors[home[b]], EntryOf(a, b))
<1> DEFINE k == home[b]
           list == monitors[k]
           S == Found(b)
           es == Sublist(list, S)
           e == EntryOf(a, b)
           w == Watchers(b)
<1>1. k \in System /\ list \in Seq(MonitorEntry) /\ S \in SUBSET (1 .. Len(list))
  BY FoundFacts DEF Inv, DownInv
<1>2. \A j \in S : list[j].target = id[b] /\ FindContext(k, list[j].watcher) # None
  BY DEF Found
<1>3. FindContext(k, id[a]) = a /\ a # None
  <2>1. a \in linked[k]
    BY <1>1 DEF Inv, LinkedAtHome
  <2> QED BY <1>1, <2>1, FindSelf, ActorAssumption
<1>4. \A j \in 1 .. Len(list) : list[j] = e => j \in S
  BY <1>1, <1>3, LenProperties DEF Found, EntryOf
<1>5. /\ es \in Seq(MonitorEntry) /\ Len(es) = Cardinality(S) /\ Len(es) \in Nat
      /\ \A i \in 1 .. Len(es) : InOrder(S)[i] \in S /\ es[i] = list[InOrder(S)[i]]
  <2> HIDE DEF k, list, S
  <2>1. /\ Sublist(list, S) \in Seq(MonitorEntry)
        /\ Len(Sublist(list, S)) = Cardinality(S) /\ Cardinality(S) \in Nat
        /\ \A i \in 1 .. Cardinality(S) : InOrder(S)[i] \in S /\ Sublist(list, S)[i] = list[InOrder(S)[i]]
    BY SMTT(60), <1>1, SublistFacts
  <2> QED BY <2>1
<1>6. Times(es, e) = Times(list, e)
  BY <1>1, <1>4, SublistTimes DEF Hits
<1>7. w = [i \in 1 .. Len(es) |-> FindContext(k, es[i].watcher)]
  BY <1>5 DEF Watchers, RoomForWatchers
<1>8. w \in Seq(Actor) /\ Len(w) = Len(es)
  <2>1. w \in Seq(Actor)
    BY WatchersFacts
  <2>2. DOMAIN w = 1 .. Len(es)
    BY <1>7
  <2> QED BY <1>5, <2>1, <2>2, LenProperties
<1> HIDE DEF k, list, S, es, e, w
<1>9. ASSUME NEW i \in 1 .. Len(es) PROVE w[i] = a <=> es[i] = e
  <2>1. PICK j \in S : es[i] = list[j]
    BY <1>5
  <2>2. es[i] \in MonitorEntry /\ es[i].target = id[b] /\ FindContext(k, es[i].watcher) # None
    BY <1>2, <1>5, <2>1, ElementOfSeq
  <2>3. id[FindContext(k, es[i].watcher)] = es[i].watcher
    BY <1>1, <2>2, FindFacts
  <2>4. w[i] = FindContext(k, es[i].watcher)
    BY <1>7
  <2>5. ASSUME w[i] = a PROVE es[i] = e
    BY <2>2, <2>3, <2>4, <2>5 DEF e, EntryOf, MonitorEntry
  <2>6. ASSUME es[i] = e PROVE w[i] = a
    BY <1>3, <2>4, <2>6 DEF e, EntryOf
  <2> QED BY <2>5, <2>6
<1>10. Hits(w, a) = Hits(es, e)
  BY <1>8, <1>9 DEF Hits
<1> QED BY <1>6, <1>10 DEF Times, k, list, e, w

LEMMA DownInit == Init => DownInv /\ ToldInv
<1> SUFFICES ASSUME Init PROVE DownInv /\ ToldInv
  OBVIOUS
<1>1. /\ mail = [a \in Actor |-> <<>>] /\ targets = [a \in Actor |-> <<>>]
      /\ doing = [a \in Actor |-> Idle] /\ monitors = [k \in System |-> <<>>]
      /\ watched = [p \in Actor \X Actor |-> 0] /\ downs = [p \in Actor \X Actor |-> 0] /\ asked = {}
      /\ \A b \in Actor : phase[b] \in {"running", "unborn"}
  BY DEF Init
<1>2. \A T : <<>> \in Seq(T) /\ Len(<<>>) = 0
  OBVIOUS
<1>3. Idle \in CallRecord /\ Idle.op # "monitor"
  BY DEF Idle, CallRecord
<1>4. DownType
  BY <1>1, <1>2, <1>3 DEF DownType
<1>5. \A m : Times(<<>>, m) = 0
  BY FS_EmptySet DEF Times, Hits
<1>6. \A a, b \in Actor : Downs(a, b) = 0 /\ watched[<<a, b>>] = 0
  BY <1>1, <1>5 DEF Downs, Times, Hits
<1>7. AskedOK
  <2>1. \A a \in Actor : Len(targets[a]) = 0
    BY <1>1, <1>2
  <2>2. \A a, b \in Actor : ~ (Downs(a, b) > 0) /\ ~ (watched[<<a, b>>] > 0)
    <3> SUFFICES ASSUME NEW a \in Actor, NEW b \in Actor
                 PROVE  ~ (Downs(a, b) > 0) /\ ~ (watched[<<a, b>>] > 0)
      OBVIOUS
    <3>1. Downs(a, b) = 0 /\ watched[<<a, b>>] = 0
      BY <1>6
    <3> QED BY <3>1
  <2> QED BY <2>1, <2>2 DEF AskedOK, DownToWatcher
<1>8. \A k \in System : MonitorsOK(k)
  <2>1. Default \in started
    BY DEF Init
  <2> QED BY <1>1, <1>2, <2>1 DEF MonitorsOK, Listed
<1>9. \A a \in Actor : CallOK(a)
  BY <1>1, <1>3 DEF CallOK
<1>10. ToldInv
  BY <1>1, <1>5, <1>6, SystemAssumption DEF ToldInv, ToldOK
<1> QED BY <1>4, <1>7, <1>8, <1>9, <1>10 DEF DownInv

\* downs is what was received, Times(mail) what is on its way.
LEMMA DownsFacts ==
  ASSUME DownType, NEW a \in Actor, NEW b \in Actor
  PROVE  /\ Downs(a, b) = downs[<<a, b>>] + Times(mail[a], b)
         /\ downs[<<a, b>>] \in Nat /\ Times(mail[a], b) \in Nat /\ Downs(a, b) \in Nat
<1>1. mail[a] \in Seq(Actor \cup {Plain}) /\ downs[<<a, b>>] \in Nat
  BY DEF DownType
<1>2. Times(mail[a], b) \in Nat
  BY <1>1, HitsFinite
<1>3. Downs(a, b) = downs[<<a, b>>] + Times(mail[a], b)
  BY DEF Downs, Times, Hits
<1> QED BY <1>1, <1>2, <1>3

LEMMA DownsSame ==
  ASSUME UNCHANGED <<mail, downs>>
  PROVE  \A a, b \in Actor : Downs(a, b)' = Downs(a, b)
  BY DEF Downs

\* Steps that concern no monitor, no watcher and no <down>.
LEMMA QuietDown ==
  ASSUME Inv, DownInv,
         UNCHANGED <<phase, id, home, nextId, started, monitors, targets, watched, asked>>,
         mail' \in [Actor -> Seq(Actor \cup {Plain})], doing' \in [Actor -> CallRecord],
         downs' \in [Actor \X Actor -> Nat],
         \A a \in Actor : CallOK(a)',
         \A a, b \in Actor : Downs(a, b)' = Downs(a, b)
  PROVE  DownInv' /\ (ToldInv => ToldInv')
<1>1. DownType'
  BY DEF DownInv, DownType, Born
<1>2. \A k \in System : MonitorsOK(k)'
  BY DEF DownInv, MonitorsOK, Listed, EntryOf, Born
<1>3. AskedOK'
  BY DEF DownInv, AskedOK, DownToWatcher
<1>4. ToldInv => ToldInv'
  BY DEF ToldInv, ToldOK, EntryOf
<1> QED BY <1>1, <1>2, <1>3, <1>4 DEF DownInv

LEMMA CallKept ==
  ASSUME NEW c \in Actor, CallOK(c), doing'[c] = doing[c], UNCHANGED <<phase, id, home, nextId>>
  PROVE  CallOK(c)'
  BY DEF CallOK, Born

LEMMA SendKeepsDown ==
  ASSUME Inv, DownInv, NEW a \in Actor, NEW b \in Actor, Send(a, b)
  PROVE  DownInv' /\ (ToldInv => ToldInv')
<1>1. /\ UNCHANGED <<phase, id, home, nextId, started, monitors, targets, watched, asked>>
      /\ UNCHANGED <<mail, downs>>
      /\ doing' = [doing EXCEPT ![a] = [op |-> "send", to |-> b]]
  BY DEF Send, systemVars, history
<1>2. doing \in [Actor -> CallRecord] /\ mail \in [Actor -> Seq(Actor \cup {Plain})]
      /\ downs \in [Actor \X Actor -> Nat]
  BY DEF DownInv, DownType
<1>3. [op |-> "send", to |-> b] \in CallRecord /\ [op |-> "send", to |-> b].op # "monitor"
  BY DEF CallRecord
<1>4. doing' \in [Actor -> CallRecord] /\ doing'[a].op # "monitor"
      /\ \A c \in Actor \ {a} : doing'[c] = doing[c]
  BY <1>1, <1>2, <1>3
<1>5. ASSUME NEW c \in Actor PROVE CallOK(c)'
  <2>1. CASE c = a
    BY <1>4, <2>1 DEF CallOK
  <2>2. CASE c # a
    BY <1>1, <1>4, <2>2, CallKept DEF DownInv
  <2> QED BY <2>1, <2>2
<1> QED BY <1>1, <1>2, <1>4, <1>5, DownsSame, QuietDown

LEMMA WhereisFacts ==
  ASSUME Inv, NEW k \in System, NEW n, Whereis(k, n) # None
  PROVE  Whereis(k, n) \in Actor
  BY FindFacts DEF Whereis, Born

LEMMA DeliverKeepsDown ==
  ASSUME Inv, DownInv, NEW a \in Actor, Deliver(a)
  PROVE  DownInv' /\ (ToldInv => ToldInv')
<1> DEFINE b == doing[a].to
<1>1. /\ UNCHANGED <<phase, id, home, nextId, started, monitors, targets, watched, asked>>
      /\ UNCHANGED downs
      /\ mail' = [mail EXCEPT ![b] = Append(@, Plain)]
      /\ doing' = [doing EXCEPT ![a] = Idle]
      /\ doing[a].op = "send"
  BY DEF Deliver, systemVars, history
<1>2. doing \in [Actor -> CallRecord] /\ mail \in [Actor -> Seq(Actor \cup {Plain})]
      /\ downs \in [Actor \X Actor -> Nat]
  BY DEF DownInv, DownType
<1>3. Idle \in CallRecord /\ Idle.op # "monitor"
  BY DEF Idle, CallRecord
<1>4. doing' \in [Actor -> CallRecord] /\ doing'[a].op # "monitor"
      /\ \A c \in Actor \ {a} : doing'[c] = doing[c]
  BY <1>1, <1>2, <1>3
<1>5. b \in Actor
  BY <1>1, <1>2 DEF CallRecord
<1> HIDE DEF b
<1>6. ASSUME NEW c \in Actor PROVE CallOK(c)'
  <2>1. CASE c = a
    BY <1>4, <2>1 DEF CallOK
  <2>2. CASE c # a
    BY <1>1, <1>4, <2>2, CallKept DEF DownInv
  <2> QED BY <2>1, <2>2
<1>7. /\ mail' \in [Actor -> Seq(Actor \cup {Plain})]
      /\ mail'[b] = Append(mail[b], Plain) /\ \A c \in Actor \ {b} : mail'[c] = mail[c]
  <2>1. Append(mail[b], Plain) \in Seq(Actor \cup {Plain})
    BY <1>2, <1>5, AppendProperties
  <2> QED BY <1>1, <1>2, <1>5, <2>1
<1>8. ASSUME NEW c \in Actor, NEW d \in Actor PROVE Downs(c, d)' = Downs(c, d)
  <2>1. Times(mail'[c], d) = Times(mail[c], d)
    <3>1. CASE c = b
      <4>1. Plain # d
        BY PlainAssumption
      <4>2. Times(Append(mail[b], Plain), d) = Times(mail[b], d) + 0
        <5>1. mail[b] \in Seq(Actor \cup {Plain}) /\ Plain \in Actor \cup {Plain}
          BY <1>2, <1>5
        <5>2. Times(Append(mail[b], Plain), d) = Times(mail[b], d) + (IF Plain = d THEN 1 ELSE 0)
          BY <5>1, AppendTimes
        <5>3. (IF Plain = d THEN 1 ELSE 0) = 0
          BY <4>1
        <5> QED BY <5>2, <5>3
      <4>3. Times(mail[b], d) \in Nat
        BY <1>2, <1>5, HitsFinite
      <4>4. Times(Append(mail[b], Plain), d) = Times(mail[b], d)
        BY <4>2, <4>3
      <4>5. mail'[c] = Append(mail[b], Plain) /\ mail[c] = mail[b]
        BY <1>7, <3>1
      <4> QED BY <4>4, <4>5
    <3>2. CASE c # b
      BY <1>7, <3>2
    <3> QED BY <3>1, <3>2
  <2> QED BY <1>1, <2>1 DEF Downs, Times, Hits
<1> QED BY <1>1, <1>2, <1>4, <1>6, <1>7, <1>8, QuietDown

LEMMA ReceiveKeepsDown ==
  ASSUME Inv, DownInv, NEW a \in Actor, Receive(a)
  PROVE  DownInv' /\ (ToldInv => ToldInv')
<1>1. /\ UNCHANGED <<phase, id, home, nextId, started, monitors, targets, watched, asked>>
      /\ UNCHANGED doing
      /\ mail[a] # <<>>
      /\ mail' = [mail EXCEPT ![a] = Tail(@)]
      /\ downs' = IF Head(mail[a]) = Plain THEN downs ELSE [downs EXCEPT ![<<a, Head(mail[a])>>] = @ + 1]
  BY DEF Receive, systemVars
<1>2. doing \in [Actor -> CallRecord] /\ mail \in [Actor -> Seq(Actor \cup {Plain})]
      /\ downs \in [Actor \X Actor -> Nat]
  BY DEF DownInv, DownType
<1>3. mail[a] \in Seq(Actor \cup {Plain}) /\ Tail(mail[a]) \in Seq(Actor \cup {Plain})
      /\ Head(mail[a]) \in Actor \cup {Plain}
  BY <1>1, <1>2, HeadTailProperties
<1>4. /\ mail' \in [Actor -> Seq(Actor \cup {Plain})]
      /\ mail'[a] = Tail(mail[a]) /\ \A c \in Actor \ {a} : mail'[c] = mail[c]
  BY <1>1, <1>2, <1>3
<1>5. /\ downs' \in [Actor \X Actor -> Nat]
      /\ \A c, d \in Actor : downs'[<<c, d>>] = downs[<<c, d>>] + (IF c = a /\ Head(mail[a]) = d THEN 1 ELSE 0)
  <2>1. CASE Head(mail[a]) = Plain
    BY <1>1, <1>2, <2>1, PlainAssumption
  <2>2. CASE Head(mail[a]) # Plain
    <3> DEFINE x == Head(mail[a])
    <3>1. x \in Actor /\ downs' = [downs EXCEPT ![<<a, x>>] = @ + 1]
      BY <1>1, <1>3, <2>2
    <3> HIDE DEF x
    <3>2. /\ downs' \in [Actor \X Actor -> Nat]
          /\ \A c, d \in Actor : downs'[<<c, d>>] = downs[<<c, d>>] + (IF c = a /\ x = d THEN 1 ELSE 0)
      <4>1. \A c, d \in Actor : <<c, d>> = <<a, x>> <=> c = a /\ d = x
        OBVIOUS
      <4>2. <<a, x>> \in Actor \X Actor /\ downs[<<a, x>>] + 1 \in Nat
        BY <1>2, <3>1
      <4>3. downs' \in [Actor \X Actor -> Nat]
        BY <1>2, <3>1, <4>2
      <4>4. ASSUME NEW c \in Actor, NEW d \in Actor
            PROVE  downs'[<<c, d>>] = downs[<<c, d>>] + (IF c = a /\ x = d THEN 1 ELSE 0)
        <5>1. <<c, d>> \in Actor \X Actor /\ downs[<<c, d>>] \in Nat
          BY <1>2
        <5>2. CASE c = a /\ x = d
          BY <1>2, <3>1, <4>2, <5>2
        <5>3. CASE ~ (c = a /\ x = d)
          BY <1>2, <3>1, <4>1, <5>1, <5>3
        <5> QED BY <5>2, <5>3
      <4> QED BY <4>3, <4>4
    <3> QED BY <3>2 DEF x
  <2> QED BY <2>1, <2>2
<1>6. ASSUME NEW c \in Actor PROVE CallOK(c)'
  BY <1>1, CallKept DEF DownInv
<1>7. ASSUME NEW c \in Actor, NEW d \in Actor PROVE Downs(c, d)' = Downs(c, d)
  <2>1. Downs(c, d)' = downs'[<<c, d>>] + Times(mail'[c], d)
    BY DEF Downs, Times, Hits
  <2>2. Downs(c, d) = downs[<<c, d>>] + Times(mail[c], d) /\ downs[<<c, d>>] \in Nat
    BY DownsFacts DEF DownInv
  <2>3. CASE c = a
    <3>1. Times(mail[a], d) = Times(mail'[a], d) + (IF Head(mail[a]) = d THEN 1 ELSE 0)
      BY <1>1, <1>3, <1>4, TailTimes
    <3>2. Times(mail'[a], d) \in Nat
      BY <1>4, HitsFinite
    <3>3. downs'[<<a, d>>] = downs[<<a, d>>] + (IF Head(mail[a]) = d THEN 1 ELSE 0)
      BY <1>5
    <3> QED BY <2>1, <2>2, <2>3, <3>1, <3>2, <3>3
  <2>4. CASE c # a
    BY <1>4, <1>5, <2>1, <2>2, <2>4
  <2> QED BY <2>3, <2>4
<1> QED BY <1>1, <1>2, <1>4, <1>5, <1>6, <1>7, QuietDown

\* The target is still where monitor found it.
LEMMA MonitorKeepsDown ==
  ASSUME ~CrossNode, Inv, DownInv, NEW a \in Actor, NEW b \in Actor, Monitor(a, b)
  PROVE  DownInv' /\ (ToldInv => ToldInv')
<1>1. /\ UNCHANGED <<phase, id, home, nextId, started, monitors, targets, watched, asked>>
      /\ UNCHANGED <<mail, downs>>
      /\ doing' = [doing EXCEPT ![a] = [op |-> "monitor", to |-> b, in |-> home[b]]]
      /\ phase[a] = "running" /\ b \in Born /\ home[a] = home[b]
  BY DEF Monitor, Ready, systemVars, history
<1>2. doing \in [Actor -> CallRecord] /\ mail \in [Actor -> Seq(Actor \cup {Plain})]
      /\ downs \in [Actor \X Actor -> Nat]
  BY DEF DownInv, DownType
<1>3. [op |-> "monitor", to |-> b, in |-> home[b]] \in CallRecord
  BY DEF CallRecord, Inv, RegistryType
<1>4. doing' \in [Actor -> CallRecord] /\ doing'[a].to = b /\ doing'[a].in = home[b]
      /\ \A c \in Actor \ {a} : doing'[c] = doing[c]
  BY <1>1, <1>2, <1>3
<1>5. ASSUME NEW c \in Actor PROVE CallOK(c)'
  <2>1. CASE c = a
    <3>1. id[b] < nextId[home[b]] /\ \A d \in Born : home[d] = home[b] /\ id[d] = id[b] => d = b
      BY <1>1 DEF Inv, IdsInv
    <3>2. Born' = Born
      BY <1>1 DEF Born
    <3> QED BY <1>1, <1>4, <2>1, <3>1, <3>2 DEF CallOK
  <2>2. CASE c # a
    BY <1>1, <1>4, <2>2, CallKept DEF DownInv
  <2> QED BY <2>1, <2>2
<1> QED BY <1>1, <1>2, <1>4, <1>5, DownsSame, QuietDown

LEMMA RegisterKeepsDown ==
  ASSUME Inv, DownInv, NEW a \in Actor, NEW n \in Name, NEW b \in Actor, Register(a, n, b)
  PROVE  DownInv' /\ (ToldInv => ToldInv')
<1>1. /\ UNCHANGED <<phase, id, home, nextId, started, monitors, targets, watched, asked>>
      /\ UNCHANGED <<mail, downs>> /\ UNCHANGED doing
  BY DEF Register, contextVars
<1>2. doing \in [Actor -> CallRecord] /\ mail \in [Actor -> Seq(Actor \cup {Plain})]
      /\ downs \in [Actor \X Actor -> Nat]
  BY DEF DownInv, DownType
<1>3. \A c \in Actor : CallOK(c)'
  BY <1>1, CallKept DEF DownInv
<1> QED BY <1>1, <1>2, <1>3, DownsSame, QuietDown

LEMMA CallsWhen ==
  ASSUME DownInv, NEW a \in Actor, doing[a].op # "monitor",
         UNCHANGED <<id, home, nextId, doing>>, Born' = Born,
         \A c \in Actor \ {a} : phase'[c] = phase[c]
  PROVE  \A c \in Actor : CallOK(c)'
  BY DEF DownInv, CallOK

LEMMA EndKeepsDown ==
  ASSUME Inv, DownInv, NEW a \in Actor, End(a)
  PROVE  DownInv' /\ (ToldInv => ToldInv')
<1>1. /\ phase[a] = "running" /\ doing[a] = Idle
      /\ phase' = [phase EXCEPT ![a] = "ended"]
      /\ UNCHANGED <<id, home, nextId, started, monitors, targets, watched, asked>>
      /\ UNCHANGED <<mail, downs>> /\ UNCHANGED doing
  BY DEF End, Ready, systemVars, history
<1>2. phase \in [Actor -> Phase]
  BY DEF Inv, RegistryType
<1>3. phase'[a] = "ended" /\ \A c \in Actor \ {a} : phase'[c] = phase[c]
  BY <1>1, <1>2
<1>4. Born' = Born
  BY <1>1, <1>3 DEF Born
<1>5. \A c \in Actor : CallOK(c)'
  BY <1>1, <1>3, <1>4, CallsWhen DEF Idle
<1>6. \A c, d \in Actor : Downs(c, d)' = Downs(c, d)
  BY <1>1, DownsSame
<1>7. DownType'
  BY <1>1, <1>4 DEF DownInv, DownType
<1>8. \A k \in System : MonitorsOK(k)'
  BY <1>1, <1>4 DEF DownInv, MonitorsOK, Listed, EntryOf
<1>9. AskedOK'
  BY <1>1, <1>6 DEF DownInv, AskedOK, DownToWatcher
<1>10. ASSUME ToldInv PROVE ToldInv'
  <2> SUFFICES ASSUME NEW c \in Actor, NEW d \in Actor,
                      phase'[c] = "running", home'[c] = Default, home'[d] = Default
               PROVE  ToldOK(c, d)'
    BY DEF ToldInv
  <2>1. phase[c] = "running" /\ home[c] = Default /\ home[d] = Default
    BY <1>1, <1>3
  <2>2. ToldOK(c, d)
    BY <1>10, <2>1 DEF ToldInv
  <2>3. Downs(c, d)' = Downs(c, d)
    BY <1>6
  <2> QED BY <1>1, <1>3, <2>2, <2>3 DEF ToldOK, EntryOf
<1> QED BY <1>5, <1>7, <1>8, <1>9, <1>10 DEF DownInv

LEMMA CollectKeepsDown ==
  ASSUME Inv, DownInv, NEW a \in Actor, Collect(a)
  PROVE  DownInv' /\ (RoomForWatchers /\ ToldInv => ToldInv')
<1>1. /\ phase[a] = "ended" /\ a \in Born
      /\ phase' = [phase EXCEPT ![a] = "notifying"]
      /\ targets' = [targets EXCEPT ![a] = Watchers(a)]
      /\ UNCHANGED <<id, home, nextId, started, monitors, watched, asked>>
      /\ UNCHANGED <<mail, downs>> /\ UNCHANGED doing
  BY DEF Collect, systemVars, history, Born
<1>2. phase \in [Actor -> Phase] /\ home \in [Actor -> System] /\ targets \in [Actor -> Seq(Actor)]
  BY DEF Inv, RegistryType, DownInv, DownType
<1>3. phase'[a] = "notifying" /\ \A c \in Actor \ {a} : phase'[c] = phase[c]
  BY <1>1, <1>2
<1>4. Born' = Born
  BY <1>1, <1>3 DEF Born
<1>5. \A c \in Actor : CallOK(c)'
  <2>1. doing[a].op # "monitor"
    BY <1>1 DEF DownInv, CallOK
  <2> QED BY <1>1, <1>3, <1>4, <2>1, CallsWhen
<1>6. \A c, d \in Actor : Downs(c, d)' = Downs(c, d)
  BY <1>1, DownsSame
<1>7. /\ Watchers(a) \in Seq(Actor)
      /\ \A i \in 1 .. Len(Watchers(a)) : <<Watchers(a)[i], a>> \in asked
  <2>1. Watchers(a) \in Seq(Actor)
    BY WatchersFacts
  <2>2. ASSUME NEW i \in 1 .. Len(Watchers(a)) PROVE <<Watchers(a)[i], a>> \in asked
    <3>1. /\ Watchers(a)[i] \in Born /\ home[Watchers(a)[i]] = home[a]
          /\ EntryOf(Watchers(a)[i], a) \in Listed(home[a])
      BY WatchersFacts
    <3>2. MonitorsOK(home[a])
      BY <1>2 DEF DownInv
    <3> HIDE DEF Watchers, EntryOf, Listed
    <3> QED BY <1>1, <3>1, <3>2 DEF MonitorsOK
  <2> QED BY <2>1, <2>2
<1>8. /\ targets' \in [Actor -> Seq(Actor)]
      /\ targets'[a] = Watchers(a) /\ \A c \in Actor \ {a} : targets'[c] = targets[c]
  BY <1>1, <1>2, <1>7
<1>9. DownType'
  BY <1>1, <1>4, <1>8 DEF DownInv, DownType
<1>10. \A k \in System : MonitorsOK(k)'
  BY <1>1, <1>4 DEF DownInv, MonitorsOK, Listed, EntryOf
<1>11. AskedOK'
  <2>1. \A c \in Actor : \A i \in 1 .. Len(targets'[c]) : <<targets'[c][i], c>> \in asked'
    BY <1>1, <1>7, <1>8 DEF DownInv, AskedOK
  <2>2. (\A c, d \in Actor : watched[<<c, d>>] > 0 => <<c, d>> \in asked)' /\ DownToWatcher'
    BY <1>1, <1>6 DEF DownInv, AskedOK, DownToWatcher
  <2> QED BY <2>1, <2>2 DEF AskedOK
<1>12. ASSUME RoomForWatchers, ToldInv PROVE ToldInv'
  <2> SUFFICES ASSUME NEW c \in Actor, NEW d \in Actor,
                      phase'[c] = "running", home'[c] = Default, home'[d] = Default
               PROVE  ToldOK(c, d)'
    BY DEF ToldInv
  <2>1. phase[c] = "running" /\ home[c] = Default /\ home[d] = Default
    BY <1>1, <1>3
  <2>2. ToldOK(c, d)
    BY <1>12, <2>1 DEF ToldInv
  <2>3. Downs(c, d)' = Downs(c, d) /\ Downs(c, d) \in Nat
    BY <1>6, DownsFacts DEF DownInv
  <2>4. CASE d = a
    <3>1. watched[<<c, a>>] = Times(monitors[Default], EntryOf(c, a)) /\ Downs(c, a) = 0
      BY <1>1, <2>2, <2>4 DEF ToldOK
    <3>2. Times(Watchers(a), c) = Times(monitors[Default], EntryOf(c, a))
      BY <1>12, <2>1, <2>4, WatchersTimes
    <3>3. watched[<<c, a>>] \in Nat
      BY DEF DownInv, DownType
    <3>4. Downs(c, a)' + Times(targets'[a], c) = watched'[<<c, a>>]
      BY <1>1, <1>8, <2>3, <2>4, <3>1, <3>2, <3>3
    <3> QED BY <1>3, <2>4, <3>4 DEF ToldOK
  <2>5. CASE d # a
    BY <1>1, <1>3, <1>8, <2>2, <2>3, <2>5 DEF ToldOK, EntryOf
  <2> QED BY <2>4, <2>5
<1> QED BY <1>5, <1>9, <1>10, <1>11, <1>12 DEF DownInv

\* One <down> leaves the array for a mailbox.
LEMMA NotifyKeepsDown ==
  ASSUME Inv, DownInv, NEW a \in Actor, Notify(a)
  PROVE  DownInv' /\ (ToldInv => ToldInv')
<1> DEFINE w == Head(targets[a])
<1>1. /\ phase[a] = "notifying" /\ targets[a] # <<>>
      /\ UNCHANGED <<phase, id, home, nextId, started, monitors, watched, asked>>
      /\ UNCHANGED downs /\ UNCHANGED doing
      /\ mail' = [mail EXCEPT ![w] = Append(@, a)]
      /\ targets' = [targets EXCEPT ![a] = Tail(@)]
  BY DEF Notify, systemVars, history
<1>2. /\ targets \in [Actor -> Seq(Actor)] /\ mail \in [Actor -> Seq(Actor \cup {Plain})]
  BY DEF DownInv, DownType
<1>3. /\ targets[a] \in Seq(Actor) /\ w \in Actor /\ w = targets[a][1]
      /\ Tail(targets[a]) \in Seq(Actor) /\ Len(Tail(targets[a])) = Len(targets[a]) - 1
      /\ Len(targets[a]) \in Nat \ {0}
      /\ \A i \in 1 .. Len(Tail(targets[a])) : Tail(targets[a])[i] = targets[a][i + 1]
  BY <1>1, <1>2, HeadTailProperties, EmptySeq, LenProperties
<1> HIDE DEF w
<1>4. /\ targets' \in [Actor -> Seq(Actor)]
      /\ targets'[a] = Tail(targets[a]) /\ \A c \in Actor \ {a} : targets'[c] = targets[c]
  BY <1>1, <1>2, <1>3
<1>5. /\ mail' \in [Actor -> Seq(Actor \cup {Plain})]
      /\ mail'[w] = Append(mail[w], a) /\ \A c \in Actor \ {w} : mail'[c] = mail[c]
  <2>1. Append(mail[w], a) \in Seq(Actor \cup {Plain})
    BY <1>2, <1>3, AppendProperties
  <2> QED BY <1>1, <1>2, <1>3, <2>1
<1>6. \A c \in Actor : CallOK(c)'
  BY <1>1, CallKept DEF DownInv
<1>7. ASSUME NEW c \in Actor, NEW d \in Actor
      PROVE  /\ Downs(c, d) \in Nat
             /\ Downs(c, d)' = Downs(c, d) + (IF c = w /\ d = a THEN 1 ELSE 0)
  <2>1. Downs(c, d)' = downs[<<c, d>>] + Times(mail'[c], d)
    BY <1>1 DEF Downs, Times, Hits
  <2>2. /\ Downs(c, d) = downs[<<c, d>>] + Times(mail[c], d) /\ downs[<<c, d>>] \in Nat
        /\ Times(mail[c], d) \in Nat /\ Downs(c, d) \in Nat
    BY DownsFacts DEF DownInv
  <2>3. CASE c = w
    <3>1. mail[w] \in Seq(Actor \cup {Plain}) /\ a \in Actor \cup {Plain}
      BY <1>2, <1>3
    <3>2. Times(Append(mail[w], a), d) = Times(mail[w], d) + (IF a = d THEN 1 ELSE 0)
      BY <3>1, AppendTimes
    <3>3. Times(mail'[c], d) = Times(mail[c], d) + (IF a = d THEN 1 ELSE 0)
      BY <1>5, <2>3, <3>2
    <3>4. CASE a = d
      <4>1. Times(mail'[c], d) = Times(mail[c], d) + 1
        BY <3>3, <3>4
      <4> QED BY <2>1, <2>2, <2>3, <3>4, <4>1
    <3>5. CASE a # d
      <4>1. Times(mail'[c], d) = Times(mail[c], d)
        BY <2>2, <3>3, <3>5
      <4> QED BY <2>1, <2>2, <2>3, <3>5, <4>1
    <3> QED BY <3>4, <3>5
  <2>4. CASE c # w
    BY <1>5, <2>1, <2>2, <2>4
  <2> QED BY <2>3, <2>4
<1>8. DownType'
  BY <1>1, <1>4, <1>5 DEF DownInv, DownType, Born
<1>9. \A k \in System : MonitorsOK(k)'
  BY <1>1 DEF DownInv, MonitorsOK, Listed, EntryOf, Born
<1>10. <<w, a>> \in asked
  <2>1. 1 \in 1 .. Len(targets[a])
    BY <1>3
  <2> QED BY <1>3, <2>1 DEF DownInv, AskedOK
<1>11. AskedOK'
  <2>1. ASSUME NEW c \in Actor, NEW i \in 1 .. Len(targets'[c]) PROVE <<targets'[c][i], c>> \in asked'
    <3>1. CASE c = a
      <4>1. i \in 1 .. Len(Tail(targets[a]))
        BY <1>4, <3>1
      <4>2. targets'[c][i] = targets[a][i + 1]
        BY <1>3, <1>4, <3>1, <4>1
      <4>3. i + 1 \in 1 .. Len(targets[a])
        BY <1>3, <4>1
      <4>4. <<targets[a][i + 1], a>> \in asked
        BY <4>3 DEF DownInv, AskedOK
      <4> QED BY <1>1, <3>1, <4>2, <4>4
    <3>2. CASE c # a
      BY <1>1, <1>4, <2>1, <3>2 DEF DownInv, AskedOK
    <3> QED BY <3>1, <3>2
  <2>2. (\A c, d \in Actor : watched[<<c, d>>] > 0 => <<c, d>> \in asked)'
    BY <1>1 DEF DownInv, AskedOK
  <2>3. ASSUME NEW c \in Actor, NEW d \in Actor, Downs(c, d)' > 0 PROVE <<c, d>> \in asked
    <3>1. CASE c = w /\ d = a
      BY <1>10, <3>1
    <3>2. CASE ~ (c = w /\ d = a)
      <4>1. Downs(c, d) > 0
        BY <1>7, <2>3, <3>2
      <4> QED BY <4>1 DEF DownInv, AskedOK, DownToWatcher
    <3> QED BY <3>1, <3>2
  <2> QED BY <1>1, <2>1, <2>2, <2>3 DEF AskedOK, DownToWatcher
<1>12. ASSUME ToldInv PROVE ToldInv'
  <2> SUFFICES ASSUME NEW c \in Actor, NEW d \in Actor,
                      phase'[c] = "running", home'[c] = Default, home'[d] = Default
               PROVE  ToldOK(c, d)'
    BY DEF ToldInv
  <2>1. ToldOK(c, d)
    BY <1>1, <1>12 DEF ToldInv
  <2>2. CASE d = a
    <3>1. Downs(c, a) + Times(targets[a], c) = watched[<<c, a>>]
      BY <1>1, <2>1, <2>2 DEF ToldOK
    <3>2. Times(targets[a], c) = Times(Tail(targets[a]), c) + (IF w = c THEN 1 ELSE 0)
      BY <1>1, <1>3, TailTimes DEF w
    <3>3. Times(Tail(targets[a]), c) \in Nat
      BY <1>3, HitsFinite
    <3>4. Downs(c, a) \in Nat /\ Downs(c, a)' = Downs(c, a) + (IF c = w THEN 1 ELSE 0)
      BY <1>7
    <3>5. Downs(c, a)' + Times(Tail(targets[a]), c) = watched[<<c, a>>]
      <4>1. CASE w = c
        BY <3>1, <3>2, <3>3, <3>4, <4>1
      <4>2. CASE w # c
        BY <3>1, <3>2, <3>3, <3>4, <4>2
      <4> QED BY <4>1, <4>2
    <3>6. Downs(c, a)' + Times(targets'[a], c) = watched'[<<c, a>>]
      BY <1>1, <1>4, <3>5
    <3> QED BY <1>1, <2>2, <3>6 DEF ToldOK
  <2>3. CASE d # a
    <3>1. Downs(c, d)' = Downs(c, d) /\ targets'[d] = targets[d]
      <4>1. Downs(c, d) \in Nat /\ Downs(c, d)' = Downs(c, d) + 0
        BY <1>7, <2>3
      <4> QED BY <1>4, <2>3, <4>1
    <3> QED BY <1>1, <2>1, <3>1 DEF ToldOK, EntryOf
  <2> QED BY <2>2, <2>3
<1> QED BY <1>6, <1>8, <1>9, <1>11, <1>12 DEF DownInv

\* unregister_actor removes the entries of the actor, as watcher or target.
LEMMA ForgetFacts ==
  ASSUME DownType, RegistryType, NEW a \in Actor, ForgetMonitors(a)
  PROVE  /\ monitors' \in [System -> Seq(MonitorEntry)]
         /\ \A k \in System \ {home[a]} : monitors'[k] = monitors[k]
         /\ \A k \in System : Listed(k)' \subseteq Listed(k)
         /\ \A m \in MonitorEntry : id[a] \notin {m.watcher, m.target} =>
              Times(monitors'[home[a]], m) = Times(monitors[home[a]], m)
<1> DEFINE h == home[a]
           list == monitors[h]
           S == {i \in DOMAIN list : id[a] \notin {list[i].watcher, list[i].target}}
           rest == Sublist(list, S)
<1>1. /\ h \in System /\ monitors \in [System -> Seq(MonitorEntry)] /\ list \in Seq(MonitorEntry)
      /\ monitors' = [monitors EXCEPT ![h] = rest]
  BY DEF ForgetMonitors, DownType, RegistryType
<1>2. S \in SUBSET (1 .. Len(list))
  BY <1>1, LenProperties
<1>3. /\ rest \in Seq(MonitorEntry)
      /\ \A i \in 1 .. Len(rest) : \E j \in 1 .. Len(list) : rest[i] = list[j]
  <2> HIDE DEF list, S
  <2>1. /\ rest \in Seq(MonitorEntry) /\ Len(rest) = Cardinality(S)
        /\ \A i \in 1 .. Cardinality(S) : InOrder(S)[i] \in S /\ rest[i] = list[InOrder(S)[i]]
    BY SMTT(60), <1>1, <1>2, SublistFacts
  <2> QED BY <1>2, <2>1
<1>4. ASSUME NEW m \in MonitorEntry, id[a] \notin {m.watcher, m.target}
      PROVE  Times(rest, m) = Times(list, m)
  <2>1. Hits(list, m) \subseteq S
    BY <1>1, <1>4, LenProperties DEF Hits
  <2> HIDE DEF list, S
  <2> QED BY <1>1, <1>2, <2>1, SublistTimes
<1> HIDE DEF h, rest
<1>5. /\ monitors' \in [System -> Seq(MonitorEntry)]
      /\ monitors'[h] = rest /\ \A k \in System \ {h} : monitors'[k] = monitors[k]
  BY <1>1, <1>3
<1>6. ASSUME NEW k \in System PROVE Listed(k)' \subseteq Listed(k)
  <2>1. CASE k = h
    BY <1>3, <1>5, <2>1 DEF Listed
  <2>2. CASE k # h
    BY <1>5, <2>2 DEF Listed
  <2> QED BY <2>1, <2>2
<1> QED BY <1>4, <1>5, <1>6 DEF h

LEMMA UnregisterKeepsDown ==
  ASSUME Inv, DownInv, NEW a \in Actor, Unregister(a)
  PROVE  DownInv' /\ (ToldInv => ToldInv')
<1>1. /\ phase[a] = "notifying" /\ targets[a] = <<>> /\ a \in Born
      /\ phase' = [phase EXCEPT ![a] = "gone"]
      /\ ForgetMonitors(a)
      /\ UNCHANGED <<id, home, nextId, started, targets, watched, asked>>
      /\ UNCHANGED <<mail, downs>> /\ UNCHANGED doing
  BY DEF Unregister, history, Born
<1>2. phase \in [Actor -> Phase] /\ home \in [Actor -> System] /\ id \in [Actor -> Nat]
  BY DEF Inv, RegistryType
<1>3. phase'[a] = "gone" /\ \A c \in Actor \ {a} : phase'[c] = phase[c]
  BY <1>1, <1>2
<1>4. Born' = Born
  BY <1>1, <1>3 DEF Born
<1>5. \A c \in Actor : CallOK(c)'
  <2>1. doing[a].op # "monitor"
    BY <1>1 DEF DownInv, CallOK
  <2> QED BY <1>1, <1>3, <1>4, <2>1, CallsWhen
<1>6. \A c, d \in Actor : Downs(c, d)' = Downs(c, d)
  BY <1>1, DownsSame
<1>7. /\ monitors' \in [System -> Seq(MonitorEntry)]
      /\ \A k \in System \ {home[a]} : monitors'[k] = monitors[k]
      /\ \A k \in System : Listed(k)' \subseteq Listed(k)
      /\ \A m \in MonitorEntry : id[a] \notin {m.watcher, m.target} =>
           Times(monitors'[home[a]], m) = Times(monitors[home[a]], m)
  BY <1>1, ForgetFacts DEF Inv, DownInv
<1>8. DownType'
  BY <1>1, <1>4, <1>7 DEF DownInv, DownType
<1>9. ASSUME NEW k \in System PROVE MonitorsOK(k)'
  <2>1. MonitorsOK(k)
    BY DEF DownInv
  <2>2. k \notin started => k # home[a]
    BY DEF Inv, IdsInv
  <2> QED BY <1>1, <1>4, <1>7, <2>1, <2>2 DEF MonitorsOK, EntryOf
<1>10. AskedOK'
  BY <1>1, <1>6 DEF DownInv, AskedOK, DownToWatcher
<1>11. ASSUME ToldInv PROVE ToldInv'
  <2> SUFFICES ASSUME NEW c \in Actor, NEW d \in Actor,
                      phase'[c] = "running", home'[c] = Default, home'[d] = Default
               PROVE  ToldOK(c, d)'
    BY DEF ToldInv
  <2>1. phase[c] = "running" /\ home[c] = Default /\ home[d] = Default /\ c # a
    BY <1>1, <1>3
  <2>2. ToldOK(c, d)
    BY <1>11, <2>1 DEF ToldInv
  <2>3. Downs(c, d)' = Downs(c, d) /\ Downs(c, d) \in Nat
    BY <1>6, DownsFacts DEF DownInv
  <2>4. CASE d = a
    <3>1. Downs(c, a) + Times(targets[a], c) = watched[<<c, a>>]
      BY <1>1, <2>2, <2>4 DEF ToldOK
    <3>2. Times(targets[a], c) = 0
      BY <1>1, FS_EmptySet DEF Times, Hits
    <3>3. Downs(c, a) = watched[<<c, a>>]
      BY <2>3, <2>4, <3>1, <3>2
    <3> QED BY <1>1, <1>3, <2>3, <2>4, <3>3 DEF ToldOK
  <2>5. CASE d # a
    <3>1. CASE phase[d] \in {"running", "ended"}
      <4>1. Times(monitors'[Default], EntryOf(c, d)) = Times(monitors[Default], EntryOf(c, d))
        <5>1. CASE home[a] = Default
          <6>1. c \in Born /\ d \in Born
            BY <2>1, <3>1 DEF Born
          <6>2. id[a] # id[c] /\ id[a] # id[d]
            BY <1>1, <2>1, <2>5, <5>1, <6>1 DEF Inv, IdsInv
          <6>3. /\ EntryOf(c, d) \in MonitorEntry
                /\ id[a] \notin {EntryOf(c, d).watcher, EntryOf(c, d).target}
            BY <1>2, <6>2 DEF EntryOf, MonitorEntry
          <6> QED BY <1>7, <5>1, <6>3
        <5>2. CASE home[a] # Default
          BY <1>7, <5>2, SystemAssumption
        <5> QED BY <5>1, <5>2
      <4>2. EntryOf(c, d)' = EntryOf(c, d)
        BY <1>1 DEF EntryOf
      <4> QED BY <1>1, <1>3, <2>2, <2>3, <2>5, <3>1, <4>1, <4>2 DEF ToldOK
    <3>2. CASE phase[d] \notin {"running", "ended"}
      BY <1>1, <1>3, <2>2, <2>3, <2>5, <3>2 DEF ToldOK
    <3> QED BY <3>1, <3>2
  <2> QED BY <2>4, <2>5
<1> QED BY <1>5, <1>8, <1>9, <1>10, <1>11 DEF DownInv

\* The second half of monitor.
LEMMA FileKeepsDown ==
  ASSUME Inv, DownInv, NEW a \in Actor, File(a)
  PROVE  DownInv' /\ (ToldInv => ToldInv')
<1> DEFINE b == doing[a].to
           k == doing[a].in
           e == EntryOf(a, b)
<1>1. /\ doing[a].op = "monitor"
      /\ UNCHANGED <<phase, id, home, nextId, started, targets>>
      /\ UNCHANGED <<mail, downs>>
      /\ monitors' = [monitors EXCEPT ![k] = <<e>> \o @]
      /\ doing' = [doing EXCEPT ![a] = Idle]
      /\ asked' = asked \cup {<<a, b>>}
      /\ watched' = IF phase[b] \in {"running", "ended"}
                    THEN [watched EXCEPT ![<<a, b>>] = @ + 1] ELSE watched
  BY DEF File, EntryOf
<1>2. /\ phase[a] = "running" /\ a \in Born /\ home[a] = k /\ b \in Born /\ id[b] < nextId[k]
      /\ \A d \in Born : home[d] = k /\ id[d] = id[b] => d = b
  <2>1. CallOK(a)
    BY DEF DownInv
  <2> QED BY <1>1, <2>1 DEF CallOK, Born
<1>3. /\ doing \in [Actor -> CallRecord] /\ mail \in [Actor -> Seq(Actor \cup {Plain})]
      /\ monitors \in [System -> Seq(MonitorEntry)] /\ watched \in [Actor \X Actor -> Nat]
      /\ id \in [Actor -> Nat] /\ k \in System /\ b \in Actor
  BY <1>2 DEF DownInv, DownType, Inv, RegistryType, Born
<1>4. Idle \in CallRecord /\ Idle.op # "monitor"
  BY DEF Idle, CallRecord
<1>5. doing' \in [Actor -> CallRecord] /\ doing'[a].op # "monitor"
      /\ \A c \in Actor \ {a} : doing'[c] = doing[c]
  BY <1>1, <1>3, <1>4
<1>6. ASSUME NEW c \in Actor PROVE CallOK(c)'
  <2>1. CASE c = a
    BY <1>5, <2>1 DEF CallOK
  <2>2. CASE c # a
    BY <1>1, <1>5, <2>2, CallKept DEF DownInv
  <2> QED BY <2>1, <2>2
<1> HIDE DEF b, k
<1>7. e \in MonitorEntry /\ e.watcher = id[a] /\ e.target = id[b]
  BY <1>3 DEF EntryOf, MonitorEntry
<1> HIDE DEF e
<1>8. monitors[k] \in Seq(MonitorEntry)
  BY <1>3
<1>9. /\ <<e>> \o monitors[k] \in Seq(MonitorEntry)
      /\ \A m : Times(<<e>> \o monitors[k], m) = Times(monitors[k], m) + (IF e = m THEN 1 ELSE 0)
      /\ \A i \in 1 .. Len(<<e>> \o monitors[k]) :
           (<<e>> \o monitors[k])[i] = e \/ \E j \in 1 .. Len(monitors[k]) : (<<e>> \o monitors[k])[i] = monitors[k][j]
  BY <1>7, <1>8, PrependTimes
<1>10. /\ monitors' \in [System -> Seq(MonitorEntry)]
       /\ monitors'[k] = <<e>> \o monitors[k] /\ \A j \in System \ {k} : monitors'[j] = monitors[j]
  BY <1>1, <1>3, <1>9
<1>11. \A j \in System : Listed(j)' \subseteq Listed(j) \cup (IF j = k THEN {e} ELSE {})
  <2>1. ASSUME NEW j \in System, j = k, NEW m \in Listed(j)' PROVE m \in Listed(j) \cup {e}
    <3>1. PICK i \in 1 .. Len(monitors'[j]) : m = monitors'[j][i]
      BY DEF Listed
    <3>2. i \in 1 .. Len(<<e>> \o monitors[k]) /\ m = (<<e>> \o monitors[k])[i]
      BY <1>10, <2>1, <3>1
    <3>3. m = e \/ \E i2 \in 1 .. Len(monitors[k]) : m = monitors[k][i2]
      BY <1>9, <3>2
    <3> QED BY <2>1, <3>3 DEF Listed
  <2>2. ASSUME NEW j \in System, j # k PROVE Listed(j)' = Listed(j)
    <3>1. monitors'[j] = monitors[j]
      BY <1>10, <2>2
    <3> QED BY <3>1 DEF Listed
  <2> QED BY <2>1, <2>2
<1>12. /\ watched' \in [Actor \X Actor -> Nat]
       /\ \A c, d \in Actor : watched'[<<c, d>>] =
            watched[<<c, d>>] + (IF c = a /\ d = b /\ phase[b] \in {"running", "ended"} THEN 1 ELSE 0)
  <2>1. CASE phase[b] \in {"running", "ended"}
    <3>1. watched' = [watched EXCEPT ![<<a, b>>] = @ + 1]
      BY <1>1, <2>1
    <3>2. \A c, d \in Actor : <<c, d>> = <<a, b>> <=> c = a /\ d = b
      OBVIOUS
    <3>3. <<a, b>> \in Actor \X Actor /\ watched[<<a, b>>] + 1 \in Nat
      BY <1>3
    <3>4. watched' \in [Actor \X Actor -> Nat]
      BY <1>3, <3>1, <3>3
    <3>5. ASSUME NEW c \in Actor, NEW d \in Actor
          PROVE  watched'[<<c, d>>] = watched[<<c, d>>] + (IF c = a /\ d = b THEN 1 ELSE 0)
      <4>1. <<c, d>> \in Actor \X Actor /\ watched[<<c, d>>] \in Nat
        BY <1>3
      <4>2. CASE c = a /\ d = b
        BY <1>3, <3>1, <3>3, <4>2
      <4>3. CASE ~ (c = a /\ d = b)
        BY <1>3, <3>1, <3>2, <4>1, <4>3
      <4> QED BY <4>2, <4>3
    <3> QED BY <2>1, <3>4, <3>5
  <2>2. CASE phase[b] \notin {"running", "ended"}
    <3>1. watched' = watched /\ \A c, d \in Actor : watched[<<c, d>>] \in Nat
      BY <1>1, <1>3, <2>2
    <3> QED BY <1>3, <2>2, <3>1
  <2> QED BY <2>1, <2>2
<1>13. \A c, d \in Actor : Downs(c, d)' = Downs(c, d)
  BY <1>1, DownsSame
<1>14. Born' = Born
  BY <1>1 DEF Born
<1>15. DownType'
  BY SMTT(60), <1>1, <1>2, <1>5, <1>10, <1>12, <1>14 DEF DownInv, DownType
<1>16. ASSUME NEW j \in System PROVE MonitorsOK(j)'
  <2>1. MonitorsOK(j)
    BY DEF DownInv
  <2>2. j \notin started => j # k
    BY <1>2 DEF Inv, IdsInv
  <2>3. ASSUME NEW m \in Listed(j)'
        PROVE  /\ m.watcher < nextId[j] /\ m.target < nextId[j]
               /\ \A c, d \in Born : home[c] = j /\ home[d] = j /\ EntryOf(c, d) = m => <<c, d>> \in asked'
    <3>1. CASE m \in Listed(j)
      BY <1>1, <2>1, <3>1 DEF MonitorsOK
    <3>2. CASE m = e /\ j = k
      <4>1. m.watcher < nextId[j] /\ m.target < nextId[j]
        BY <1>2, <1>7, <3>2 DEF Inv, IdsInv
      <4>2. ASSUME NEW c \in Born, NEW d \in Born, home[c] = j, home[d] = j, EntryOf(c, d) = m
            PROVE  <<c, d>> \in asked'
        <5>1. id[c] = id[a] /\ id[d] = id[b]
          BY <1>7, <3>2, <4>2 DEF EntryOf
        <5>2. c = a /\ d = b
          BY <1>2, <3>2, <4>2, <5>1 DEF Inv, IdsInv
        <5> QED BY <1>1, <5>2
      <4> QED BY <4>1, <4>2
    <3> QED BY <1>11, <3>1, <3>2
  <2>4. j \notin started => j # Default /\ monitors'[j] = <<>>
    BY <1>10, <2>1, <2>2 DEF MonitorsOK
  <2>5. \A c, d \in Actor : EntryOf(c, d)' = EntryOf(c, d)
    BY <1>1 DEF EntryOf
  <2> QED BY <1>1, <1>14, <2>3, <2>4, <2>5 DEF MonitorsOK, Born
<1>17. AskedOK'
  <2>1. \A c \in Actor : \A i \in 1 .. Len(targets'[c]) : <<targets'[c][i], c>> \in asked'
    BY <1>1 DEF DownInv, AskedOK
  <2>2. ASSUME NEW c \in Actor, NEW d \in Actor, watched'[<<c, d>>] > 0 PROVE <<c, d>> \in asked'
    <3>1. CASE c = a /\ d = b
      BY <1>1, <3>1
    <3>2. CASE ~ (c = a /\ d = b)
      <4>1. watched[<<c, d>>] > 0
        BY <1>3, <1>12, <2>2, <3>2
      <4> QED BY <1>1, <4>1 DEF DownInv, AskedOK
    <3> QED BY <3>1, <3>2
  <2>3. DownToWatcher'
    BY <1>1, <1>13 DEF DownInv, AskedOK, DownToWatcher
  <2> QED BY <2>1, <2>2, <2>3 DEF AskedOK
<1>18. ASSUME ToldInv PROVE ToldInv'
  <2> SUFFICES ASSUME NEW c \in Actor, NEW d \in Actor,
                      phase[c] = "running", home[c] = Default, home[d] = Default
               PROVE  ToldOK(c, d)'
    BY <1>1 DEF ToldInv
  <2>1. ToldOK(c, d)
    BY <1>18 DEF ToldInv
  <2>2. watched[<<c, d>>] \in Nat /\ Downs(c, d)' = Downs(c, d)
    BY <1>3, <1>13
  <2>3. CASE phase[d] \in {"running", "ended"}
    <3>1. watched[<<c, d>>] = Times(monitors[Default], EntryOf(c, d)) /\ Downs(c, d) = 0
      BY <2>1, <2>3 DEF ToldOK
    <3>2. watched'[<<c, d>>] = Times(monitors'[Default], EntryOf(c, d))
      <4>1. CASE k = Default
        <5>1. c \in Born /\ d \in Born
          BY <2>3 DEF Born
        <5>2. e = EntryOf(c, d) <=> c = a /\ d = b
          <6>1. ASSUME e = EntryOf(c, d) PROVE c = a /\ d = b
            <7>1. id[c] = id[a] /\ id[d] = id[b]
              BY <1>7, <6>1 DEF EntryOf
            <7> QED BY <1>2, <4>1, <5>1, <7>1 DEF Inv, IdsInv
          <6>2. ASSUME c = a, d = b PROVE e = EntryOf(c, d)
            BY <6>2 DEF e
          <6> QED BY <6>1, <6>2
        <5>3. Times(monitors'[Default], EntryOf(c, d)) =
                Times(monitors[Default], EntryOf(c, d)) + (IF e = EntryOf(c, d) THEN 1 ELSE 0)
          BY <1>9, <1>10, <4>1
        <5>4. CASE c = a /\ d = b
          <6>1. watched'[<<c, d>>] = watched[<<c, d>>] + 1
            BY <1>12, <2>3, <5>4
          <6>2. Times(monitors'[Default], EntryOf(c, d)) = Times(monitors[Default], EntryOf(c, d)) + 1
            BY <5>2, <5>3, <5>4
          <6> QED BY <3>1, <6>1, <6>2
        <5>5. CASE ~ (c = a /\ d = b)
          <6>1. watched'[<<c, d>>] = watched[<<c, d>>]
            BY <1>12, <2>2, <5>5
          <6>2. Times(monitors'[Default], EntryOf(c, d)) = Times(monitors[Default], EntryOf(c, d))
            BY <2>2, <3>1, <5>2, <5>3, <5>5
          <6> QED BY <3>1, <6>1, <6>2
        <5> QED BY <5>4, <5>5
      <4>2. CASE k # Default
        <5>1. c # a /\ monitors'[Default] = monitors[Default]
          BY <1>2, <1>10, <4>2, SystemAssumption
        <5>2. watched'[<<c, d>>] = watched[<<c, d>>]
          BY <1>12, <2>2, <5>1
        <5> QED BY <3>1, <5>1, <5>2
      <4> QED BY <4>1, <4>2
    <3>3. EntryOf(c, d)' = EntryOf(c, d)
      BY <1>1 DEF EntryOf
    <3> QED BY <1>1, <2>2, <2>3, <3>1, <3>2, <3>3 DEF ToldOK
  <2>4. CASE phase[d] \notin {"running", "ended"}
    <3>1. watched'[<<c, d>>] = watched[<<c, d>>]
      BY <1>12, <2>2, <2>4
    <3> QED BY <1>1, <2>1, <2>2, <2>4, <3>1 DEF ToldOK
  <2> QED BY <2>3, <2>4
<1> QED BY <1>6, <1>15, <1>16, <1>17, <1>18 DEF DownInv

\* A new actor's id is in no entry, and nobody has asked about it.
LEMMA SpawnKeepsDown ==
  ASSUME Inv, DownInv, NEW a \in Actor, NEW b \in Actor, Spawn(a, b)
  PROVE  DownInv' /\ (ToldInv => ToldInv')
<1> DEFINE h == home[a]
<1>1. /\ phase[b] = "unborn" /\ b \notin Born
      /\ phase' = [phase EXCEPT ![b] = "running"]
      /\ id' = [id EXCEPT ![b] = nextId[h]]
      /\ home' = [home EXCEPT ![b] = h]
      /\ nextId' = [nextId EXCEPT ![h] = @ + 1]
      /\ UNCHANGED <<started, monitors, targets, watched, asked>>
      /\ UNCHANGED <<mail, downs>> /\ UNCHANGED doing
  BY DEF Spawn, history, Born
<1>2. /\ phase \in [Actor -> Phase] /\ home \in [Actor -> System] /\ id \in [Actor -> Nat]
      /\ nextId \in [System -> Nat] /\ h \in System /\ h \in started
  BY DEF Inv, RegistryType, IdsInv
<1> HIDE DEF h
<1>3. /\ phase'[b] = "running" /\ \A c \in Actor \ {b} : phase'[c] = phase[c]
      /\ id'[b] = nextId[h] /\ \A c \in Actor \ {b} : id'[c] = id[c]
      /\ home'[b] = h /\ \A c \in Actor \ {b} : home'[c] = home[c]
      /\ nextId'[h] = nextId[h] + 1 /\ \A k \in System \ {h} : nextId'[k] = nextId[k]
  BY <1>1, <1>2
<1>4. Born' = Born \cup {b}
  BY <1>3 DEF Born
<1>5. \A k \in System : nextId[k] \in Nat /\ nextId'[k] \in Nat /\ nextId[k] <= nextId'[k]
  BY <1>2, <1>3
<1>6. \A c \in Born : c \in Actor /\ c # b
  BY <1>1 DEF Born
<1>7. asked \in SUBSET (Born \X Born) /\ monitors \in [System -> Seq(MonitorEntry)]
  BY DEF DownInv, DownType
<1>8. DownType'
  BY <1>1, <1>4 DEF DownInv, DownType
<1>9. \A k \in System : \A m \in Listed(k) : m \in MonitorEntry /\ m.watcher < nextId[k] /\ m.target < nextId[k]
  <2> SUFFICES ASSUME NEW k \in System, NEW m \in Listed(k)
               PROVE  m \in MonitorEntry /\ m.watcher < nextId[k] /\ m.target < nextId[k]
    OBVIOUS
  <2>1. m \in MonitorEntry
    BY <1>7, ElementOfSeq DEF Listed
  <2> QED BY <2>1 DEF DownInv, MonitorsOK
<1>10. ASSUME NEW k \in System PROVE MonitorsOK(k)'
  <2>1. Listed(k)' = Listed(k)
    BY <1>1 DEF Listed
  <2>2. k \notin started' => k # Default /\ monitors'[k] = <<>>
    BY <1>1 DEF DownInv, MonitorsOK
  <2>3. ASSUME NEW m \in Listed(k)
        PROVE  /\ m.watcher < nextId'[k] /\ m.target < nextId'[k]
               /\ \A c, d \in Born' : home'[c] = k /\ home'[d] = k /\ EntryOf(c, d)' = m => <<c, d>> \in asked'
    <3>1. /\ m.watcher \in Nat /\ m.target \in Nat
          /\ m.watcher < nextId[k] /\ m.target < nextId[k]
      BY <1>9 DEF MonitorEntry
    <3>2. m.watcher < nextId'[k] /\ m.target < nextId'[k]
      BY <1>5, <3>1
    <3>3. ASSUME NEW c \in Born', NEW d \in Born', home'[c] = k, home'[d] = k, EntryOf(c, d)' = m
          PROVE  <<c, d>> \in asked'
      <4>1. id'[c] = m.watcher /\ id'[d] = m.target
        BY <3>3 DEF EntryOf
      <4>2. c # b /\ d # b
        BY <1>3, <1>5, <3>1, <3>3, <4>1
      <4>3. c \in Born /\ d \in Born /\ home[c] = k /\ home[d] = k /\ id[c] = m.watcher /\ id[d] = m.target
        BY <1>3, <1>4, <1>6, <3>3, <4>1, <4>2
      <4>4. EntryOf(c, d) = m
        BY <1>9, <4>3 DEF EntryOf, MonitorEntry
      <4> QED BY <1>1, <4>3, <4>4 DEF DownInv, MonitorsOK
    <3> QED BY <3>2, <3>3
  <2> QED BY <2>1, <2>2, <2>3 DEF MonitorsOK
<1>11. ASSUME NEW c \in Actor PROVE CallOK(c)'
  <2> SUFFICES ASSUME doing[c].op = "monitor" PROVE CallOK(c)'
    BY <1>1 DEF CallOK
  <2> DEFINE t == doing[c].to
  <2>1. /\ phase[c] = "running" /\ home[c] = doing[c].in
        /\ t \in Born /\ id[t] < nextId[home[c]]
        /\ \A d \in Born : home[d] = home[c] /\ id[d] = id[t] => d = t
    BY DEF DownInv, CallOK
  <2>2. c # b /\ t # b /\ t \in Actor /\ home[c] \in System
    BY <1>1, <1>2, <1>6, <2>1
  <2>3. phase'[c] = "running" /\ home'[c] = home[c] /\ id'[t] = id[t] /\ id[t] \in Nat
    BY <1>2, <1>3, <2>1, <2>2
  <2>4. id[t] < nextId'[home[c]]
    BY <1>5, <2>1, <2>2, <2>3
  <2>5. ASSUME NEW d \in Born', home'[d] = home[c], id'[d] = id[t] PROVE d = t
    <3>1. CASE d = b
      BY <1>2, <1>3, <2>1, <2>3, <2>5, <3>1
    <3>2. CASE d # b
      BY <1>3, <1>4, <1>6, <2>1, <2>5, <3>2
    <3> QED BY <3>1, <3>2
  <2>6. t = doing'[c].to /\ doing'[c].in = doing[c].in
    BY <1>1
  <2> HIDE DEF t
  <2> QED BY <1>4, <2>1, <2>3, <2>4, <2>5, <2>6 DEF CallOK
<1>12. \A c, d \in Actor : Downs(c, d)' = Downs(c, d)
  BY <1>1, DownsSame
<1>13. AskedOK'
  BY <1>1, <1>12 DEF DownInv, AskedOK, DownToWatcher
<1>14. ASSUME ToldInv PROVE ToldInv'
  <2> SUFFICES ASSUME NEW c \in Actor, NEW d \in Actor,
                      phase'[c] = "running", home'[c] = Default, home'[d] = Default
               PROVE  ToldOK(c, d)'
    BY DEF ToldInv
  <2>1. CASE c = b \/ d = b
    <3>1. <<c, d>> \notin asked
      BY <1>1, <1>7, <2>1
    <3>2. watched[<<c, d>>] = 0 /\ Downs(c, d) = 0
      <4>1. ~ (watched[<<c, d>>] > 0) /\ ~ (Downs(c, d) > 0)
        BY <3>1 DEF DownInv, AskedOK, DownToWatcher
      <4>2. watched[<<c, d>>] \in Nat /\ Downs(c, d) \in Nat
        BY DownsFacts DEF DownInv, DownType
      <4> QED BY <4>1, <4>2
    <3>3. Times(monitors[Default], EntryOf(c, d)') = 0
      <4>1. Default = h
        BY <1>3, <2>1
      <4>2. ASSUME NEW i \in 1 .. Len(monitors[Default]) PROVE monitors[Default][i] # EntryOf(c, d)'
        <5>1. monitors[Default][i] \in Listed(Default)
          BY DEF Listed
        <5>2. /\ monitors[Default][i] \in MonitorEntry
              /\ monitors[Default][i].watcher < nextId[h] /\ monitors[Default][i].target < nextId[h]
          BY <1>9, <4>1, <5>1, SystemAssumption
        <5>3. EntryOf(c, d)'.watcher = id'[c] /\ EntryOf(c, d)'.target = id'[d]
          BY DEF EntryOf
        <5>4. nextId[h] \in Nat /\ (id'[c] = nextId[h] \/ id'[d] = nextId[h])
          BY <1>2, <1>3, <2>1
        <5> QED BY <5>2, <5>3, <5>4
      <4>3. monitors[Default] \in Seq(MonitorEntry)
        BY <1>7, SystemAssumption
      <4> QED BY <4>2, <4>3, HitsFinite
    <3>4. Downs(c, d)' = 0 /\ watched'[<<c, d>>] = 0 /\ monitors' = monitors /\ targets' = targets
      BY <1>1, <1>12, <3>2
    <3>5. phase'[d] = "notifying" => Times(targets[d], c) = 0
      <4>1. ASSUME phase'[d] = "notifying" PROVE Times(targets[d], c) = 0
        <5>1. d # b /\ c = b
          BY <1>3, <2>1, <4>1
        <5>2. ASSUME NEW i \in 1 .. Len(targets[d]) PROVE targets[d][i] # c
          <6>1. <<targets[d][i], d>> \in asked
            BY DEF DownInv, AskedOK
          <6> QED BY <1>1, <1>7, <5>1, <6>1
        <5>3. targets[d] \in Seq(Actor)
          BY DEF DownInv, DownType
        <5> QED BY <5>2, <5>3, HitsFinite
      <4> QED BY <4>1
    <3> QED BY <3>3, <3>4, <3>5 DEF ToldOK
  <2>2. CASE c # b /\ d # b
    <3>1. phase[c] = "running" /\ home[c] = Default /\ home[d] = Default /\ phase'[d] = phase[d]
      BY <1>3, <2>2
    <3>2. ToldOK(c, d)
      BY <1>14, <3>1 DEF ToldInv
    <3>3. EntryOf(c, d)' = EntryOf(c, d)
      BY <1>3, <2>2 DEF EntryOf
    <3> QED BY <1>1, <1>12, <3>1, <3>2, <3>3 DEF ToldOK
  <2> QED BY <2>1, <2>2
<1> QED BY <1>8, <1>10, <1>11, <1>13, <1>14 DEF DownInv

\* Who moves leaves its entries behind, and leaves the watchers ToldInv is about.
LEMMA StartNodeKeepsDown ==
  ASSUME Inv, DownInv, NEW a \in Actor, NEW k \in System, StartNode(a, k)
  PROVE  DownInv' /\ (ToldInv => ToldInv')
<1>1. /\ phase[a] = "running" /\ doing[a] = Idle /\ k \notin started
      /\ home' = [home EXCEPT ![a] = k]
      /\ nextId' = [nextId EXCEPT ![k] = IF id[a] >= @ THEN id[a] + 1 ELSE @]
      /\ started' = started \cup {k}
      /\ UNCHANGED <<phase, id, monitors, targets, watched, asked>>
      /\ UNCHANGED <<mail, downs>> /\ UNCHANGED doing
  BY DEF StartNode, FreshSystem, MoveContext, Ready, history
<1>2. /\ home \in [Actor -> System] /\ id \in [Actor -> Nat] /\ nextId \in [System -> Nat]
      /\ \A c \in Actor : home[c] # k
  BY <1>1 DEF Inv, RegistryType, IdsInv
<1>3. /\ home'[a] = k /\ \A c \in Actor \ {a} : home'[c] = home[c]
      /\ \A j \in System \ {k} : nextId'[j] = nextId[j]
  BY <1>1, <1>2
<1>4. Born' = Born
  BY <1>1 DEF Born
<1>5. monitors[k] = <<>> /\ k # Default
  BY <1>1 DEF DownInv, MonitorsOK
<1>6. \A c, d \in Actor : EntryOf(c, d)' = EntryOf(c, d)
  BY <1>1 DEF EntryOf
<1>7. DownType'
  BY <1>1, <1>4 DEF DownInv, DownType
<1>8. ASSUME NEW j \in System PROVE MonitorsOK(j)'
  <2>1. MonitorsOK(j) /\ Listed(j)' = Listed(j)
    BY <1>1 DEF DownInv, Listed
  <2>2. CASE j = k
    <3>1. Listed(j) = {}
      BY <1>5, <2>2 DEF Listed
    <3> QED BY <1>1, <2>1, <2>2, <3>1 DEF MonitorsOK
  <2>3. CASE j # k
    <3>1. \A c \in Born : home'[c] = j => home[c] = j
      BY <1>3, <2>3 DEF Born
    <3> QED BY <1>1, <1>3, <1>4, <1>6, <2>1, <2>3, <3>1 DEF MonitorsOK, Born
  <2> QED BY <2>2, <2>3
<1>9. ASSUME NEW c \in Actor PROVE CallOK(c)'
  <2> SUFFICES ASSUME doing[c].op = "monitor" PROVE CallOK(c)'
    BY <1>1 DEF CallOK
  <2>1. c # a
    BY <1>1 DEF Idle
  <2>2. home'[c] = home[c] /\ home[c] \in System /\ home[c] # k /\ nextId'[home[c]] = nextId[home[c]]
    BY <1>2, <1>3, <2>1
  <2>3. \A d \in Born : home'[d] = home[c] => home[d] = home[c]
    BY <1>3, <2>2 DEF Born
  <2>4. CallOK(c)
    BY DEF DownInv
  <2> QED BY <1>1, <1>4, <2>2, <2>3, <2>4 DEF CallOK
<1>10. \A c, d \in Actor : Downs(c, d)' = Downs(c, d)
  BY <1>1, DownsSame
<1>11. AskedOK'
  BY <1>1, <1>10 DEF DownInv, AskedOK, DownToWatcher
<1>12. ASSUME ToldInv PROVE ToldInv'
  <2> SUFFICES ASSUME NEW c \in Actor, NEW d \in Actor,
                      phase'[c] = "running", home'[c] = Default, home'[d] = Default
               PROVE  ToldOK(c, d)'
    BY DEF ToldInv
  <2>1. phase[c] = "running" /\ home[c] = Default /\ home[d] = Default
    BY <1>1, <1>3, <1>5
  <2>2. ToldOK(c, d)
    BY <1>12, <2>1 DEF ToldInv
  <2> QED BY <1>1, <1>6, <1>10, <2>2 DEF ToldOK
<1> QED BY <1>7, <1>8, <1>9, <1>11, <1>12 DEF DownInv

LEMMA StutterKeepsDown ==
  ASSUME Inv, DownInv, UNCHANGED vars
  PROVE  DownInv' /\ (ToldInv => ToldInv')
<1>1. /\ UNCHANGED <<phase, id, home, nextId, started, monitors, targets, watched, asked>>
      /\ UNCHANGED <<mail, downs>> /\ UNCHANGED doing
  BY DEF vars, contextVars, systemVars, history
<1>2. doing \in [Actor -> CallRecord] /\ mail \in [Actor -> Seq(Actor \cup {Plain})]
      /\ downs \in [Actor \X Actor -> Nat]
  BY DEF DownInv, DownType
<1>3. \A c \in Actor : CallOK(c)'
  BY <1>1, CallKept DEF DownInv
<1> QED BY <1>1, <1>2, <1>3, DownsSame, QuietDown

LEMMA DownStep ==
  ASSUME ~CrossNode, Inv, DownInv, [Next]_vars
  PROVE  DownInv' /\ (RoomForWatchers /\ ToldInv => ToldInv')
<1>1. CASE UNCHANGED vars
  BY <1>1, StutterKeepsDown
<1>2. CASE Next
  <2>1. PICK a \in Actor : Runtime(a) \/ Program(a)
    BY <1>2 DEF Next
  <2>2. CASE Deliver(a)
    BY <2>2, DeliverKeepsDown
  <2>3. CASE File(a)
    BY <2>3, FileKeepsDown
  <2>4. CASE Collect(a)
    BY <2>4, CollectKeepsDown
  <2>5. CASE Notify(a)
    BY <2>5, NotifyKeepsDown
  <2>6. CASE Unregister(a)
    BY <2>6, UnregisterKeepsDown
  <2>7. CASE \E b \in Actor : Spawn(a, b)
    BY <2>7, SpawnKeepsDown
  <2>8. CASE SendRef(a)
    <3>1. PICK b \in Actor : Send(a, b)
      BY <2>8 DEF SendRef, Born
    <3> QED BY <3>1, SendKeepsDown
  <2>9. CASE SendName(a)
    <3>1. PICK n \in Name : Whereis(home[a], n) # None /\ Send(a, Whereis(home[a], n))
      BY <2>9 DEF SendName
    <3>2. home[a] \in System
      BY DEF Inv, RegistryType
    <3>3. PICK b \in Actor : Send(a, b)
      BY <3>1, <3>2, WhereisFacts
    <3> QED BY <3>3, SendKeepsDown
  <2>10. CASE Receive(a)
    BY <2>10, ReceiveKeepsDown
  <2>11. CASE \E b \in Actor : Monitor(a, b)
    BY <2>11, MonitorKeepsDown
  <2>12. CASE \E n \in Name, b \in Actor : Register(a, n, b)
    BY <2>12, RegisterKeepsDown
  <2>13. CASE \E k \in System : StartNode(a, k)
    BY <2>13, StartNodeKeepsDown
  <2>14. CASE End(a)
    BY <2>14, EndKeepsDown
  <2> QED
    BY <2>1, <2>2, <2>3, <2>4, <2>5, <2>6, <2>7, <2>8, <2>9, <2>10, <2>11, <2>12, <2>13, <2>14
    DEF Runtime, Program
<1> QED BY <1>1, <1>2

LEMMA DownImplies == DownInv /\ ToldInv => DownsDelivered
  BY DEF DownInv, AskedOK, ToldInv, ToldOK, DownsDelivered, WatchersTold

\* notify_down never sends a <down> to an actor that did not call monitor for the
\* one that ended, though entries, names and watchers are all looked up by id,
\* and ids leave a node with those that move.
THEOREM DownsAreAsked == ~CrossNode => (Spec => []DownToWatcher)
<1> SUFFICES ASSUME ~CrossNode PROVE Spec => []DownToWatcher
  OBVIOUS
<1>1. Init => DownInv
  BY DownInit
<1>2. Inv /\ DownInv /\ [Next]_vars => DownInv'
  BY DownStep
<1>3. DownInv => DownToWatcher
  BY DEF DownInv, AskedOK
<1> QED BY <1>1, <1>2, <1>3, InvHolds, PTL DEF Spec

\* As long as no actor has more watchers than notify_down's array has room for,
\* monitor keeps its promise: whatever mailboxes are full, whoever ends or moves
\* in between, a live watcher gets as many <down> messages as it filed monitors
\* before the other's end, and nobody else gets one.
THEOREM WatchersAreTold ==
  ~CrossNode => (Spec /\ []RoomForWatchers => []DownsDelivered)
<1> SUFFICES ASSUME ~CrossNode PROVE Spec /\ []RoomForWatchers => []DownsDelivered
  OBVIOUS
<1>1. Init => DownInv /\ ToldInv
  BY DownInit
<1>2. Inv /\ RoomForWatchers /\ (DownInv /\ ToldInv) /\ [Next]_vars => (DownInv /\ ToldInv)'
  BY DownStep
<1>3. DownInv /\ ToldInv => DownsDelivered
  BY DownImplies
<1> QED BY <1>1, <1>2, <1>3, InvHolds, PTL DEF Spec

-----------------------------------------------------------------------------
(***************************************************************************)
(* A supervisor among the actors: for any children, actors and schedule it *)
(* never has two of a kind running, and the registry knows the children it *)
(* knows.                                                                  *)
(*                                                                         *)
(* A child is started again only for its own <down>, which is sent after   *)
(* the end of its thread.  That the <down> is its own rests on the ids of  *)
(* one node being different for ever, which IdsInv above says.             *)
(***************************************************************************)

Dead(a) == phase[a] \in {"notifying", "gone"}

\* start-child is under way for s, or still to be called.
Starting(s) == step \in {"register", "monitor", "file"} /\ s = Head(todo)
Awaits(s) == \E i \in 1 .. Len(todo) : todo[i] = s /\ (i > 1 \/ step = "spawn")

\* Whom the supervisor takes for s, and whom the registry does.
Current(s) == IF Starting(s) THEN child ELSE children[s]
Registered(s) == IF Starting(s) /\ step # "register" THEN child ELSE children[s]

Progress ==
  /\ step \in {"spawn", "register", "monitor", "file", "loop"}
  /\ todo \in Seq(Name) /\ (todo = <<>> <=> step = "loop")
  /\ \A i, j \in 1 .. Len(todo) : todo[i] = todo[j] => i = j

\* A <down> in a mailbox is of a thread that has ended.
MailInv ==
  /\ mail \in [Actor -> Seq(Actor \cup {Plain})]
  /\ \A a \in Actor : \A k \in 1 .. Len(mail[a]) : mail[a][k] # Plain => Dead(mail[a][k])

ChildrenInv ==
  /\ children \in [Name -> Actor \cup {None}]
  /\ incarnations \in [Name -> SUBSET Actor]
  /\ \A s \in Name :
       /\ incarnations[s] \subseteq Born
       /\ children[s] # None => children[s] \in incarnations[s]
       /\ Starting(s) => child \in incarnations[s]
       /\ \A a \in incarnations[s] : Dead(a) \/ (~ Awaits(s) /\ a = Current(s))
       /\ s \in Temporary => /\ Awaits(s) => incarnations[s] = {}
                             /\ \A a, b \in incarnations[s] : a = b

EntriesInv ==
  /\ names \in [System -> [Name -> Nat]]
  /\ \A s \in Name :
       Registered(s) \in linked[Default] => names[Default][s] = id[Registered(s)]

\* All is in one node, and nobody but the main thread is there before the
\* supervisor.
NodeInv ==
  /\ \A a \in Actor : home[a] = Default
  /\ Sup \in Born \/ Born \subseteq {Main}

SupInv ==
  /\ Inv /\ NodeInv
  /\ Progress /\ MailInv /\ ChildrenInv /\ EntriesInv

(***************************************************************************)
(* What every step does to the actors.                                     *)
(***************************************************************************)
\* The supervisor and its children make only calls that actors may make.
LEMMA CallsOnly ==
  ASSUME NodeInv, Progress, [SupNext]_supVars
  PROVE  [Next]_vars
<1>1. ASSUME SupNext PROVE Next
  <2>1. CASE StartSupervisor
    BY <2>1, ActorAssumption, SupAssumption DEF StartSupervisor, Next, Program
  <2>2. CASE Supervise
    <3>1. todo # <<>> => Head(todo) \in Name
      BY HeadTailProperties DEF Progress
    <3>2. ASSUME RegisterChild PROVE Next
      <4>1. Head(todo) \in Name /\ child \in Actor /\ Register(Sup, Head(todo), child)
        BY <3>1, <3>2 DEF Progress, RegisterChild, Register, Born
      <4> QED BY <4>1, SupAssumption DEF Next, Program
    <3>3. ASSUME MonitorChild PROVE Next
      <4>1. child \in Actor /\ Monitor(Sup, child)
        BY <3>3 DEF MonitorChild, Monitor, Born
      <4> QED BY <4>1, SupAssumption DEF Next, Program
    <3>4. ASSUME NEW b \in Actor, SpawnChild(b) PROVE Next
      BY <3>4, SupAssumption DEF SpawnChild, Next, Program
    <3>5. MakeBehaviorRaises \/ ChildStarted \/ Loop => Next
      BY SupAssumption DEF MakeBehaviorRaises, ChildStarted, Loop, Next, Program, Runtime
    <3> QED BY <2>2, <3>2, <3>3, <3>4, <3>5 DEF Supervise
  <2>3. ASSUME NEW a \in Actor \ {Main, Sup}, ChildCalls(a) PROVE Next
    <3>1. Ready(a)
      BY <2>3 DEF ChildCalls, End, Send
    <3>2. Sup \in Born
      BY <2>3, <3>1 DEF Ready, NodeInv, Born
    <3> QED BY <2>3, <3>2 DEF ChildCalls, Next, Program, SendRef
  <2>4. ASSUME NEW a \in Actor, RuntimeStep(a) PROVE Next
    BY <2>4 DEF RuntimeStep, Next, Runtime
  <2> QED BY <1>1, <2>1, <2>2, <2>3, <2>4 DEF SupNext
<1>2. UNCHANGED supVars => UNCHANGED vars
  BY DEF supVars
<1> QED BY <1>1, <1>2

\* Threads end for good, ids are for ever, and a mailbox gets the <down> of a
\* thread from that thread when it has ended.
Ahead ==
  /\ \A a \in Actor : Dead(a) => Dead(a)'
  /\ \A a \in Born : a \in Born' /\ id'[a] = id[a]

LEMMA StepsAhead ==
  ASSUME Inv, [Next]_vars
  PROVE  Ahead
<1>1. phase \in [Actor -> Phase] /\ id \in [Actor -> Nat]
  BY DEF Inv, RegistryType
<1>2. ASSUME NEW a \in Actor, NEW b \in Actor, Spawn(a, b) PROVE Ahead
  BY <1>1, <1>2 DEF Spawn, Ahead, Dead, Born
<1>3. ASSUME NEW a \in Actor, End(a) \/ Collect(a) \/ Unregister(a) PROVE Ahead
  BY <1>1, <1>3 DEF End, Ready, Collect, Unregister, Ahead, Dead, Born
<1>4. CASE UNCHANGED <<phase, id>>
  BY <1>4 DEF Ahead, Dead, Born
<1>5. ASSUME NEW a \in Actor,
             \/ Deliver(a) \/ File(a) \/ Notify(a) \/ SendRef(a) \/ SendName(a) \/ Receive(a)
             \/ \E b \in Actor : Monitor(a, b)
             \/ \E n \in Name, b \in Actor : Register(a, n, b)
             \/ \E k \in System : StartNode(a, k)
      PROVE  UNCHANGED <<phase, id>>
  BY <1>5 DEF Deliver, File, Notify, SendRef, SendName, Send, Receive, Monitor, Register,
              StartNode, contextVars
<1>6. UNCHANGED vars => UNCHANGED <<phase, id>>
  BY DEF vars, contextVars
<1> QED BY <1>2, <1>3, <1>4, <1>5, <1>6 DEF Next, Runtime, Program

LEMMA MailStep ==
  ASSUME Inv, MailInv, [Next]_vars
  PROVE  MailInv'
<1>1. Ahead
  BY StepsAhead
<1>2. mail \in [Actor -> Seq(Actor \cup {Plain})]
  BY DEF MailInv
<1>3. CASE mail' = mail
  <2>1. \A a \in Actor : \A k \in 1 .. Len(mail[a]) : mail[a][k] \in Actor \cup {Plain}
    BY <1>2, ElementOfSeq
  <2>2. \A a \in Actor : \A k \in 1 .. Len(mail[a]) :
          mail[a][k] # Plain => mail[a][k] \in Actor /\ Dead(mail[a][k])
    BY <2>1 DEF MailInv
  <2> QED BY <1>1, <1>2, <1>3, <2>2 DEF MailInv, Ahead
<1>4. ASSUME NEW w, NEW x \in Actor \cup {Plain}, x # Plain => Dead(x)',
             mail' = [mail EXCEPT ![w] = Append(@, x)]
      PROVE  MailInv'
  <2>1. SUFFICES ASSUME NEW a \in Actor
                 PROVE  /\ mail'[a] \in Seq(Actor \cup {Plain})
                        /\ \A k \in 1 .. Len(mail'[a]) : mail'[a][k] # Plain => phase'[mail'[a][k]] \in {"notifying", "gone"}
    <3>1. mail' = [a \in Actor |-> mail'[a]]
      BY <1>2, <1>4
    <3> QED BY <2>1, <3>1 DEF MailInv, Dead
  <2>2. /\ mail[a] \in Seq(Actor \cup {Plain})
        /\ \A k \in 1 .. Len(mail[a]) : mail[a][k] \in Actor \cup {Plain}
        /\ \A k \in 1 .. Len(mail[a]) : mail[a][k] # Plain => phase'[mail[a][k]] \in {"notifying", "gone"}
    <3>1. mail[a] \in Seq(Actor \cup {Plain})
      BY <1>2
    <3>2. \A k \in 1 .. Len(mail[a]) : mail[a][k] \in Actor \cup {Plain}
      BY <3>1, ElementOfSeq
    <3>3. ASSUME NEW k \in 1 .. Len(mail[a]), mail[a][k] # Plain
          PROVE  phase'[mail[a][k]] \in {"notifying", "gone"}
      <4>1. mail[a][k] \in Actor /\ Dead(mail[a][k])
        BY <3>2, <3>3 DEF MailInv
      <4> QED BY <1>1, <4>1 DEF Ahead, Dead
    <3> QED BY <3>1, <3>2, <3>3
  <2>3. CASE mail'[a] = mail[a]
    BY <2>2, <2>3
  <2>4. CASE mail'[a] = Append(mail[a], x)
    <3>1. /\ Append(mail[a], x) \in Seq(Actor \cup {Plain})
          /\ Len(Append(mail[a], x)) = Len(mail[a]) + 1 /\ Len(mail[a]) \in Nat
          /\ \A k \in 1 .. Len(mail[a]) : Append(mail[a], x)[k] = mail[a][k]
          /\ Append(mail[a], x)[Len(mail[a]) + 1] = x
      BY <2>2, AppendProperties, LenProperties
    <3>2. ASSUME NEW k \in 1 .. Len(mail'[a]), mail'[a][k] # Plain
          PROVE  phase'[mail'[a][k]] \in {"notifying", "gone"}
      <4>1. k \in 1 .. Len(mail[a]) \/ k = Len(mail[a]) + 1
        BY <2>4, <3>1
      <4>2. CASE k \in 1 .. Len(mail[a])
        <5>1. mail'[a][k] = mail[a][k]
          BY <2>4, <3>1, <4>2
        <5> QED BY <2>2, <3>2, <4>2, <5>1
      <4>3. CASE k = Len(mail[a]) + 1
        <5>1. mail'[a][k] = x
          BY <2>4, <3>1, <4>3
        <5> QED BY <1>4, <3>2, <5>1 DEF Dead
      <4> QED BY <4>1, <4>2, <4>3
    <3> QED BY <2>4, <3>1, <3>2
  <2> QED BY <1>2, <1>4, <2>3, <2>4
<1>5. ASSUME NEW a \in Actor, Deliver(a) PROVE MailInv'
  BY <1>4, <1>5 DEF Deliver
<1>6. ASSUME NEW a \in Actor, Notify(a) PROVE MailInv'
  <2>1. mail' = [mail EXCEPT ![Head(targets[a])] = Append(@, a)] /\ phase' = phase
    BY <1>6 DEF Notify
  <2>2. Dead(a)'
    BY <1>6, <2>1 DEF Notify, Dead
  <2> QED BY <1>4, <2>1, <2>2
<1>7. ASSUME NEW a \in Actor, Receive(a) PROVE MailInv'
  <2>1. mail' = [mail EXCEPT ![a] = Tail(@)] /\ phase' = phase /\ mail[a] # <<>>
    BY <1>7 DEF Receive
  <2>2. /\ mail[a] \in Seq(Actor \cup {Plain}) /\ Tail(mail[a]) \in Seq(Actor \cup {Plain})
        /\ Len(Tail(mail[a])) = Len(mail[a]) - 1 /\ Len(mail[a]) \in Nat
        /\ \A k \in 1 .. Len(Tail(mail[a])) : Tail(mail[a])[k] = mail[a][k + 1]
    BY <1>2, <2>1, HeadTailProperties, LenProperties
  <2>3. mail' \in [Actor -> Seq(Actor \cup {Plain})]
    BY <1>2, <2>1, <2>2
  <2>4. \A b \in Actor : mail'[b] = IF b = a THEN Tail(mail[a]) ELSE mail[b]
    BY <1>2, <2>1
  <2>5. ASSUME NEW k \in 1 .. Len(Tail(mail[a])), Tail(mail[a])[k] # Plain
        PROVE  Dead(Tail(mail[a])[k])
    <3>1. k + 1 \in 1 .. Len(mail[a]) /\ Tail(mail[a])[k] = mail[a][k + 1]
      BY <2>2
    <3> QED BY <2>5, <3>1 DEF MailInv
  <2> QED BY <2>1, <2>3, <2>4, <2>5 DEF MailInv, Dead
<1>8. ASSUME NEW a \in Actor,
             \/ File(a) \/ Collect(a) \/ Unregister(a) \/ SendRef(a) \/ SendName(a) \/ End(a)
             \/ \E b \in Actor : Spawn(a, b) \/ Monitor(a, b)
             \/ \E n \in Name, b \in Actor : Register(a, n, b)
             \/ \E k \in System : StartNode(a, k)
      PROVE  mail' = mail
  BY <1>8 DEF File, Collect, Unregister, SendRef, SendName, Send, End, Spawn, Monitor, Register,
              StartNode, contextVars
<1>9. UNCHANGED vars => mail' = mail
  BY DEF vars, contextVars
<1> QED BY <1>3, <1>5, <1>6, <1>7, <1>8, <1>9 DEF Next, Runtime, Program

(***************************************************************************)
(* What the supervisor knows, across the steps that do not change it.      *)
(***************************************************************************)
\* Everything that happens here but register!.
Quiet ==
  \/ UNCHANGED vars
  \/ \E a \in Actor :
       \/ Runtime(a) \/ End(a) \/ Receive(a)
       \/ \E b \in Actor : Spawn(a, b) \/ Monitor(a, b)
       \/ \E b \in Born : Send(a, b)

\* A context that is in the registry after the step was there before, and
\* keeps its name: the end of another one does not take it.
LEMMA NamesKept ==
  ASSUME Inv, names \in [System -> [Name -> Nat]], Quiet,
         NEW c \in Born, c \in linked'[Default]
  PROVE  /\ c \in linked[Default]
         /\ \A s \in Name : names[Default][s] = id[c] => names'[Default][s] = id[c]
<1>1. linked \in [System -> SUBSET Actor] /\ home \in [Actor -> System]
  BY DEF Inv, RegistryType
<1>2. ASSUME NEW a \in Actor, Unregister(a)
      PROVE  /\ c \in linked[Default]
             /\ \A s \in Name : names[Default][s] = id[c] => names'[Default][s] = id[c]
  <2>1. /\ linked' = [linked EXCEPT ![home[a]] = @ \ {a}] /\ a \in linked[home[a]] /\ a \in Born
        /\ names' = [names EXCEPT ![home[a]] = [n \in Name |-> IF @[n] = id[a] THEN 0 ELSE @[n]]]
    BY <1>2 DEF Unregister, Inv, LinkedAtHome, RegistryType, Born
  <2>2. c \in linked[Default] /\ (home[a] = Default => c # a)
    BY <1>1, <2>1, SystemAssumption
  <2>3. home[a] = Default => id[a] # id[c]
    <3>1. c \in Actor /\ home[c] = Default
      BY <2>2, SystemAssumption DEF Inv, LinkedAtHome, Born
    <3> QED BY <2>1, <2>2, <3>1 DEF Inv, IdsInv
  <2> QED BY <1>1, <2>1, <2>2, <2>3, SystemAssumption
<1>3. ASSUME NEW a \in Actor, NEW b \in Actor, Spawn(a, b)
      PROVE  c \in linked[Default] /\ names' = names
  BY <1>1, <1>3, SystemAssumption DEF Spawn, Born
<1>4. ASSUME NEW a \in Actor,
             \/ Deliver(a) \/ File(a) \/ Collect(a) \/ Notify(a) \/ End(a) \/ Receive(a)
             \/ \E b \in Actor : Monitor(a, b)
             \/ \E b \in Born : Send(a, b)
      PROVE  linked' = linked /\ names' = names
  BY <1>4 DEF Deliver, File, Collect, Notify, End, Receive, Monitor, Send, systemVars
<1>5. UNCHANGED vars => linked' = linked /\ names' = names
  BY DEF vars, systemVars
<1> QED BY <1>2, <1>3, <1>4, <1>5 DEF Quiet, Runtime

\* Whom the program holds a reference to has been spawned.
LEMMA KnownAreBorn ==
  ASSUME ChildrenInv, NEW s \in Name
  PROVE  /\ Registered(s) \in Born \cup {None}
         /\ children[s] \in Born \cup {None}
BY DEF ChildrenInv, Registered

LEMMA ChildrenKept ==
  ASSUME ChildrenInv, Ahead, incarnations' = incarnations,
         children' \in [Name -> Actor \cup {None}],
         \A s \in Name :
           /\ children'[s] # None => children'[s] \in incarnations[s]
           /\ Starting(s)' => child' \in incarnations[s]
           /\ Current(s)' = Current(s)
           /\ Awaits(s)' <=> Awaits(s)
  PROVE  ChildrenInv'
<1>1. \A s \in Name : incarnations[s] \subseteq Actor
  BY DEF ChildrenInv
<1>2. ASSUME NEW s \in Name PROVE incarnations[s] \subseteq Born'
  BY DEF ChildrenInv, Ahead
<1>3. ASSUME NEW s \in Name, NEW a \in incarnations[s] PROVE Dead(a)' \/ (~ Awaits(s)' /\ a = Current(s)')
  BY <1>1 DEF ChildrenInv, Ahead
<1> QED BY <1>2, <1>3 DEF ChildrenInv

LEMMA EntriesKept ==
  ASSUME Inv, Inv', ChildrenInv, EntriesInv, Ahead, Quiet, names' \in [System -> [Name -> Nat]],
         \A s \in Name : Registered(s)' \in {Registered(s), None}
  PROVE  EntriesInv'
<1> SUFFICES ASSUME NEW s \in Name, Registered(s)' \in linked'[Default]
             PROVE  names'[Default][s] = id'[Registered(s)']
  BY DEF EntriesInv
<1>1. linked'[Default] \subseteq Actor
  BY SystemAssumption DEF Inv, RegistryType
<1>2. Registered(s)' = Registered(s) /\ Registered(s) \in Born
  BY <1>1, KnownAreBorn, ActorAssumption
<1>3. Registered(s) \in linked[Default]
  BY <1>2, NamesKept DEF EntriesInv
<1>4. names[Default][s] = id[Registered(s)]
  BY <1>3 DEF EntriesInv
<1>5. names'[Default][s] = id[Registered(s)]
  BY <1>2, <1>4, NamesKept DEF EntriesInv
<1> QED BY <1>2, <1>5 DEF Ahead

\* What holds after any step, whatever the supervisor makes of it.
LEMMA Basis ==
  ASSUME SupInv, [SupNext]_supVars
  PROVE  Inv' /\ NodeInv' /\ MailInv' /\ Ahead /\ names' \in [System -> [Name -> Nat]]
<1>1. [Next]_vars
  BY CallsOnly DEF SupInv
<1>2. Inv' /\ MailInv' /\ Ahead
  BY <1>1, InvStep, MailStep, StepsAhead DEF SupInv
<1>3. names' \in [System -> [Name -> Nat]]
  <2>1. names \in [System -> [Name -> Nat]] /\ id \in [Actor -> Nat]
    BY DEF SupInv, EntriesInv, Inv, RegistryType
  <2>2. ASSUME NEW a \in Actor, NEW n \in Name, NEW b \in Actor, Register(a, n, b)
        PROVE  names' \in [System -> [Name -> Nat]]
    BY <2>1, <2>2 DEF Register
  <2>3. ASSUME NEW a \in Actor, Unregister(a) PROVE names' \in [System -> [Name -> Nat]]
    BY <2>1, <2>3 DEF Unregister
  <2>4. ASSUME NEW a \in Actor,
             \/ Deliver(a) \/ File(a) \/ Collect(a) \/ Notify(a) \/ End(a) \/ Receive(a)
             \/ SendRef(a) \/ SendName(a)
             \/ \E b \in Actor : Spawn(a, b) \/ Monitor(a, b)
             \/ \E k \in System : StartNode(a, k)
        PROVE  names' = names
    BY <2>4 DEF Deliver, File, Collect, Notify, End, Receive, SendRef, SendName, Send, Spawn,
                Monitor, StartNode, systemVars
  <2>5. UNCHANGED vars => names' = names
    BY DEF vars, systemVars
  <2> QED BY <1>1, <2>1, <2>2, <2>3, <2>4, <2>5 DEF Next, Runtime, Program
<1>4. NodeInv'
  <2>1. /\ phase \in [Actor -> Phase] /\ home \in [Actor -> System]
        /\ \A a \in Actor : home[a] = Default
        /\ Sup \in Born \/ Born \subseteq {Main}
    BY DEF SupInv, Inv, RegistryType, NodeInv
  <2>2. ASSUME NEW a \in Actor, NEW b \in Actor, Spawn(a, b), Sup \in {a, b}
        PROVE  NodeInv'
    BY <2>1, <2>2 DEF Spawn, Ready, NodeInv, Born
  <2>3. ASSUME NEW a \in Actor, End(a) \/ Collect(a) \/ Unregister(a) PROVE NodeInv'
    BY <2>1, <2>3 DEF End, Ready, Collect, Unregister, NodeInv, Born
  <2>4. UNCHANGED <<phase, home>> => NodeInv'
    BY <2>1 DEF NodeInv, Born
  <2>5. ASSUME NEW a \in Actor, Deliver(a) \/ Notify(a) \/ Send(a, Sup) PROVE NodeInv'
    BY <2>4, <2>5 DEF Deliver, Notify, Send
  <2>6. RegisterChild \/ MonitorChild \/ ChildStarted \/ Loop => UNCHANGED <<phase, home>>
    BY DEF RegisterChild, MonitorChild, ChildStarted, Loop, Register, Monitor, File, Receive, contextVars
  <2>7. UNCHANGED supVars => UNCHANGED <<phase, home>>
    BY DEF supVars, vars, contextVars
  <2> QED BY <2>2, <2>3, <2>4, <2>5, <2>6, <2>7, ActorAssumption, SupAssumption
          DEF SupNext, StartSupervisor, Supervise, SpawnChild, MakeBehaviorRaises, ChildCalls, RuntimeStep
<1> QED BY <1>2, <1>3, <1>4

(***************************************************************************)
(* The steps of the supervisor.                                            *)
(***************************************************************************)
\* Calls in progress, other actors and ends leave the program where it is.
LEMMA OthersKeep ==
  ASSUME SupInv, [SupNext]_supVars, Quiet, UNCHANGED programVars
  PROVE  Progress' /\ ChildrenInv' /\ EntriesInv'
<1>1. /\ Ahead /\ Inv' /\ names' \in [System -> [Name -> Nat]]
      /\ Inv /\ Progress /\ ChildrenInv /\ EntriesInv
  BY Basis DEF SupInv
<1>2. Progress'
  BY <1>1 DEF Progress, programVars
<1>3. \A s \in Name : /\ Starting(s)' = Starting(s) /\ Current(s)' = Current(s)
                      /\ Awaits(s)' = Awaits(s) /\ Registered(s)' = Registered(s)
  BY DEF Starting, Current, Awaits, Registered, programVars
<1>4. /\ children' = children /\ child' = child /\ incarnations' = incarnations
      /\ children \in [Name -> Actor \cup {None}]
      /\ \A s \in Name : /\ children[s] # None => children[s] \in incarnations[s]
                         /\ Starting(s) => child \in incarnations[s]
  BY <1>1 DEF ChildrenInv, programVars
<1>5. ChildrenInv'
  BY <1>1, <1>3, <1>4, ChildrenKept
<1>6. EntriesInv'
  BY <1>1, <1>3, EntriesKept
<1> QED BY <1>2, <1>5, <1>6

\* The first of the specs, and the others.
LEMMA FirstSpec ==
  ASSUME Progress, step # "loop"
  PROVE  /\ todo \in Seq(Name) /\ Len(todo) \in Nat /\ Len(todo) >= 1
         /\ Head(todo) \in Name /\ Head(todo) = todo[1]
         /\ \A i \in 1 .. Len(todo) : todo[i] = Head(todo) => i = 1
<1>1. todo \in Seq(Name) /\ todo # <<>>
  BY DEF Progress
<1>2. Len(todo) \in Nat /\ Len(todo) # 0
  BY <1>1, LenProperties, EmptySeq
<1>3. Head(todo) \in Name /\ Head(todo) = todo[1]
  BY <1>1, HeadTailProperties
<1> QED BY <1>1, <1>2, <1>3 DEF Progress

\* spawn: none of the actors started for this spec before is left.
LEMMA SpawnChildKeeps ==
  ASSUME SupInv, NEW b \in Actor, SpawnChild(b), Ahead, Inv', names' \in [System -> [Name -> Nat]]
  PROVE  Progress' /\ ChildrenInv' /\ EntriesInv'
<1> DEFINE s0 == Head(todo)
<1>1. /\ step = "spawn" /\ step' = "register" /\ child' = b
      /\ todo' = todo /\ children' = children
      /\ incarnations' = [incarnations EXCEPT ![s0] = @ \cup {b}]
      /\ Spawn(Sup, b)
  BY DEF SpawnChild
<1>2. Progress /\ ChildrenInv /\ EntriesInv /\ Inv
  BY DEF SupInv
<1>3. Progress'
  BY <1>1, <1>2 DEF Progress
<1>4. /\ s0 \in Name /\ Len(todo) \in Nat /\ Len(todo) >= 1 /\ s0 = todo[1]
      /\ \A i \in 1 .. Len(todo) : todo[i] = s0 => i = 1
  BY <1>1, <1>2, FirstSpec
<1>5. \A s \in Name : s = s0 => Starting(s)' /\ ~ Awaits(s)' /\ Awaits(s) /\ Current(s)' = b
  BY <1>1, <1>4 DEF Starting, Awaits, Current
<1>6. \A s \in Name \ {s0} : ~ Starting(s)' /\ Awaits(s)' = Awaits(s) /\ Current(s)' = Current(s)
  <2> SUFFICES ASSUME NEW s \in Name \ {s0}
               PROVE  ~ Starting(s)' /\ Awaits(s)' = Awaits(s) /\ Current(s)' = Current(s)
    OBVIOUS
  <2>1. ~ Starting(s)' /\ ~ Starting(s)
    BY <1>1 DEF Starting
  <2>2. Awaits(s)' = Awaits(s)
    BY <1>1, <1>4 DEF Awaits
  <2>3. Current(s)' = Current(s)
    BY <1>1, <2>1 DEF Current
  <2> QED BY <2>1, <2>2, <2>3
<1>7. b \in Born' /\ b \notin Born
  BY <1>1, <1>2 DEF Spawn, Born, Inv, RegistryType
<1>8. /\ incarnations \in [Name -> SUBSET Actor]
      /\ incarnations' \in [Name -> SUBSET Actor]
      /\ incarnations'[s0] = incarnations[s0] \cup {b}
      /\ \A s \in Name \ {s0} : incarnations'[s] = incarnations[s]
  BY <1>1, <1>2, <1>4 DEF ChildrenInv
<1> HIDE DEF s0
<1>9. ASSUME NEW s \in Name
      PROVE  /\ incarnations'[s] \subseteq Born'
             /\ children'[s] # None => children'[s] \in incarnations'[s]
             /\ Starting(s)' => child' \in incarnations'[s]
             /\ \A a \in incarnations'[s] : Dead(a)' \/ (~ Awaits(s)' /\ a = Current(s)')
             /\ s \in Temporary => /\ Awaits(s)' => incarnations'[s] = {}
                                   /\ \A c, d \in incarnations'[s] : c = d
  <2>1. /\ incarnations[s] \subseteq Born /\ incarnations[s] \subseteq Actor
        /\ children[s] # None => children[s] \in incarnations[s]
        /\ \A a \in incarnations[s] : Dead(a) \/ (~ Awaits(s) /\ a = Current(s))
        /\ s \in Temporary => /\ Awaits(s) => incarnations[s] = {}
                              /\ \A c, d \in incarnations[s] : c = d
    BY <1>2 DEF ChildrenInv
  <2>2. incarnations[s] \subseteq Born'
    BY <2>1 DEF Ahead
  <2>3. \A a \in incarnations[s] : Dead(a) => Dead(a)'
    BY <2>1 DEF Ahead
  <2>4. CASE s = s0
    BY <1>1, <1>5, <1>7, <1>8, <2>1, <2>2, <2>3, <2>4
  <2>5. CASE s # s0
    BY <1>1, <1>6, <1>8, <2>1, <2>2, <2>3, <2>5
  <2> QED BY <2>4, <2>5
<1>10. ChildrenInv'
  <2>1. children' \in [Name -> Actor \cup {None}]
    BY <1>1, <1>2 DEF ChildrenInv
  <2> QED BY <1>8, <1>9, <2>1 DEF ChildrenInv
<1>11. EntriesInv'
  <2>1. \A s \in Name : Registered(s)' = children[s] /\ Registered(s) = children[s]
    BY <1>1 DEF Registered, Starting
  <2>2. Quiet
    BY <1>1, SupAssumption DEF Quiet
  <2> QED BY <1>2, <2>1, <2>2, EntriesKept
<1> QED BY <1>3, <1>10, <1>11

\* register!: from now on the name is the new child's.
LEMMA RegisterChildKeeps ==
  ASSUME SupInv, RegisterChild, Ahead, Inv', names' \in [System -> [Name -> Nat]]
  PROVE  Progress' /\ ChildrenInv' /\ EntriesInv'
<1>1. /\ step = "register" /\ step' = "monitor" /\ todo' = todo /\ child' = child
      /\ children' = children /\ incarnations' = incarnations
      /\ Register(Sup, Head(todo), child)
  BY DEF RegisterChild
<1>2. Progress /\ ChildrenInv /\ EntriesInv /\ Inv /\ home[Sup] = Default
  BY SupAssumption DEF SupInv, NodeInv
<1>3. Progress'
  BY <1>1, <1>2 DEF Progress
<1>4. Head(todo) \in Name
  BY <1>1, <1>2, FirstSpec
<1>5. \A s \in Name : Starting(s)' = Starting(s) /\ Awaits(s)' = Awaits(s) /\ Current(s)' = Current(s)
  BY <1>1 DEF Starting, Awaits, Current
<1>6. ChildrenInv'
  <2>1. /\ children' \in [Name -> Actor \cup {None}]
        /\ \A s \in Name : /\ children'[s] # None => children'[s] \in incarnations[s]
                           /\ Starting(s) => child' \in incarnations[s]
    BY <1>1, <1>2 DEF ChildrenInv
  <2> QED BY <1>1, <1>2, <1>5, <2>1, ChildrenKept
<1>7. EntriesInv'
  <2>1. /\ linked' = linked /\ id' = id /\ names \in [System -> [Name -> Nat]]
        /\ names' = [names EXCEPT ![Default][Head(todo)] = id[child]]
    BY <1>1, <1>2 DEF Register, contextVars, EntriesInv
  <2>2. /\ names'[Default][Head(todo)] = id[child]
        /\ \A s \in Name \ {Head(todo)} : names'[Default][s] = names[Default][s]
    BY <1>4, <2>1, SystemAssumption
  <2>3. \A s \in Name : s = Head(todo) => Registered(s)' = child
    BY <1>1 DEF Registered, Starting
  <2>4. \A s \in Name \ {Head(todo)} : Registered(s)' = Registered(s)
    BY <1>1 DEF Registered, Starting
  <2>5. ASSUME NEW s \in Name, Registered(s)' \in linked'[Default]
        PROVE  names'[Default][s] = id'[Registered(s)']
    <3>1. CASE s = Head(todo)
      BY <2>1, <2>2, <2>3, <3>1
    <3>2. CASE s # Head(todo)
      BY <1>2, <2>1, <2>2, <2>4, <2>5, <3>2 DEF EntriesInv
    <3> QED BY <3>1, <3>2
  <2> QED BY <2>5 DEF EntriesInv
<1> QED BY <1>3, <1>6, <1>7

LEMMA MonitorChildKeeps ==
  ASSUME SupInv, MonitorChild, Ahead, Inv', names' \in [System -> [Name -> Nat]]
  PROVE  Progress' /\ ChildrenInv' /\ EntriesInv'
<1>1. /\ step = "monitor" /\ step' = "file" /\ todo' = todo /\ child' = child
      /\ children' = children /\ incarnations' = incarnations
      /\ Monitor(Sup, child)
  BY DEF MonitorChild
<1>2. Progress /\ ChildrenInv /\ EntriesInv /\ Inv
  BY DEF SupInv
<1>3. Progress'
  BY <1>1, <1>2 DEF Progress
<1>4. \A s \in Name : /\ Starting(s)' = Starting(s) /\ Awaits(s)' = Awaits(s)
                      /\ Current(s)' = Current(s) /\ Registered(s)' = Registered(s)
  BY <1>1 DEF Starting, Awaits, Current, Registered
<1>5. ChildrenInv'
  <2>1. /\ children' \in [Name -> Actor \cup {None}]
        /\ \A s \in Name : /\ children'[s] # None => children'[s] \in incarnations[s]
                           /\ Starting(s) => child' \in incarnations[s]
    BY <1>1, <1>2 DEF ChildrenInv
  <2> QED BY <1>1, <1>2, <1>4, <2>1, ChildrenKept
<1>6. EntriesInv'
  <2>1. Quiet
    <3>1. child \in Actor
      BY <1>1 DEF Monitor, Born
    <3> QED BY <1>1, <3>1, SupAssumption DEF Quiet
  <2> QED BY <1>2, <1>4, <2>1, EntriesKept
<1> QED BY <1>3, <1>5, <1>6

\* The new entry: what was under way for the first spec is done.
LEMMA ChildStartedKeeps ==
  ASSUME SupInv, ChildStarted, Ahead, Inv', names' \in [System -> [Name -> Nat]]
  PROVE  Progress' /\ ChildrenInv' /\ EntriesInv'
<1> DEFINE s0 == Head(todo)
<1>1. /\ step = "file" /\ File(Sup)
      /\ children' = [children EXCEPT ![s0] = child]
      /\ todo' = Tail(todo)
      /\ step' = IF Tail(todo) = <<>> THEN "loop" ELSE "spawn"
      /\ child' = child /\ incarnations' = incarnations
  BY DEF ChildStarted
<1>2. Progress /\ ChildrenInv /\ EntriesInv /\ Inv
  BY DEF SupInv
<1>3. /\ s0 \in Name /\ Len(todo) \in Nat /\ Len(todo) >= 1 /\ s0 = todo[1] /\ todo \in Seq(Name)
      /\ \A i \in 1 .. Len(todo) : todo[i] = s0 => i = 1
  BY <1>1, <1>2, FirstSpec
<1>4. /\ Tail(todo) \in Seq(Name) /\ Len(Tail(todo)) = Len(todo) - 1
      /\ \A i \in 1 .. Len(Tail(todo)) : Tail(todo)[i] = todo[i + 1]
  <2>1. todo # <<>>
    BY <1>1, <1>2 DEF Progress
  <2> QED BY <1>3, <2>1, HeadTailProperties
<1>5. Progress'
  <2>1. \A i, j \in 1 .. Len(Tail(todo)) : Tail(todo)[i] = Tail(todo)[j] => i = j
    <3> SUFFICES ASSUME NEW i \in 1 .. Len(Tail(todo)), NEW j \in 1 .. Len(Tail(todo)),
                        Tail(todo)[i] = Tail(todo)[j]
                 PROVE  i = j
      OBVIOUS
    <3>1. i + 1 \in 1 .. Len(todo) /\ j + 1 \in 1 .. Len(todo) /\ todo[i + 1] = todo[j + 1]
      BY <1>3, <1>4
    <3>2. i + 1 = j + 1
      BY <1>2, <3>1 DEF Progress
    <3> QED BY <1>3, <1>4, <3>2
  <2> QED BY <1>1, <1>4, <2>1 DEF Progress
<1>6. \A s \in Name : ~ Starting(s)'
  BY <1>1 DEF Starting
<1>7. ASSUME NEW s \in Name PROVE Awaits(s)' <=> Awaits(s)
  <2>1. Awaits(s) => Awaits(s)'
    <3> SUFFICES ASSUME NEW i \in 1 .. Len(todo), todo[i] = s, i > 1 PROVE Awaits(s)'
      BY <1>1 DEF Awaits
    <3>1. i - 1 \in 1 .. Len(Tail(todo)) /\ Tail(todo)[i - 1] = s
      BY <1>3, <1>4
    <3>2. step' = "spawn"
      <4>1. Len(Tail(todo)) # 0
        BY <1>3, <1>4, <3>1
      <4>2. Tail(todo) # <<>>
        BY <1>4, <4>1, EmptySeq
      <4> QED BY <1>1, <4>2
    <3> QED BY <1>1, <3>1, <3>2 DEF Awaits
  <2>2. Awaits(s)' => Awaits(s)
    <3> SUFFICES ASSUME NEW i \in 1 .. Len(Tail(todo)), Tail(todo)[i] = s PROVE Awaits(s)
      BY <1>1 DEF Awaits
    <3>1. i + 1 \in 1 .. Len(todo) /\ todo[i + 1] = s /\ i + 1 > 1
      BY <1>3, <1>4
    <3> QED BY <3>1 DEF Awaits
  <2> QED BY <2>1, <2>2
<1>8. /\ children \in [Name -> Actor \cup {None}] /\ child \in incarnations[s0]
      /\ \A s \in Name : children[s] # None => children[s] \in incarnations[s]
      /\ incarnations[s0] \subseteq Actor
  BY <1>1, <1>2, <1>3 DEF ChildrenInv, Starting
<1>9. /\ children' \in [Name -> Actor \cup {None}] /\ children'[s0] = child
      /\ \A s \in Name \ {s0} : children'[s] = children[s]
  BY <1>1, <1>3, <1>8
<1>10. ASSUME NEW s \in Name PROVE Current(s)' = Current(s) /\ Registered(s)' = Registered(s)
  <2>1. Current(s)' = children'[s] /\ Registered(s)' = children'[s]
    BY <1>6 DEF Current, Registered
  <2>2. Current(s) = IF s = s0 THEN child ELSE children[s]
    BY <1>1 DEF Current, Starting
  <2>3. Registered(s) = IF s = s0 THEN child ELSE children[s]
    BY <1>1 DEF Registered, Starting
  <2> QED BY <1>9, <2>1, <2>2, <2>3
<1> HIDE DEF s0
<1>11. ChildrenInv'
  <2>1. \A s \in Name : children'[s] # None => children'[s] \in incarnations[s]
    BY <1>8, <1>9
  <2> QED BY <1>1, <1>2, <1>6, <1>7, <1>9, <1>10, <2>1, ChildrenKept
<1>12. EntriesInv'
  <2>1. Quiet
    BY <1>1, SupAssumption DEF Quiet, Runtime
  <2> QED BY <1>2, <1>10, <2>1, EntriesKept
<1> QED BY <1>5, <1>11, <1>12

\* handle-down: a <down> whose id is a child's is of that child, which has
\* ended; nothing else makes the program start one again.
LEMMA LoopKeeps ==
  ASSUME SupInv, Loop, Ahead, Inv', names' \in [System -> [Name -> Nat]]
  PROVE  Progress' /\ ChildrenInv' /\ EntriesInv'
<1> DEFINE m == Head(mail[Sup])
<1>1. /\ step = "loop" /\ Receive(Sup) /\ child' = child /\ incarnations' = incarnations
      /\ \/ \E s \in FindEntry(m) : m # Plain /\ HandleDown(s)
         \/ UNCHANGED <<step, todo, children>>
  BY DEF Loop
<1>2. Progress /\ ChildrenInv /\ EntriesInv /\ Inv /\ MailInv /\ NodeInv
  BY DEF SupInv
<1>3. Quiet
  BY <1>1, SupAssumption DEF Quiet
<1>4. todo = <<>>
  BY <1>1, <1>2 DEF Progress
<1>5. \A s \in Name : ~ Starting(s) /\ ~ Awaits(s) /\ Current(s) = children[s] /\ Registered(s) = children[s]
  BY <1>1, <1>4 DEF Starting, Awaits, Current, Registered
<1>6. CASE UNCHANGED <<step, todo, children>>
  <2>1. UNCHANGED programVars
    BY <1>1, <1>6 DEF programVars
  <2>2. [SupNext]_supVars
    BY DEF SupNext, Supervise
  <2> QED BY <1>3, <2>1, <2>2, OthersKeep
<1>7. ASSUME NEW s \in FindEntry(m), m # Plain, HandleDown(s)
      PROVE  Progress' /\ ChildrenInv' /\ EntriesInv'
  <2>1. m \in Actor /\ Dead(m)
    <3>1. mail[Sup] \in Seq(Actor \cup {Plain}) /\ mail[Sup] # <<>>
      BY <1>1, <1>2, SupAssumption DEF MailInv, Receive
    <3>2. m = mail[Sup][1] /\ 1 \in 1 .. Len(mail[Sup]) /\ m \in Actor \cup {Plain}
      BY <3>1, HeadTailProperties, LenProperties, EmptySeq
    <3> HIDE DEF m
    <3> QED BY <1>2, <1>7, <3>2, SupAssumption DEF MailInv
  <2> HIDE DEF m
  <2>2. s \in Name /\ children[s] # None /\ id[children[s]] = id[m]
    BY DEF FindEntry
  <2>3. children[s] = m
    <3>1. children[s] \in Born /\ m \in Born
      BY <1>2, <2>1, <2>2, KnownAreBorn DEF Dead, Born
    <3>2. home[children[s]] = home[m]
      BY <1>2, <3>1 DEF NodeInv, Born
    <3> QED BY <1>2, <2>2, <3>1, <3>2 DEF Inv, IdsInv
  <2>4. \A a \in incarnations[s] : Dead(a)
    BY <1>2, <1>5, <2>1, <2>2, <2>3 DEF ChildrenInv
  <2>5. \/ s \in Permanent /\ s \notin Temporary /\ todo' = <<s>> /\ step' = "spawn" /\ children' = children
        \/ children' = [children EXCEPT ![s] = None] /\ UNCHANGED <<step, todo>>
    BY <1>7, SpecsAssumption DEF HandleDown
  <2>6. CASE s \in Permanent /\ s \notin Temporary /\ todo' = <<s>> /\ step' = "spawn" /\ children' = children
    <3>1. /\ <<s>> \in Seq(Name) /\ <<s>> # <<>> /\ Len(<<s>>) = 1 /\ <<s>>[1] = s
      BY <2>2
    <3>2. Progress'
      BY <2>6, <3>1 DEF Progress
    <3>3. \A t \in Name : /\ ~ Starting(t)' /\ (Awaits(t)' <=> t = s)
                          /\ Current(t)' = children[t] /\ Registered(t)' = children[t]
      <4>1. \A t \in Name : ~ Starting(t)'
        BY <2>6 DEF Starting
      <4>2. \A t \in Name : Awaits(t)' <=> t = s
        BY <2>6, <3>1 DEF Awaits
      <4> QED BY <2>6, <4>1, <4>2 DEF Current, Registered
    <3>4. ASSUME NEW t \in Name
          PROVE  /\ incarnations[t] \subseteq Born'
                 /\ children[t] # None => children[t] \in incarnations[t]
                 /\ \A a \in incarnations[t] : Dead(a)' \/ (~ Awaits(t)' /\ a = Current(t)')
                 /\ t \in Temporary => /\ Awaits(t)' => incarnations[t] = {}
                                       /\ \A c, d \in incarnations[t] : c = d
      <4>1. /\ incarnations[t] \subseteq Born /\ incarnations[t] \subseteq Actor
            /\ children[t] # None => children[t] \in incarnations[t]
            /\ \A a \in incarnations[t] : Dead(a) \/ a = children[t]
            /\ t \in Temporary => \A c, d \in incarnations[t] : c = d
        BY <1>2, <1>5 DEF ChildrenInv
      <4>2. \A a \in incarnations[t] : Dead(a) => Dead(a)'
        BY <4>1 DEF Ahead
      <4>3. incarnations[t] \subseteq Born'
        BY <4>1 DEF Ahead
      <4>4. \A a \in incarnations[t] : Dead(a)' \/ (~ Awaits(t)' /\ a = Current(t)')
        BY <2>4, <3>3, <4>1, <4>2
      <4> QED BY <2>6, <3>3, <4>1, <4>3, <4>4
    <3>5. ChildrenInv'
      <4>1. children \in [Name -> Actor \cup {None}] /\ incarnations \in [Name -> SUBSET Actor]
        BY <1>2 DEF ChildrenInv
      <4> QED BY <1>1, <2>6, <3>3, <3>4, <4>1 DEF ChildrenInv
    <3>6. EntriesInv'
      BY <1>2, <1>3, <1>5, <3>3, EntriesKept
    <3> QED BY <3>2, <3>5, <3>6
  <2>7. CASE children' = [children EXCEPT ![s] = None] /\ UNCHANGED <<step, todo>>
    <3>1. Progress'
      BY <1>2, <2>7 DEF Progress
    <3>2. \A t \in Name : /\ ~ Starting(t)' /\ ~ Awaits(t)'
                          /\ Current(t)' = children'[t] /\ Registered(t)' = children'[t]
      BY <1>1, <1>4, <2>7 DEF Starting, Awaits, Current, Registered
    <3>3. /\ children' \in [Name -> Actor \cup {None}] /\ incarnations \in [Name -> SUBSET Actor]
          /\ children'[s] = None /\ \A t \in Name \ {s} : children'[t] = children[t]
      BY <1>2, <2>2, <2>7 DEF ChildrenInv
    <3>4. ASSUME NEW t \in Name
          PROVE  /\ incarnations[t] \subseteq Born'
                 /\ children'[t] # None => children'[t] \in incarnations[t]
                 /\ \A a \in incarnations[t] : Dead(a)' \/ (~ Awaits(t)' /\ a = Current(t)')
                 /\ t \in Temporary => \A c, d \in incarnations[t] : c = d
      <4>1. /\ incarnations[t] \subseteq Born /\ incarnations[t] \subseteq Actor
            /\ children[t] # None => children[t] \in incarnations[t]
            /\ \A a \in incarnations[t] : Dead(a) \/ a = children[t]
            /\ t \in Temporary => \A c, d \in incarnations[t] : c = d
        BY <1>2, <1>5 DEF ChildrenInv
      <4>2. \A a \in incarnations[t] : Dead(a) => Dead(a)'
        BY <4>1 DEF Ahead
      <4>3. incarnations[t] \subseteq Born'
        BY <4>1 DEF Ahead
      <4>4. \A a \in incarnations[t] : Dead(a)' \/ (~ Awaits(t)' /\ a = Current(t)')
        <5>1. CASE t = s
          BY <2>4, <4>2, <5>1
        <5>2. CASE t # s
          BY <3>2, <3>3, <4>1, <4>2, <5>2
        <5> QED BY <5>1, <5>2
      <4> QED BY <3>3, <4>1, <4>3, <4>4
    <3>5. ChildrenInv'
      BY <1>1, <3>2, <3>3, <3>4 DEF ChildrenInv
    <3>6. EntriesInv'
      BY <1>2, <1>3, <1>5, <3>2, <3>3, EntriesKept
    <3> QED BY <3>1, <3>5, <3>6
  <2> QED BY <2>5, <2>6, <2>7
<1> QED BY <1>1, <1>6, <1>7

LEMMA SupInvInit == SupInit => SupInv
<1> SUFFICES ASSUME SupInit PROVE SupInv
  OBVIOUS
<1>1. /\ phase = [a \in Actor |-> IF a = Main THEN "running" ELSE "unborn"]
      /\ home = [a \in Actor |-> Default] /\ mail = [a \in Actor |-> <<>>]
      /\ linked = [k \in System |-> IF k = Default THEN {Main} ELSE {}]
      /\ names = [k \in System |-> [n \in Name |-> 0]]
      /\ step = (IF Specs = <<>> THEN "loop" ELSE "spawn") /\ todo = Specs
      /\ children = [s \in Name |-> None] /\ incarnations = [s \in Name |-> {}]
  BY DEF SupInit, Init
<1>2. Inv
  BY InvInit DEF SupInit
<1>3. NodeInv
  BY <1>1 DEF NodeInv, Born
<1>4. Progress
  BY <1>1, SpecsAssumption DEF Progress
<1>5. MailInv
  <2>1. <<>> \in Seq(Actor \cup {Plain}) /\ Len(<<>>) = 0
    BY EmptySeq
  <2> QED BY <1>1, <2>1 DEF MailInv
<1>6. ChildrenInv
  BY <1>1 DEF ChildrenInv, Starting
<1>7. EntriesInv
  <2>1. \A s \in Name : Registered(s) \notin linked[Default]
    BY <1>1, ActorAssumption, SystemAssumption DEF Registered, Starting
  <2> QED BY <1>1, <2>1 DEF EntriesInv
<1> QED BY <1>2, <1>3, <1>4, <1>5, <1>6, <1>7 DEF SupInv

LEMMA SupInvStep == SupInv /\ [SupNext]_supVars => SupInv'
<1> SUFFICES ASSUME SupInv, [SupNext]_supVars PROVE SupInv'
  OBVIOUS
<1>1. Inv' /\ NodeInv' /\ MailInv' /\ Ahead /\ names' \in [System -> [Name -> Nat]]
  BY Basis
<1>2. CASE Quiet /\ UNCHANGED programVars
  BY <1>1, <1>2, OthersKeep DEF SupInv
<1>3. UNCHANGED supVars => Quiet /\ UNCHANGED programVars
  BY DEF supVars, Quiet
<1>4. StartSupervisor => Quiet /\ UNCHANGED programVars
  BY ActorAssumption, SupAssumption DEF StartSupervisor, Quiet
<1>5. MakeBehaviorRaises => Quiet /\ UNCHANGED programVars
  BY SupAssumption DEF MakeBehaviorRaises, Quiet
<1>6. ASSUME NEW a \in Actor, RuntimeStep(a) PROVE Quiet /\ UNCHANGED programVars
  BY <1>6 DEF RuntimeStep, Quiet, Runtime
<1>7. ASSUME NEW a \in Actor \ {Main, Sup}, ChildCalls(a) PROVE Quiet /\ UNCHANGED programVars
  <2>1. Sup \in Born
    BY <1>7 DEF ChildCalls, End, Send, Ready, SupInv, NodeInv, Born
  <2> QED BY <1>7, <2>1 DEF ChildCalls, Quiet
<1>8. ASSUME NEW b \in Actor, SpawnChild(b) PROVE SupInv'
  BY <1>1, <1>8, SpawnChildKeeps DEF SupInv
<1>9. CASE RegisterChild
  BY <1>1, <1>9, RegisterChildKeeps DEF SupInv
<1>10. CASE MonitorChild
  BY <1>1, <1>10, MonitorChildKeeps DEF SupInv
<1>11. CASE ChildStarted
  BY <1>1, <1>11, ChildStartedKeeps DEF SupInv
<1>12. CASE Loop
  BY <1>1, <1>12, LoopKeeps DEF SupInv
<1> QED BY <1>2, <1>3, <1>4, <1>5, <1>6, <1>7, <1>8, <1>9, <1>10, <1>11, <1>12 DEF SupNext, Supervise

LEMMA SupInvHolds == SupSpec => []SupInv
<1>1. SupInit => SupInv
  BY SupInvInit
<1>2. SupInv /\ [SupNext]_supVars => SupInv'
  BY SupInvStep
<1> QED BY <1>1, <1>2, PTL DEF SupSpec

\* Whenever the ends of children, their <down> records and the restarts of
\* the program fall together, supervisor-loop has at most one actor running for
\* a child, and starts a child that is not 'permanent no second time.
THEOREM OneAtATime == SupSpec => []OneIncarnation
<1>1. SupInv => OneIncarnation
  <2> SUFFICES ASSUME SupInv, NEW s \in Name
               PROVE  /\ \A a, b \in incarnations[s] :
                           phase[a] \in {"running", "ended"} /\ phase[b] \in {"running", "ended"} => a = b
                      /\ s \in Temporary => Cardinality(incarnations[s]) <= 1
    BY DEF OneIncarnation
  <2>1. /\ \A a \in incarnations[s] : Dead(a) \/ a = Current(s)
        /\ s \in Temporary => \A a, b \in incarnations[s] : a = b
    BY DEF SupInv, ChildrenInv
  <2>2. \A a, b \in incarnations[s] :
          phase[a] \in {"running", "ended"} /\ phase[b] \in {"running", "ended"} => a = b
    BY <2>1 DEF Dead
  <2>3. ASSUME s \in Temporary PROVE Cardinality(incarnations[s]) <= 1
    <3>1. CASE incarnations[s] = {}
      BY <3>1, FS_EmptySet
    <3>2. CASE \E a : a \in incarnations[s]
      <4>1. PICK a : incarnations[s] = {a}
        BY <2>1, <2>3, <3>2
      <4>2. Cardinality({a}) = 1
        BY FS_Singleton
      <4> QED BY <4>1, <4>2
    <3> QED BY <3>1, <3>2
  <2> QED BY <2>2, <2>3
<1> QED BY <1>1, SupInvHolds, PTL

\* While supervisor-loop waits, whereis of a child's name answers the child in
\* its entry as long as that one is in the registry: the end of a former
\* holder takes only its own id out of the names.
THEOREM NamesAreCurrent == SupSpec => []NameIsCurrent
<1>1. SupInv => NameIsCurrent
  <2> SUFFICES ASSUME SupInv, step = "loop", NEW s \in Name, children[s] \in linked[Default]
               PROVE  Whereis(Default, s) = children[s]
    BY DEF NameIsCurrent
  <2>1. Registered(s) = children[s]
    BY DEF Registered, Starting
  <2>2. names[Default][s] = id[children[s]]
    BY <2>1 DEF SupInv, EntriesInv
  <2>3. /\ children[s] \in Born /\ linked[Default] \subseteq Born
        /\ \A c \in linked[Default] : home[c] = Default
    BY SystemAssumption DEF SupInv, Inv, RegistryType, LinkedAtHome, Born
  <2>4. id[children[s]] # 0 /\ \A c \in linked[Default] : id[c] = id[children[s]] => c = children[s]
    BY <2>3 DEF SupInv, Inv, IdsInv
  <2>5. FindContext(Default, names[Default][s]) = children[s]
    BY <2>2, <2>4 DEF FindContext
  <2> QED BY <2>2, <2>4, <2>5 DEF Whereis
<1> QED BY <1>1, SupInvHolds, PTL

=============================================================================
