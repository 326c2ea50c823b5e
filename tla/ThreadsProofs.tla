---------------------------- MODULE ThreadsProofs ----------------------------
(***************************************************************************)
(* Threads of icecreme that share a structure.                             *)
(*                                                                         *)
(* The mailbox, for every number of senders, every capacity and every      *)
(* number of messages: it is type correct, it is a bounded FIFO queue, and *)
(* no wake-up is lost.                                                     *)
(*                                                                         *)
(* The pool of mux.c, for any limits, number of threads and failures: it   *)
(* counts its workers exactly and stays within its limit; and as long as   *)
(* the system gives no descriptor number out again, every listener is      *)
(* closed once, by the thread it belongs to.                               *)
(*                                                                         *)
(* The loop that each of them runs, for any clients: it watches every      *)
(* connection it has accepted, through one slot, until it closes it.       *)
(***************************************************************************)
EXTENDS Mailbox, MuxPool, MuxConn, FiniteSetTheorems, SequenceTheorems, TLAPS

(***************************************************************************)
(* The ring.                                                               *)
(***************************************************************************)
\* The slot of the i-th message that waits.
SlotAt(h, i) == (h + i - 1) % Capacity

\* tail is where the next message goes; the slots between head and tail hold
\* messages; a thread in mailbox_send has a message to send.
RingOK ==
  /\ tail = (head + count) % Capacity
  /\ \A i \in 1 .. count : buf[SlotAt(head, i)] \in Message
  /\ \A s \in Sender : at[s] # "outside" => sent[s] >= 1

Inv == TypeOK /\ RingOK

\* An index below twice the capacity wraps around at most once.
LEMMA Wrap ==
  ASSUME NEW a \in Nat, a < 2 * Capacity
  PROVE  a % Capacity = IF a < Capacity THEN a ELSE a - Capacity
  <1>1. CASE a < Capacity
    BY <1>1, CapacityAssumption
  <1>2. CASE a >= Capacity
    BY <1>2, CapacityAssumption
  <1> QED
    BY <1>1, <1>2, CapacityAssumption

\* The slots of the waiting messages are in the ring.
LEMMA AtInRing ==
  ASSUME NEW h \in Slot, NEW i \in 1 .. Capacity
  PROVE  /\ SlotAt(h, i) \in Slot
         /\ SlotAt(h, i) = IF h + i - 1 < Capacity THEN h + i - 1 ELSE h + i - 1 - Capacity
  <1>1. h + i - 1 \in Nat /\ h + i - 1 < 2 * Capacity
    BY CapacityAssumption DEF Slot
  <1> QED
    BY <1>1, Wrap, CapacityAssumption DEF SlotAt, Slot

\* The next slot of the ring.
LEMMA NextSlot ==
  ASSUME NEW h \in Slot
  PROVE  /\ (h + 1) % Capacity \in Slot
         /\ (h + 1) % Capacity = IF h + 1 < Capacity THEN h + 1 ELSE 0
  <1>1. h + 1 \in Nat /\ h + 1 < 2 * Capacity
    BY CapacityAssumption DEF Slot
  <1> QED
    BY <1>1, Wrap, CapacityAssumption DEF Slot

\* mailbox_send writes to no slot that holds a message, and the slot it
\* writes to comes right after them.
LEMMA TailIsFree ==
  ASSUME NEW h \in Slot, NEW c \in 0 .. Capacity - 1, NEW t,
         t = (h + c) % Capacity
  PROVE  /\ t = SlotAt(h, c + 1)
         /\ t \in Slot
         /\ \A i \in 1 .. c : SlotAt(h, i) # t
         /\ (t + 1) % Capacity = (h + (c + 1)) % Capacity
  <1>1. c + 1 \in 1 .. Capacity /\ h + c \in Nat /\ h + c < 2 * Capacity
    BY CapacityAssumption DEF Slot
  <1>2. t = SlotAt(h, c + 1)
    BY CapacityAssumption DEF SlotAt, Slot
  <1>3. t \in Slot /\ t = IF h + c < Capacity THEN h + c ELSE h + c - Capacity
    BY <1>1, Wrap, CapacityAssumption DEF Slot
  <1>4. ASSUME NEW i \in 1 .. c PROVE SlotAt(h, i) # t
    <2>1. i \in 1 .. Capacity
      BY CapacityAssumption
    <2>2. SlotAt(h, i) = IF h + i - 1 < Capacity THEN h + i - 1 ELSE h + i - 1 - Capacity
      BY <2>1, AtInRing
    <2> QED
      BY <1>3, <2>2, CapacityAssumption DEF Slot
  <1>5. (t + 1) % Capacity = (h + (c + 1)) % Capacity
    <2>1. PICK a \in Nat : a = h + (c + 1) /\ a < 2 * Capacity
      BY CapacityAssumption DEF Slot
    <2>2. a % Capacity = IF a < Capacity THEN a ELSE a - Capacity
      BY <2>1, Wrap
    <2>3. (t + 1) % Capacity = IF t + 1 < Capacity THEN t + 1 ELSE 0
      BY <1>3, NextSlot
    <2>4. (t + 1) % Capacity = a % Capacity
      BY <1>3, <2>1, <2>2, <2>3, CapacityAssumption DEF Slot
    <2> QED
      BY <2>1, <2>4
  <1> QED
    BY <1>2, <1>3, <1>4, <1>5

\* When mailbox_receive has moved head, every message is one place further on
\* in the queue and tail is still where the next one goes.
LEMMA HeadMoves ==
  ASSUME NEW h \in Slot, NEW c \in 1 .. Capacity
  PROVE  /\ \A i \in 1 .. c - 1 : SlotAt((h + 1) % Capacity, i) = SlotAt(h, i + 1)
         /\ (((h + 1) % Capacity) + (c - 1)) % Capacity = (h + c) % Capacity
  <1> DEFINE g == (h + 1) % Capacity
  <1>1. g \in Slot /\ g = IF h + 1 < Capacity THEN h + 1 ELSE 0
    BY NextSlot
  <1> HIDE DEF g
  <1>2. ASSUME NEW i \in 1 .. c - 1 PROVE SlotAt(g, i) = SlotAt(h, i + 1)
    <2>1. i \in 1 .. Capacity /\ i + 1 \in 1 .. Capacity
      BY CapacityAssumption
    <2> QED
      BY <1>1, <2>1, AtInRing, CapacityAssumption DEF Slot
  <1>3. (g + (c - 1)) % Capacity = (h + c) % Capacity
    <2>1. g + (c - 1) \in Nat /\ g + (c - 1) < 2 * Capacity
      BY <1>1, CapacityAssumption DEF Slot
    <2>2. h + c \in Nat /\ h + c < 2 * Capacity
      BY CapacityAssumption DEF Slot
    <2> QED
      BY <1>1, <2>1, <2>2, Wrap, CapacityAssumption DEF Slot
  <1> QED
    BY <1>2, <1>3 DEF g

(***************************************************************************)
(* Type correctness.                                                       *)
(***************************************************************************)
LEMMA InvInit == Init => Inv
  BY CapacityAssumption, MaxSendsAssumption
  DEF Init, Inv, TypeOK, RingOK, Slot, Message, Empty, Place, Thread

\* Steps that change neither the ring nor what was received.
LEMMA RingUnchanged ==
  ASSUME Inv, UNCHANGED <<buf, head, tail, count, received>>,
         at' \in [Thread -> Place], sent' \in [Sender -> 0 .. MaxSends],
         \A s \in Sender : at'[s] # "outside" => sent'[s] >= 1
  PROVE  Inv'
  BY DEF Inv, TypeOK, RingOK, SlotAt

\* Where the other threads are after a thread was woken up or not.
LEMMA SignalType ==
  ASSUME NEW places \in [Thread -> Place], at \in [Thread -> Place],
         NEW p \in SignalNotFull(places)
  PROVE  /\ p \in [Thread -> Place]
         /\ p[Owner] = places[Owner]
         /\ \A s \in Sender : p[s] # places[s] => at[s] = "waiting" /\ p[s] = "entering"
  <1>1. CASE WaitingSenders = {}
    BY <1>1 DEF SignalNotFull
  <1>2. CASE WaitingSenders # {}
    <2>1. PICK s \in WaitingSenders : p = [places EXCEPT ![s] = "entering"]
      BY <1>2 DEF SignalNotFull
    <2> QED
      BY <2>1, SenderAssumption DEF WaitingSenders, Place, Thread
  <1> QED
    BY <1>1, <1>2

LEMMA PutKeepsInv ==
  ASSUME Inv, NEW s \in Sender, Put(s)
  PROVE  Inv'
  <1> USE DEF Inv, Put
  <1>1. /\ head \in Slot /\ count \in 0 .. Capacity - 1 /\ tail \in Slot
        /\ count' = count + 1 /\ head' = head
        /\ buf \in [Slot -> Message \cup {Empty}]
    BY CapacityAssumption DEF TypeOK
  <1>2. /\ tail = SlotAt(head, count + 1)
        /\ \A i \in 1 .. count : SlotAt(head, i) # tail
        /\ tail' = (head + (count + 1)) % Capacity
    <2>1. tail = (head + count) % Capacity
      BY DEF RingOK
    <2>2. /\ tail = SlotAt(head, count + 1)
          /\ \A i \in 1 .. count : SlotAt(head, i) # tail
          /\ (tail + 1) % Capacity = (head + (count + 1)) % Capacity
      BY <1>1, <2>1, TailIsFree
    <2> QED
      BY <2>2
  <1>3. <<s, sent[s]>> \in Message
    BY MaxSendsAssumption DEF TypeOK, RingOK, Message
  <1>4. at' \in [Thread -> Place] /\ \A r \in Sender : at'[r] # "outside" => at[r] # "outside"
    BY SenderAssumption DEF TypeOK, Thread, Place
  <1>5. TypeOK'
    <2>1. buf' \in [Slot -> Message \cup {Empty}]
      BY <1>1, <1>3
    <2>2. tail' \in Slot
      BY <1>1, NextSlot
    <2>3. head' \in Slot /\ count' \in 0 .. Capacity
      BY <1>1, CapacityAssumption
    <2>4. sent' \in [Sender -> 0 .. MaxSends] /\ received' \in Seq(Message)
      BY DEF TypeOK
    <2> QED
      BY <1>4, <2>1, <2>2, <2>3, <2>4 DEF TypeOK
  <1>6. ASSUME NEW i \in 1 .. count' PROVE buf'[SlotAt(head', i)] \in Message
    <2>0. i \in 1 .. Capacity
      BY <1>1, CapacityAssumption
    <2>1. SlotAt(head, i) \in Slot
      BY <1>1, <2>0, AtInRing
    <2>2. CASE i = count + 1
      BY <1>1, <1>2, <1>3, <2>2
    <2>3. CASE i \in 1 .. count
      BY <1>1, <1>2, <2>1, <2>3 DEF RingOK
    <2> QED
      BY <1>1, <2>2, <2>3
  <1>7. \A r \in Sender : at'[r] # "outside" => sent'[r] >= 1
    BY <1>4 DEF RingOK
  <1>8. RingOK'
    BY <1>1, <1>2, <1>6, <1>7 DEF RingOK, SlotAt
  <1> QED
    BY <1>5, <1>8

LEMMA TakeKeepsInv ==
  ASSUME Inv, Take
  PROVE  Inv'
  <1> USE DEF Inv, Take
  <1>1. /\ head \in Slot /\ count \in 1 .. Capacity /\ tail \in Slot
        /\ count' = count - 1 /\ head' = (head + 1) % Capacity
        /\ received \in Seq(Message)
    BY CapacityAssumption DEF TypeOK
  <1>2. /\ \A i \in 1 .. count - 1 : SlotAt(head', i) = SlotAt(head, i + 1)
        /\ (head' + (count - 1)) % Capacity = (head + count) % Capacity
    BY <1>1, HeadMoves
  <1>3. SlotAt(head, 1) = head
    BY <1>1, AtInRing, CapacityAssumption DEF Slot
  <1>4. buf[head] \in Message
    BY <1>1, <1>3 DEF RingOK
  <1>5. /\ at' \in [Thread -> Place]
        /\ \A s \in Sender : at'[s] # "outside" => at[s] # "outside"
    <2>1. at \in [Thread -> Place] /\ [at EXCEPT ![Owner] = "outside"] \in [Thread -> Place]
      BY DEF TypeOK, Thread, Place
    <2> QED
      BY <2>1, SignalType, SenderAssumption DEF Thread
  <1>6. TypeOK'
    BY <1>1, <1>4, <1>5, NextSlot, CapacityAssumption DEF TypeOK
  <1>7. ASSUME NEW i \in 1 .. count' PROVE buf'[SlotAt(head', i)] \in Message
    BY <1>1, <1>2 DEF RingOK
  <1>8. RingOK'
    BY <1>1, <1>2, <1>5, <1>7 DEF RingOK, SlotAt
  <1> QED
    BY <1>6, <1>8

LEMMA InvStep == Inv /\ [Next]_vars => Inv'
  <1> SUFFICES ASSUME Inv, [Next]_vars PROVE Inv'
    OBVIOUS
  <1>0. at \in [Thread -> Place] /\ sent \in [Sender -> 0 .. MaxSends]
    BY DEF Inv, TypeOK
  <1>1. CASE \E s \in Sender : CallSend(s)
    BY <1>0, <1>1, RingUnchanged, SenderAssumption, MaxSendsAssumption
    DEF CallSend, Inv, RingOK, Place, Thread
  <1>2. CASE \E s \in Sender : WaitNotFull(s)
    BY <1>0, <1>2, RingUnchanged DEF WaitNotFull, Inv, RingOK, Place, Thread
  <1>3. CASE \E s \in Sender : Put(s)
    BY <1>3, PutKeepsInv
  <1>4. CASE CallReceive
    BY <1>0, <1>4, RingUnchanged, SenderAssumption DEF CallReceive, Inv, RingOK, Place, Thread
  <1>5. CASE WaitNotEmpty
    BY <1>0, <1>5, RingUnchanged, SenderAssumption DEF WaitNotEmpty, Inv, RingOK, Place, Thread
  <1>6. CASE Take
    BY <1>6, TakeKeepsInv
  <1>7. CASE \E t \in Thread : WakeSpuriously(t)
    BY <1>0, <1>7, RingUnchanged DEF WakeSpuriously, Inv, RingOK, Place, Thread
  <1>8. CASE UNCHANGED vars
    BY <1>0, <1>8, RingUnchanged DEF vars, Inv, RingOK
  <1> QED
    BY <1>1, <1>2, <1>3, <1>4, <1>5, <1>6, <1>7, <1>8 DEF Next

\* The ring invariant holds in every state of a mailbox.
LEMMA InvHolds == Spec => []Inv
  <1>1. Init => Inv
    BY InvInit
  <1>2. Inv /\ [Next]_vars => Inv'
    BY InvStep
  <1> QED
    BY <1>1, <1>2, PTL DEF Spec

\* Type correctness of mailbox_send and mailbox_receive, for any capacity and
\* any senders; in particular receive! returns only what was sent.
THEOREM TypeCorrect == Spec => []TypeOK
  <1>1. Inv => TypeOK
    BY DEF Inv
  <1> QED
    BY <1>1, InvHolds, PTL

(***************************************************************************)
(* Refinement.                                                             *)
(***************************************************************************)
LEMMA QueueType ==
  ASSUME Inv
  PROVE  queue \in Seq(Message) /\ Len(queue) = count
  <1>1. count \in Nat
    BY CapacityAssumption DEF Inv, TypeOK
  <1>2. queue = [i \in 1 .. count |-> buf[SlotAt(head, i)]]
    BY DEF queue, SlotAt
  <1>3. queue \in [1 .. count -> Message]
    BY <1>2 DEF Inv, RingOK
  <1> QED
    BY <1>1, <1>3

\* A stay in mailbox_send that finds room puts one message.
LEMMA PutRefines ==
  ASSUME Inv, NEW s \in Sender, Put(s)
  PROVE  Fifo!Put(<<s, sent[s]>>) /\ <<s, sent[s]>> \in Message
  <1> DEFINE m == <<s, sent[s]>>
  <1>1. /\ head \in Slot /\ count \in 0 .. Capacity - 1 /\ tail \in Slot
        /\ count' = count + 1 /\ head' = head /\ received' = received
        /\ buf \in [Slot -> Message \cup {Empty}] /\ buf' = [buf EXCEPT ![tail] = m]
    BY CapacityAssumption DEF Inv, TypeOK, Put
  <1>2. m \in Message
    BY MaxSendsAssumption DEF Inv, TypeOK, RingOK, Message, Put
  <1> HIDE DEF m
  <1>3. tail = (head + count) % Capacity
    BY DEF Inv, RingOK
  <1>4. tail = SlotAt(head, count + 1) /\ \A i \in 1 .. count : SlotAt(head, i) # tail
    BY <1>1, <1>3, TailIsFree
  <1>5. queue = [i \in 1 .. count |-> buf[SlotAt(head, i)]]
    BY DEF queue, SlotAt
  <1>6. queue' = [i \in 1 .. count + 1 |-> buf'[SlotAt(head, i)]]
    BY <1>1 DEF queue, SlotAt
  <1>7. queue \in Seq(Message) /\ Len(queue) = count
    BY QueueType
  <1>8. ASSUME NEW i \in 1 .. count + 1
        PROVE  buf'[SlotAt(head, i)] = IF i <= count THEN queue[i] ELSE m
    <2>0. i \in 1 .. Capacity
      BY <1>1, CapacityAssumption
    <2>1. SlotAt(head, i) \in Slot
      BY <1>1, <2>0, AtInRing
    <2>2. CASE i = count + 1
      BY <1>1, <1>4, <2>2
    <2>3. CASE i \in 1 .. count
      BY <1>1, <1>4, <1>5, <2>1, <2>3
    <2> QED
      BY <1>1, <2>2, <2>3
  <1>9. queue' = Append(queue, m)
    <2>1. queue' = [i \in 1 .. count + 1 |-> IF i <= count THEN queue[i] ELSE m]
      BY <1>6, <1>8
    <2> DEFINE longer == Append(queue, m)
    <2>2. /\ longer \in Seq(Message)
          /\ Len(longer) = count + 1
          /\ \A i \in 1 .. count + 1 : longer[i] = IF i <= count THEN queue[i] ELSE m
      BY <1>1, <1>2, <1>7
    <2> HIDE DEF longer
    <2>3. longer \in [1 .. count + 1 -> Message]
      BY <2>2, LenProperties
    <2>4. queue' = longer
      BY <2>1, <2>2, <2>3
    <2> QED
      BY <2>4 DEF longer
  <1>10. Len(queue) < Capacity
    BY <1>1, <1>7, CapacityAssumption
  <1> QED
    BY <1>1, <1>2, <1>9, <1>10 DEF Fifo!Put, m

\* A stay in mailbox_receive that finds a message takes the oldest one.
LEMMA TakeRefines ==
  ASSUME Inv, Take
  PROVE  Fifo!Take
  <1>1. /\ head \in Slot /\ count \in 1 .. Capacity
        /\ count' = count - 1 /\ head' = (head + 1) % Capacity /\ buf' = buf
        /\ received' = Append(received, buf[head])
    BY CapacityAssumption DEF Inv, TypeOK, Take
  <1>2. \A i \in 1 .. count - 1 : SlotAt(head', i) = SlotAt(head, i + 1)
    BY <1>1, HeadMoves
  <1>3. SlotAt(head, 1) = head
    <2>1. 1 \in 1 .. Capacity
      BY CapacityAssumption
    <2>2. SlotAt(head, 1) = IF head + 1 - 1 < Capacity THEN head + 1 - 1 ELSE head + 1 - 1 - Capacity
      BY <1>1, <2>1, AtInRing
    <2> QED
      BY <1>1, <2>2, CapacityAssumption DEF Slot
  <1>4. queue = [i \in 1 .. count |-> buf[SlotAt(head, i)]]
    BY DEF queue, SlotAt
  <1>5. queue' = [i \in 1 .. count - 1 |-> buf[SlotAt(head', i)]]
    BY <1>1 DEF queue, SlotAt
  <1>6. queue \in Seq(Message) /\ Len(queue) = count
    BY QueueType
  <1>7. queue' = [i \in 1 .. count - 1 |-> queue[i + 1]]
    <2>1. ASSUME NEW i \in 1 .. count - 1 PROVE buf[SlotAt(head', i)] = queue[i + 1]
      <3>1. i + 1 \in 1 .. count
        BY <1>1
      <3> QED
        BY <1>2, <1>4, <3>1
    <2> QED
      BY <1>5, <2>1
  <1>8. queue # <<>> /\ Head(queue) = buf[head]
    BY <1>1, <1>3, <1>4, <1>6
  <1>9. queue' = Tail(queue)
    <2> DEFINE rest == Tail(queue)
    <2>1. /\ rest \in Seq(Message)
          /\ Len(rest) = count - 1
          /\ \A i \in 1 .. count - 1 : rest[i] = queue[i + 1]
      BY <1>6, <1>8, HeadTailProperties
    <2> HIDE DEF rest
    <2>2. rest \in [1 .. count - 1 -> Message]
      BY <2>1, LenProperties
    <2>3. queue' = rest
      BY <1>7, <2>1, <2>2
    <2> QED
      BY <2>3 DEF rest
  <1> QED
    BY <1>1, <1>8, <1>9 DEF Fifo!Take

\* mailbox_send and mailbox_receive implement the bounded queue: for any
\* capacity and any senders, whatever order they get the mutex in.
THEOREM ImplementsFifo == Spec => IsBoundedFifo
  <1>1. Init => Fifo!Init
    <2> SUFFICES ASSUME Init PROVE Fifo!Init
      OBVIOUS
    <2>1. queue = [i \in 1 .. 0 |-> buf[(head + i - 1) % Capacity]]
      BY DEF Init, queue
    <2>2. queue = <<>>
      BY <2>1
    <2> QED
      BY <2>2 DEF Init, Fifo!Init
  <1>2. Inv /\ [Next]_vars => [Fifo!Next]_<<queue, received>>
    <2> SUFFICES ASSUME Inv, [Next]_vars PROVE [Fifo!Next]_<<queue, received>>
      OBVIOUS
    <2>1. CASE \E s \in Sender : Put(s)
      BY <2>1, PutRefines DEF Fifo!Next
    <2>2. CASE Take
      BY <2>2, TakeRefines DEF Fifo!Next
    <2>3. CASE UNCHANGED <<buf, head, count, received>>
      BY <2>3 DEF queue
    <2> QED
      BY <2>1, <2>2, <2>3
      DEF Next, vars, CallSend, WaitNotFull, CallReceive, WaitNotEmpty, WakeSpuriously
  <1> QED
    BY <1>1, <1>2, InvHolds, PTL DEF Spec, IsBoundedFifo, Fifo!Spec

(***************************************************************************)
(* Wake-ups.                                                               *)
(***************************************************************************)
Entering == {s \in Sender : at[s] = "entering"}

LEMMA EnteringFinite ==
  /\ IsFiniteSet(Entering) /\ Cardinality(Entering) \in Nat
  /\ IsFiniteSet(Entering') /\ Cardinality(Entering') \in Nat
  <1>1. Entering \subseteq Sender /\ Entering' \subseteq Sender
    BY DEF Entering
  <1> QED
    BY <1>1, SenderAssumption, FS_Subset, FS_CardinalityType

\* Steps in which nobody leaves the way in and nobody begins to wait.
LEMMA MoreEnter ==
  ASSUME Inv, NoLostWakeup, Entering \subseteq Entering',
         WaitingSenders' \subseteq WaitingSenders, count' = count,
         at'[Owner] = "waiting" => count = 0
  PROVE  NoLostWakeup'
  <1>1. Cardinality(Entering) <= Cardinality(Entering')
    BY EnteringFinite, FS_Subset
  <1>2. count \in Nat
    BY CapacityAssumption DEF Inv, TypeOK
  <1> QED
    BY <1>1, <1>2, EnteringFinite, CapacityAssumption DEF NoLostWakeup, Entering

LEMMA WakeupStep == Inv /\ NoLostWakeup /\ [Next]_vars => NoLostWakeup'
  <1> SUFFICES ASSUME Inv, NoLostWakeup, [Next]_vars PROVE NoLostWakeup'
    OBVIOUS
  <1>0. at \in [Thread -> Place] /\ count \in 0 .. Capacity
    BY DEF Inv, TypeOK
  <1> USE SenderAssumption
  <1>1. CASE \E s \in Sender : CallSend(s)
    BY <1>0, <1>1, MoreEnter DEF CallSend, Entering, WaitingSenders, Thread, NoLostWakeup
  <1>2. CASE \E s \in Sender : WaitNotFull(s)
    <2>1. count' = count /\ count >= Capacity /\ at'[Owner] = at[Owner]
      BY <1>0, <1>2 DEF WaitNotFull, Thread
    <2> QED
      BY <1>0, <2>1, EnteringFinite, CapacityAssumption DEF NoLostWakeup, Entering
  <1>3. CASE \E s \in Sender : Put(s)
    <2>1. PICK s \in Sender : Put(s)
      BY <1>3
    <2>2. at' = [at EXCEPT ![s] = "outside", ![Owner] = IF @ = "waiting" THEN "entering" ELSE @]
      BY <2>1 DEF Put
    <2>3. /\ at'[Owner] # "waiting"
          /\ WaitingSenders' = WaitingSenders
          /\ Entering' = Entering \ {s} /\ s \in Entering
      BY <1>0, <2>1, <2>2 DEF Put, WaitingSenders, Entering, Thread
    <2>4. Cardinality(Entering') = Cardinality(Entering) - 1
      BY <2>3, EnteringFinite, FS_RemoveElement
    <2>5. count' = count + 1
      BY <2>1 DEF Put
    <2> QED
      BY <1>0, <2>3, <2>4, <2>5, EnteringFinite, CapacityAssumption DEF NoLostWakeup, Entering
  <1>4. CASE CallReceive
    BY <1>0, <1>4, MoreEnter DEF CallReceive, Entering, WaitingSenders, Thread, NoLostWakeup
  <1>5. CASE WaitNotEmpty
    BY <1>0, <1>5, MoreEnter DEF WaitNotEmpty, Entering, WaitingSenders, Thread, NoLostWakeup
  <1>6. CASE Take
    <2> DEFINE left == [at EXCEPT ![Owner] = "outside"]
    <2>1. /\ left \in [Thread -> Place] /\ left[Owner] = "outside"
          /\ \A s \in Sender : left[s] = at[s]
      BY <1>0 DEF Thread, Place
    <2>2. count' = count - 1 /\ at' \in SignalNotFull(left)
      BY <1>6 DEF Take
    <2> HIDE DEF left
    <2>3. CASE WaitingSenders = {}
      <3>1. at' = left
        BY <2>2, <2>3 DEF SignalNotFull
      <3> QED
        BY <2>1, <2>3, <3>1 DEF NoLostWakeup, WaitingSenders
    <2>4. CASE WaitingSenders # {}
      <3>1. PICK s \in WaitingSenders : at' = [left EXCEPT ![s] = "entering"]
        BY <2>2, <2>4 DEF SignalNotFull
      <3>2. at'[Owner] # "waiting" /\ Entering' = Entering \cup {s} /\ s \notin Entering
        BY <2>1, <3>1 DEF WaitingSenders, Entering, Thread
      <3>3. Cardinality(Entering') = Cardinality(Entering) + 1
        BY <3>2, EnteringFinite, FS_AddElement
      <3> QED
        BY <1>0, <2>2, <2>4, <3>2, <3>3, EnteringFinite, CapacityAssumption
        DEF NoLostWakeup, Entering
    <2> QED
      BY <2>3, <2>4
  <1>7. CASE \E t \in Thread : WakeSpuriously(t)
    BY <1>0, <1>7, MoreEnter DEF WakeSpuriously, Entering, WaitingSenders, Thread, NoLostWakeup
  <1>8. CASE UNCHANGED vars
    BY <1>0, <1>8, MoreEnter DEF vars, Entering, WaitingSenders, NoLostWakeup
  <1> QED
    BY <1>1, <1>2, <1>3, <1>4, <1>5, <1>6, <1>7, <1>8 DEF Next

\* One pthread_cond_signal per message is enough, for any number of senders:
\* no thread waits for what is already there unless somebody is on the way
\* to it.
THEOREM WakeupsSuffice == Spec => []NoLostWakeup
  <1>1. Init => NoLostWakeup
    BY SenderAssumption DEF Init, NoLostWakeup, WaitingSenders, Thread
  <1>2. Inv /\ NoLostWakeup /\ [Next]_vars => NoLostWakeup'
    BY WakeupStep
  <1> QED
    BY <1>1, <1>2, InvHolds, PTL DEF Spec

-----------------------------------------------------------------------------
(***************************************************************************)
(* The pool: who is counted, and who has which place.                      *)
(***************************************************************************)
States == {"none", "starting", "serving", "reserved", "bound", "added", "rollback", "leaving", "gone"}

PoolType ==
  /\ worker \in [Worker -> [state : States, permanent : BOOLEAN, fd : Nat, conns : Int, ticks : Int, next : Nat]]
  /\ g_pool_count \in Int

GrownSet == {w \in Worker : Grown(w)}
GrowingSet == {w \in Worker : Growing(w)}

\* Workers whose reserved place is within the limit.
Placed == {w \in Worker : worker[w].state \in {"reserved", "bound", "added"}}

\* A thread that is being created has a listener, and one worker creates it.
LinksInv ==
  /\ \A w \in Worker :
       IF worker[w].state \in {"bound", "added"}
       THEN /\ worker[w].next \in Worker
            /\ worker[worker[w].next].state = "none" /\ worker[worker[w].next].fd # NoFd
       ELSE worker[w].next = NoFd
  /\ \A v, w \in Worker : worker[v].next = worker[w].next /\ worker[v].next # NoFd => v = w
  /\ \A n \in Worker : worker[n].state = "none" =>
       /\ ~ worker[n].permanent
       /\ worker[n].fd # NoFd => \E v \in Worker : worker[v].next = n

\* Before mux-listen! there is no worker; while it starts them its own waits.
StartInv ==
  /\ \A w \in Worker : /\ worker[w].permanent => worker[w].state \notin {"none", "leaving"}
                       /\ worker[w].state = "gone" => worker[w].permanent
  /\ Permanent = {} => \A w \in Worker : worker[w].state = "none"
  /\ server = "new" => Permanent = {}
  /\ server = "starting" => main \in Permanent /\ worker[main].state = "starting"

PlacesInv ==
  /\ Cardinality(Permanent) <= pool_min
  /\ CountExact
  /\ pool_min + Cardinality(GrownSet) + Cardinality(Placed) <= pool_max

BooksInv == PoolType /\ LinksInv /\ StartInv /\ PlacesInv

\* Descriptors: who has which listener.  Until mux-close! no worker keeps a number
\* that is closed; after it, a number is nobody else's as long as none is reused.
OwnInv ==
  /\ DOMAIN open \subseteq Fd /\ held \subseteq DOMAIN open
  /\ \A w \in Worker :
       /\ worker[w].fd # NoFd => worker[w].fd \in DOMAIN open \cup (IF server = "closed" THEN closed ELSE {})
       /\ worker[w].fd \in DOMAIN open => open[worker[w].fd] = w
       /\ worker[w].state # "none" => worker[w].fd # NoFd
       /\ server # "closed" /\ (worker[w].state \in {"starting", "serving"} \/ Growing(w)) => worker[w].fd \in held
       /\ server # "closed" /\ worker[w].state = "added" => worker[worker[w].next].fd \in held
       /\ worker[w].state = "bound" => worker[worker[w].next].fd \in DOMAIN open \ held
  /\ \A v, w \in Worker : worker[v].fd = worker[w].fd /\ worker[v].fd # NoFd => v = w
  /\ \A f \in DOMAIN open \ held :
       \E w \in Worker : worker[w].state = "bound" /\ worker[worker[w].next].fd = f
  /\ ~ misclosed

\* The moments at which descriptors are told apart by their numbers.
Distinct == server = "closed" => ~ FdsReused

(***************************************************************************)
(* Numbers that are given out, and sets that gain or lose one worker.      *)
(***************************************************************************)
LEMMA LeastNatural ==
  ASSUME NEW T, T \subseteq Nat, T # {}
  PROVE  Min(T) \in T
<1>1. IsWellFoundedOn({ss \in Nat \X Nat : ss[1] < ss[2]}, Nat)
  BY NatLessThanWellFounded DEF OpToRel
<1>2. PICK x \in T : \A y \in T : ~ (<<y, x>> \in {ss \in Nat \X Nat : ss[1] < ss[2]})
  BY <1>1, WFMin
<1>3. \A y \in T : x <= y
  <2> SUFFICES ASSUME NEW y \in T PROVE x <= y
    OBVIOUS
  <2>1. x \in Nat /\ y \in Nat /\ ~ (y < x)
    BY <1>2
  <2> QED BY <2>1
<1> QED BY <1>3 DEF Min

\* A thread to be created is not in use, nor being created by anybody.
LEMMA NewThreads ==
  ASSUME NEW n \in Worker, NewThread(n)
  PROVE  worker[n].state = "none" /\ \A v \in Worker : worker[v].next # n
<1>1. Free \subseteq Nat /\ Free # {} /\ n = Min(Free)
  BY ThreadAssumption DEF Free, NewThread
<1>2. n \in Free
  BY <1>1, LeastNatural
<1> QED BY <1>2 DEF Free

LEMMA NewFds ==
  ASSUME NEW f \in Fd, FreshFd(f)
  PROVE  f \notin DOMAIN open /\ (~ FdsReused => f \notin closed) /\ f # NoFd
<1> DEFINE unused == Fd \ (DOMAIN open \cup closed)
<1>1. FdsReused => f \notin DOMAIN open
  BY DEF FreshFd
<1>2. ~ FdsReused => unused # {} /\ f = Min(unused)
  BY DEF FreshFd
<1>3. unused \subseteq Nat
  BY ThreadAssumption
<1>4. ~ FdsReused => f \in unused
  BY <1>2, <1>3, LeastNatural
<1> QED BY <1>1, <1>4, ThreadAssumption DEF NoFd

LEMMA Tally ==
  ASSUME NEW S, NEW T, S \subseteq Worker, T \subseteq Worker, NEW w, S \ {w} = T \ {w}
  PROVE  /\ Cardinality(S) \in Nat /\ Cardinality(T) \in Nat
         /\ Cardinality(T) + (IF w \in S THEN 1 ELSE 0) = Cardinality(S) + (IF w \in T THEN 1 ELSE 0)
<1>1. IsFiniteSet(S) /\ IsFiniteSet(T)
  BY ThreadAssumption, FS_Subset
<1>2. Cardinality(S) \in Nat /\ Cardinality(T) \in Nat
  BY <1>1, FS_CardinalityType
<1>3. Cardinality(S \ {w}) = IF w \in S THEN Cardinality(S) - 1 ELSE Cardinality(S)
  BY <1>1, FS_RemoveElement
<1>4. Cardinality(T \ {w}) = IF w \in T THEN Cardinality(T) - 1 ELSE Cardinality(T)
  BY <1>1, FS_RemoveElement
<1> QED BY <1>2, <1>3, <1>4

\* The books add up after a step that changes the standing of one worker, w,
\* which grows the pool, and of one, n, which is in it.
LEMMA AddUp ==
  ASSUME PlacesInv, PoolType, Permanent # {}, Permanent' = Permanent,
         NEW w \in Worker, NEW n \in Worker,
         GrownSet' \ {n} = GrownSet \ {n},
         GrowingSet' \ {w} = GrowingSet \ {w},
         Placed' \ {w} = Placed \ {w},
         g_pool_count' = g_pool_count
           + (IF n \in GrownSet' THEN 1 ELSE 0) - (IF n \in GrownSet THEN 1 ELSE 0)
           + (IF w \in GrowingSet' THEN 1 ELSE 0) - (IF w \in GrowingSet THEN 1 ELSE 0),
         \/ (IF n \in GrownSet' THEN 1 ELSE 0) + (IF w \in Placed' THEN 1 ELSE 0)
              <= (IF n \in GrownSet THEN 1 ELSE 0) + (IF w \in Placed THEN 1 ELSE 0)
         \/ g_pool_count' <= pool_max
  PROVE  PlacesInv'
<1>1. /\ GrownSet \subseteq Worker /\ GrownSet' \subseteq Worker
      /\ GrowingSet \subseteq Worker /\ GrowingSet' \subseteq Worker
      /\ Placed \subseteq Worker /\ Placed' \subseteq Worker
  BY DEF GrownSet, GrowingSet, Placed
<1>2. /\ Cardinality(GrownSet) \in Nat /\ Cardinality(GrownSet') \in Nat
      /\ Cardinality(GrownSet') + (IF n \in GrownSet THEN 1 ELSE 0)
           = Cardinality(GrownSet) + (IF n \in GrownSet' THEN 1 ELSE 0)
  BY <1>1, Tally
<1>3. /\ Cardinality(GrowingSet) \in Nat /\ Cardinality(GrowingSet') \in Nat
      /\ Cardinality(GrowingSet') + (IF w \in GrowingSet THEN 1 ELSE 0)
           = Cardinality(GrowingSet) + (IF w \in GrowingSet' THEN 1 ELSE 0)
  BY <1>1, Tally
<1>4. /\ Cardinality(Placed) \in Nat /\ Cardinality(Placed') \in Nat
      /\ Cardinality(Placed') + (IF w \in Placed THEN 1 ELSE 0)
           = Cardinality(Placed) + (IF w \in Placed' THEN 1 ELSE 0)
  BY <1>1, Tally
<1>5. Cardinality(Placed') <= Cardinality(GrowingSet')
  <2>1. IsFiniteSet(GrowingSet')
    BY <1>1, ThreadAssumption, FS_Subset
  <2>2. Placed' \subseteq GrowingSet'
    BY DEF Placed, GrowingSet, Growing
  <2> QED BY <2>1, <2>2, FS_Subset
<1>6. /\ g_pool_count \in Int /\ pool_min \in Nat /\ pool_max \in Nat
      /\ g_pool_count = pool_min + Cardinality(GrownSet) + Cardinality(GrowingSet)
      /\ pool_min + Cardinality(GrownSet) + Cardinality(Placed) <= pool_max
  BY PoolAssumption DEF PlacesInv, PoolType, CountExact, GrownSet, GrowingSet
<1> HIDE DEF GrownSet, GrowingSet, Placed
<1>7. g_pool_count' = pool_min + Cardinality(GrownSet') + Cardinality(GrowingSet')
  BY <1>2, <1>3, <1>6
<1>8. pool_min + Cardinality(GrownSet') + Cardinality(Placed') <= pool_max
  <2>1. CASE g_pool_count' <= pool_max
    BY <1>2, <1>3, <1>4, <1>5, <1>6, <1>7, <2>1
  <2>2. CASE (IF n \in GrownSet' THEN 1 ELSE 0) + (IF w \in Placed' THEN 1 ELSE 0)
              <= (IF n \in GrownSet THEN 1 ELSE 0) + (IF w \in Placed THEN 1 ELSE 0)
    BY <1>2, <1>4, <1>6, <2>2
  <2> QED BY <2>1, <2>2
<1> QED BY <1>7, <1>8 DEF PlacesInv, CountExact, GrownSet, GrowingSet

(***************************************************************************)
(* The steps of the pool, as the books see them.                           *)
(***************************************************************************)
\* A worker goes from one state to another and stays who it is.
Moves(w, s) ==
  /\ worker'[w].state = s
  /\ \A v \in Worker : /\ worker'[v].permanent = worker[v].permanent
                       /\ worker'[v].fd = worker[v].fd /\ worker'[v].next = worker[v].next
  /\ \A v \in Worker \ {w} : worker'[v].state = worker[v].state

\* Nobody being created is touched by a worker that does not create it.
LEMMA MoveKeeps ==
  ASSUME BooksInv, PoolType', UNCHANGED <<server, main>>,
         NEW w \in Worker, NEW s \in States, Moves(w, s),
         worker[w].state \notin {"none", "starting"}, s \notin {"none", "starting"},
         worker[w].state \in {"bound", "added"} <=> s \in {"bound", "added"},
         worker[w].permanent => s # "leaving", s = "gone" => worker[w].permanent,
         g_pool_count' = g_pool_count
           + (IF w \in GrownSet' THEN 1 ELSE 0) - (IF w \in GrownSet THEN 1 ELSE 0)
           + (IF w \in GrowingSet' THEN 1 ELSE 0) - (IF w \in GrowingSet THEN 1 ELSE 0),
         \/ (IF w \in GrownSet' THEN 1 ELSE 0) + (IF w \in Placed' THEN 1 ELSE 0)
              <= (IF w \in GrownSet THEN 1 ELSE 0) + (IF w \in Placed THEN 1 ELSE 0)
         \/ g_pool_count' <= pool_max
  PROVE  BooksInv'
<1>1. LinksInv'
  <2>1. \A v \in Worker : /\ worker'[v].state \in {"bound", "added"} <=> worker[v].state \in {"bound", "added"}
                          /\ worker'[v].state = "none" <=> worker[v].state = "none"
    BY DEF Moves
  <2> QED BY <2>1 DEF BooksInv, LinksInv, Moves
<1>2. Permanent' = Permanent
  BY DEF Permanent, Moves
<1>3. Permanent # {}
  BY DEF BooksInv, StartInv
<1>4. StartInv'
  BY <1>2, <1>3 DEF BooksInv, StartInv, Moves, Permanent
<1>5. GrownSet' \ {w} = GrownSet \ {w}
  BY DEF GrownSet, Grown, Moves
<1>6. GrowingSet' \ {w} = GrowingSet \ {w}
  BY DEF GrowingSet, Growing, Moves
<1>7. Placed' \ {w} = Placed \ {w}
  BY DEF Placed, Moves
<1>8. PlacesInv'
  BY <1>2, <1>3, <1>5, <1>6, <1>7, AddUp DEF BooksInv
<1> QED BY <1>1, <1>4, <1>8 DEF BooksInv

\* Connections, ticks and descriptors are not in these books.
LEMMA SameBooks ==
  ASSUME BooksInv, PoolType', UNCHANGED <<g_pool_count, main>>, server' \in {server, "failed", "closed"},
         \A v \in Worker : /\ worker'[v].permanent = worker[v].permanent
                           /\ worker'[v].fd = worker[v].fd /\ worker'[v].next = worker[v].next
                           /\ worker'[v].state = worker[v].state
  PROVE  BooksInv'
<1>1. LinksInv'
  BY DEF BooksInv, LinksInv
<1>2. Permanent' = Permanent
  BY DEF Permanent
<1>3. StartInv'
  BY <1>2 DEF BooksInv, StartInv, Permanent
<1>4. {w \in Worker : Grown(w)}' = {w \in Worker : Grown(w)} /\ {w \in Worker : Growing(w)}' = {w \in Worker : Growing(w)} /\ Placed' = Placed
  BY DEF Grown, Growing, Placed
<1>5. PlacesInv'
  BY <1>2, <1>4 DEF BooksInv, PlacesInv, CountExact, GrownSet
<1> QED BY <1>1, <1>3, <1>5 DEF BooksInv

LEMMA ListenKeeps ==
  ASSUME BooksInv, NEW w \in Worker, NEW f \in Fd, bi_mux_listen(w, f)
  PROVE  BooksInv'
<1>1. /\ server = "new" /\ server' = "starting" /\ main' = w /\ g_pool_count' = pool_min
      /\ worker' = [worker EXCEPT ![w] =
           [state |-> "starting", permanent |-> TRUE, fd |-> f, conns |-> 0, ticks |-> 0, next |-> NoFd]]
  <2>1. [Serving(f, TRUE) EXCEPT !.state = "starting"]
          = [state |-> "starting", permanent |-> TRUE, fd |-> f, conns |-> 0, ticks |-> 0, next |-> NoFd]
    <3>1. f \in Nat /\ NoFd \in Nat
      BY ThreadAssumption DEF NoFd
    <3> HIDE DEF NoFd
    <3>2. PICK r : r = [state |-> "serving", permanent |-> TRUE, fd |-> f, conns |-> 0, ticks |-> 0, next |-> NoFd]
      OBVIOUS
    <3>3. r \in [state : States, permanent : BOOLEAN, fd : Nat, conns : Nat, ticks : Nat, next : Nat]
      BY <3>1, <3>2 DEF States
    <3>4. PICK q : q = [r EXCEPT !.state = "starting"]
      OBVIOUS
    <3>5. q \in [state : States, permanent : BOOLEAN, fd : Nat, conns : Nat, ticks : Nat, next : Nat]
      BY <3>3, <3>4 DEF States
    <3>6. /\ q.state = "starting" /\ q.permanent = TRUE /\ q.fd = f
          /\ q.conns = 0 /\ q.ticks = 0 /\ q.next = NoFd
      BY <3>2, <3>3, <3>4
    <3>7. q = [state |-> "starting", permanent |-> TRUE, fd |-> f, conns |-> 0, ticks |-> 0, next |-> NoFd]
      BY <3>5, <3>6
    <3> QED BY <3>2, <3>4, <3>7 DEF Serving
  <2> HIDE DEF NoFd
  <2> QED BY <2>1 DEF bi_mux_listen
<1>2. \A v \in Worker : /\ worker[v].state = "none" /\ ~ worker[v].permanent
                        /\ worker[v].next = NoFd /\ worker[v].fd = NoFd
  <2>1. \A v \in Worker : worker[v].state = "none"
    BY <1>1 DEF BooksInv, StartInv
  <2>2. \A v \in Worker : worker[v].next = NoFd
    BY <2>1 DEF BooksInv, LinksInv
  <2>3. \A v \in Worker : v # NoFd
    BY ThreadAssumption DEF NoFd
  <2> QED BY <2>1, <2>2, <2>3 DEF BooksInv, LinksInv
<1>3. PoolType'
  <2>1. f \in Nat /\ NoFd \in Nat /\ pool_min \in Int
    BY ThreadAssumption, PoolAssumption DEF NoFd
  <2> QED BY <1>1, <2>1 DEF BooksInv, PoolType, States
<1>4. /\ worker'[w] = [state |-> "starting", permanent |-> TRUE, fd |-> f, conns |-> 0, ticks |-> 0, next |-> NoFd]
      /\ \A v \in Worker \ {w} : worker'[v] = worker[v]
  BY <1>1 DEF BooksInv, PoolType
<1>5. LinksInv'
  BY <1>2, <1>4 DEF LinksInv
<1>6. Permanent' = {w}
  BY <1>2, <1>4 DEF Permanent
<1>7. StartInv'
  <2>1. w \in Permanent' /\ Permanent' # {}
    BY <1>6
  <2>2. \A v \in Worker : /\ worker'[v].permanent => worker'[v].state \notin {"none", "leaving"}
                          /\ worker'[v].state = "gone" => worker'[v].permanent
    BY <1>2, <1>4
  <2> QED BY <1>1, <1>4, <2>1, <2>2 DEF StartInv
<1>8. GrownSet' = {} /\ GrowingSet' = {} /\ Placed' = {}
  BY <1>2, <1>4 DEF GrownSet, GrowingSet, Placed, Grown, Growing
<1>9. PlacesInv'
  <2>1. Cardinality(Permanent') = 1
    BY <1>6, FS_Singleton
  <2>2. Cardinality({}) = 0
    BY FS_EmptySet
  <2> QED BY <1>1, <1>8, <2>1, <2>2, PoolAssumption DEF PlacesInv, CountExact, GrownSet, GrowingSet
<1> QED BY <1>3, <1>5, <1>7, <1>9 DEF BooksInv

LEMMA StartPermanentKeeps ==
  ASSUME BooksInv, NEW w \in Worker, NEW f \in Fd, StartPermanent(w, f)
  PROVE  BooksInv'
<1>1. /\ server = "starting" /\ UNCHANGED <<server, main, g_pool_count>>
      /\ Cardinality(Permanent) < pool_min
      /\ worker' = [worker EXCEPT ![w] =
           [state |-> "serving", permanent |-> TRUE, fd |-> f, conns |-> 0, ticks |-> 0, next |-> NoFd]]
  BY DEF StartPermanent, Serving
<1>2. worker[w].state = "none" /\ ~ worker[w].permanent /\ \A v \in Worker : worker[v].next # w
  BY NewThreads DEF StartPermanent, BooksInv, LinksInv
<1>3. PoolType'
  <2>1. f \in Nat /\ NoFd \in Nat
    BY ThreadAssumption DEF NoFd
  <2> QED BY <1>1, <2>1 DEF BooksInv, PoolType, States
<1>4. /\ worker'[w] = [state |-> "serving", permanent |-> TRUE, fd |-> f, conns |-> 0, ticks |-> 0, next |-> NoFd]
      /\ \A v \in Worker \ {w} : worker'[v] = worker[v]
  BY <1>1 DEF BooksInv, PoolType
<1>5. LinksInv'
  <2>1. LinksInv /\ worker[w].next = NoFd
    BY <1>2 DEF BooksInv, LinksInv
  <2>2. \A v \in Worker : worker'[v].next = worker[v].next
    BY <1>4, <2>1
  <2>3. \A v \in Worker \ {w} : worker[v].next \in Worker => worker[v].next \in Worker \ {w}
    BY <1>2
  <2> QED BY <1>2, <1>4, <2>1, <2>2, <2>3 DEF LinksInv
<1>6. Permanent' = Permanent \cup {w} /\ w \notin Permanent
  BY <1>2, <1>4 DEF Permanent
<1>7. StartInv'
  <2>1. main \in Permanent /\ worker[main].state = "starting"
    BY <1>1 DEF BooksInv, StartInv
  <2>2. main \in Worker \ {w}
    BY <1>2, <2>1 DEF Permanent
  <2>3. \A v \in Worker : /\ worker'[v].permanent => worker'[v].state \notin {"none", "leaving"}
                          /\ worker'[v].state = "gone" => worker'[v].permanent
    BY <1>4 DEF BooksInv, StartInv
  <2> QED BY <1>1, <1>4, <1>6, <2>1, <2>2, <2>3 DEF StartInv
<1>8. GrownSet' = GrownSet /\ GrowingSet' = GrowingSet /\ Placed' = Placed
  BY <1>2, <1>4 DEF GrownSet, GrowingSet, Placed, Grown, Growing
<1>9. PlacesInv'
  <2>1. IsFiniteSet(Permanent)
    BY ThreadAssumption, FS_Subset DEF Permanent
  <2>2. Cardinality(Permanent') = Cardinality(Permanent) + 1 /\ Cardinality(Permanent) \in Nat
    BY <1>6, <2>1, FS_AddElement, FS_CardinalityType
  <2>3. Permanent # {}
    BY <1>1 DEF BooksInv, StartInv
  <2> QED BY <1>1, <1>8, <2>2, <2>3, PoolAssumption DEF BooksInv, PlacesInv, CountExact, GrownSet, GrowingSet
<1> QED BY <1>3, <1>5, <1>7, <1>9 DEF BooksInv

LEMMA StartMainKeeps ==
  ASSUME BooksInv, StartMain
  PROVE  BooksInv'
<1>1. /\ server = "starting" /\ server' = "listening" /\ UNCHANGED <<main, g_pool_count>>
      /\ worker' = [worker EXCEPT ![main].state = "serving"]
  BY DEF StartMain
<1>2. main \in Worker /\ worker[main].permanent /\ worker[main].state = "starting"
  BY <1>1 DEF BooksInv, StartInv, Permanent
<1>3. PoolType'
  BY <1>1 DEF BooksInv, PoolType, States
<1>4. Moves(main, "serving")
  BY <1>1, <1>2 DEF Moves, BooksInv, PoolType
<1>5. LinksInv'
  BY <1>2, <1>4 DEF BooksInv, LinksInv, Moves
<1>6. Permanent' = Permanent
  BY <1>4 DEF Permanent, Moves
<1>7. StartInv'
  BY <1>1, <1>2, <1>4, <1>6 DEF BooksInv, StartInv, Permanent, Moves
<1>8. GrownSet' = GrownSet /\ GrowingSet' = GrowingSet /\ Placed' = Placed
  BY <1>2, <1>4 DEF GrownSet, GrowingSet, Placed, Grown, Growing, Moves
<1>9. PlacesInv'
  BY <1>1, <1>6, <1>8 DEF BooksInv, PlacesInv, CountExact, GrownSet, GrowingSet
<1> QED BY <1>3, <1>5, <1>7, <1>9 DEF BooksInv

\* The steps of one worker, its listeners aside.
LEMMA WorkerKeeps ==
  ASSUME BooksInv, NEW w \in Worker,
         Rollback(w) \/ BindFails(w) \/ AddListener(w) \/ Turn(w) \/ PollFails(w) \/ Accept(w) \/ Disconnect(w)
  PROVE  BooksInv'
<1>0. PoolType /\ worker[w] \in [state : States, permanent : BOOLEAN, fd : Nat, conns : Int, ticks : Int, next : Nat]
  BY DEF BooksInv, PoolType
<1> DEFINE In(s) == IF s \notin {"none", "leaving", "gone"} /\ ~ worker[w].permanent THEN 1 ELSE 0
           Up(s) == IF s \in {"reserved", "bound", "added", "rollback"} THEN 1 ELSE 0
           At(s) == IF s \in {"reserved", "bound", "added"} THEN 1 ELSE 0
<1>1. ASSUME NEW s \in States, NEW t \in Int,
             worker' = [worker EXCEPT ![w] = [@ EXCEPT !.state = s, !.ticks = t]],
             UNCHANGED <<server, main>>,
             worker[w].state \notin {"none", "starting"}, s \notin {"none", "starting"},
             worker[w].state \in {"bound", "added"} <=> s \in {"bound", "added"},
             worker[w].permanent => s # "leaving", s = "gone" => worker[w].permanent,
             g_pool_count' = g_pool_count + In(s) - In(worker[w].state) + Up(s) - Up(worker[w].state),
             In(s) + At(s) <= In(worker[w].state) + At(worker[w].state) \/ g_pool_count' <= pool_max
      PROVE  BooksInv'
  <2>1. Moves(w, s)
    BY <1>0, <1>1 DEF Moves, PoolType
  <2>2. PoolType'
    <3>1. \A r \in States : In(r) \in Int /\ Up(r) \in Int
      OBVIOUS
    <3> HIDE DEF In, Up, At
    <3>2. g_pool_count' \in Int
      BY <1>0, <1>1, <3>1 DEF PoolType
    <3>3. worker' \in [Worker -> [state : States, permanent : BOOLEAN, fd : Nat, conns : Int, ticks : Int, next : Nat]]
      BY <1>0, <1>1 DEF PoolType
    <3> QED BY <3>2, <3>3 DEF PoolType
  <2>3. /\ (IF w \in GrownSet THEN 1 ELSE 0) = In(worker[w].state)
        /\ (IF w \in GrownSet' THEN 1 ELSE 0) = In(s)
        /\ (IF w \in GrowingSet THEN 1 ELSE 0) = Up(worker[w].state)
        /\ (IF w \in GrowingSet' THEN 1 ELSE 0) = Up(s)
        /\ (IF w \in Placed THEN 1 ELSE 0) = At(worker[w].state)
        /\ (IF w \in Placed' THEN 1 ELSE 0) = At(s)
    <3>1. /\ w \in GrownSet <=> worker[w].state \notin {"none", "leaving", "gone"} /\ ~ worker[w].permanent
          /\ w \in GrowingSet <=> worker[w].state \in {"reserved", "bound", "added", "rollback"}
          /\ w \in Placed <=> worker[w].state \in {"reserved", "bound", "added"}
      BY DEF GrownSet, GrowingSet, Placed, Grown, Growing
    <3>2. /\ w \in GrownSet' <=> s \notin {"none", "leaving", "gone"} /\ ~ worker[w].permanent
          /\ w \in GrowingSet' <=> s \in {"reserved", "bound", "added", "rollback"}
          /\ w \in Placed' <=> s \in {"reserved", "bound", "added"}
      BY <2>1 DEF Moves, GrownSet, GrowingSet, Placed, Grown, Growing
    <3> QED BY <3>1, <3>2
  <2> HIDE DEF In, Up, At
  <2> QED BY <1>1, <2>1, <2>2, <2>3, MoveKeeps
<1>a. /\ In("serving") = IF worker[w].permanent THEN 0 ELSE 1
      /\ \A s \in {"reserved", "bound", "added", "rollback"} : In(s) = In("serving") /\ Up(s) = 1
      /\ \A s \in {"reserved", "bound", "added"} : At(s) = 1
      /\ At("serving") = 0 /\ At("rollback") = 0 /\ At("leaving") = 0 /\ At("gone") = 0
      /\ Up("serving") = 0 /\ Up("leaving") = 0 /\ Up("gone") = 0
      /\ In("leaving") = 0 /\ In("gone") = 0
  OBVIOUS
<1> DEFINE Change(s, t) == worker' = [worker EXCEPT ![w] = [@ EXCEPT !.state = s, !.ticks = t]]
<1>b. ASSUME NEW s \in States, NEW t \in Int, Change(s, t), UNCHANGED <<server, main>>,
             worker[w].state \notin {"none", "starting"}, s \notin {"none", "starting"},
             worker[w].state \in {"bound", "added"} <=> s \in {"bound", "added"},
             worker[w].permanent => s # "leaving", s = "gone" => worker[w].permanent,
             g_pool_count' = g_pool_count + In(s) - In(worker[w].state) + Up(s) - Up(worker[w].state),
             In(s) + At(s) <= In(worker[w].state) + At(worker[w].state) \/ g_pool_count' <= pool_max
      PROVE  BooksInv'
  BY <1>1, <1>b
<1> HIDE DEF In, Up, At, Change
<1>2. ASSUME worker[w].state = "serving", Reserve(w), UNCHANGED <<server, main>> PROVE BooksInv'
  <2> DEFINE s == IF g_pool_count + 1 > pool_max THEN "rollback" ELSE "reserved"
  <2>1. Change(s, 0) /\ g_pool_count' = g_pool_count + 1
    BY <1>0, <1>2 DEF Reserve, PoolType, Change
  <2>2. s \in States /\ s \in {"rollback", "reserved"} /\ (s = "reserved" => g_pool_count + 1 <= pool_max)
    BY <1>0, PoolAssumption DEF States, PoolType
  <2> HIDE DEF s
  <2> QED BY <1>0, <1>a, <1>b, <1>2, <2>1, <2>2 DEF PoolType
<1>3. CASE Rollback(w)
  <2>1. /\ worker[w].state = "rollback" /\ g_pool_count' = g_pool_count - 1 /\ UNCHANGED <<server, main>>
        /\ Change("serving", worker[w].ticks)
    BY <1>0, <1>3 DEF Rollback, Step, PoolType, Change
  <2>2. "serving" \in States /\ worker[w].ticks \in Int
    BY <1>0 DEF States
  <2> QED BY <1>0, <1>a, <1>b, <2>1, <2>2 DEF PoolType
<1>4. CASE BindFails(w)
  <2>1. /\ worker[w].state = "reserved" /\ g_pool_count' = g_pool_count /\ UNCHANGED <<server, main>>
        /\ Change("rollback", worker[w].ticks)
    BY <1>0, <1>4 DEF BindFails, Step, PoolType, Change
  <2>2. "rollback" \in States /\ worker[w].ticks \in Int
    BY <1>0 DEF States
  <2> QED BY <1>0, <1>a, <1>b, <2>1, <2>2 DEF PoolType
<1>5. CASE AddListener(w)
  <2>1. /\ worker[w].state = "bound" /\ g_pool_count' = g_pool_count /\ UNCHANGED <<server, main>>
        /\ Change("added", worker[w].ticks)
    BY <1>0, <1>5 DEF AddListener, Step, PoolType, Change
  <2>2. "added" \in States /\ worker[w].ticks \in Int
    BY <1>0 DEF States
  <2> QED BY <1>0, <1>a, <1>b, <2>1, <2>2 DEF PoolType
<1>6. CASE PollFails(w)
  <2> DEFINE s == IF worker[w].permanent THEN "gone" ELSE "leaving"
  <2>1. /\ worker[w].state = "serving" /\ UNCHANGED <<server, main>>
        /\ g_pool_count' = IF worker[w].permanent THEN g_pool_count ELSE g_pool_count - 1
        /\ Change(s, worker[w].ticks)
    BY <1>0, <1>6 DEF PollFails, Step, PoolType, Change
  <2>2. s \in States /\ worker[w].ticks \in Int /\ s = (IF worker[w].permanent THEN "gone" ELSE "leaving")
    BY <1>0 DEF States
  <2> HIDE DEF s
  <2> QED BY <1>0, <1>a, <1>b, <2>1, <2>2 DEF PoolType
<1>7. ASSUME worker[w].state = "serving", ~ worker[w].permanent, g_pool_count' = g_pool_count - 1,
             worker' = [worker EXCEPT ![w].state = "leaving"], UNCHANGED <<server, main>>
      PROVE  BooksInv'
  <2>1. Change("leaving", worker[w].ticks)
    BY <1>0, <1>7 DEF PoolType, Change
  <2>2. "leaving" \in States /\ worker[w].ticks \in Int
    BY <1>0 DEF States
  <2> QED BY <1>0, <1>a, <1>b, <1>7, <2>1, <2>2 DEF PoolType
<1>8. ASSUME NEW c \in Int, NEW t \in Int, worker' = [worker EXCEPT ![w] = [@ EXCEPT !.conns = c, !.ticks = t]],
             UNCHANGED <<g_pool_count, server, main>>
      PROVE  BooksInv'
  <2>1. PoolType'
    BY <1>0, <1>8 DEF PoolType
  <2>2. \A v \in Worker : /\ worker'[v].permanent = worker[v].permanent
                          /\ worker'[v].fd = worker[v].fd /\ worker'[v].next = worker[v].next
                          /\ worker'[v].state = worker[v].state
    BY <1>0, <1>8 DEF PoolType
  <2> QED BY <1>8, <2>1, <2>2, SameBooks
<1>9. CASE Turn(w)
  <2>1. \/ /\ worker[w].state = "serving" /\ Reserve(w)
        \/ /\ worker[w].state = "serving" /\ ~ worker[w].permanent /\ g_pool_count' = g_pool_count - 1
           /\ worker' = [worker EXCEPT ![w].state = "leaving"]
        \/ \E t \in Int : worker' = [worker EXCEPT ![w].ticks = t] /\ g_pool_count' = g_pool_count
    BY <1>0, <1>9 DEF Turn
  <2>2. UNCHANGED <<server, main>>
    BY <1>9 DEF Turn
  <2>3. ASSUME NEW t \in Int, worker' = [worker EXCEPT ![w].ticks = t], g_pool_count' = g_pool_count
        PROVE  BooksInv'
    <3>1. worker' = [worker EXCEPT ![w] = [@ EXCEPT !.conns = worker[w].conns, !.ticks = t]] /\ worker[w].conns \in Int
      BY <1>0, <2>3 DEF PoolType
    <3> QED BY <1>8, <2>2, <2>3, <3>1
  <2> QED BY <1>2, <1>7, <2>1, <2>2, <2>3
<1>10. CASE Accept(w) \/ Disconnect(w)
  <2>1. \/ worker' = [worker EXCEPT ![w] = [@ EXCEPT !.conns = worker[w].conns + 1, !.ticks = worker[w].ticks]]
        \/ worker' = [worker EXCEPT ![w] = [@ EXCEPT !.conns = worker[w].conns - 1, !.ticks = worker[w].ticks]]
    BY <1>0, <1>10 DEF Accept, Disconnect, PoolType
  <2>2. UNCHANGED <<g_pool_count, server, main>> /\ worker[w].ticks \in Int
    BY <1>0, <1>10 DEF Accept, Disconnect
  <2>3. worker[w].conns + 1 \in Int /\ worker[w].conns - 1 \in Int
    BY <1>0
  <2> QED BY <1>8, <2>1, <2>2, <2>3
<1> QED BY <1>3, <1>4, <1>5, <1>6, <1>9, <1>10

\* The steps of a worker that creates another, and of one that leaves.
LEMMA BindKeeps ==
  ASSUME BooksInv, NEW w \in Worker, NEW n \in Worker, NEW f \in Fd, bind_listener(w, n, f)
  PROVE  BooksInv'
<1>1. /\ worker[w].state = "reserved" /\ UNCHANGED <<server, main, g_pool_count>>
      /\ worker' = [worker EXCEPT ![w].state = "bound", ![w].next = n, ![n].fd = f]
  BY DEF bind_listener
<1>2. worker[n].state = "none" /\ \A v \in Worker : worker[v].next # n
  BY NewThreads DEF bind_listener
<1>3. f # NoFd /\ f \in Nat /\ n # NoFd /\ n \in Nat /\ n # w
  BY <1>1, <1>2, ThreadAssumption DEF NoFd
<1>4. PoolType'
  BY SMTT(60), <1>1, <1>3 DEF BooksInv, PoolType, States
<1>5. /\ worker'[w].state = "bound" /\ worker'[w].next = n
      /\ worker'[w].permanent = worker[w].permanent /\ worker'[w].fd = worker[w].fd
      /\ worker'[n].fd = f /\ worker'[n].state = worker[n].state
      /\ worker'[n].permanent = worker[n].permanent /\ worker'[n].next = worker[n].next
      /\ \A v \in Worker \ {w, n} : worker'[v] = worker[v]
  BY <1>1, <1>3 DEF BooksInv, PoolType
<1>6. LinksInv'
  <2>1. LinksInv
    BY DEF BooksInv
  <2>2. \A v \in Worker : worker'[v].state = "none" <=> worker[v].state = "none"
    BY <1>1, <1>5
  <2>3. \A v \in Worker : v # w => worker'[v].next = worker[v].next /\ worker'[v].state = worker[v].state
    BY <1>5
  <2>4. \A v \in Worker : v # n => worker'[v].fd = worker[v].fd
    BY <1>5
  <2>5. \A v \in Worker : worker'[v].permanent = worker[v].permanent
    BY <1>5
  <2>6. \A v \in Worker :
          IF worker'[v].state \in {"bound", "added"}
          THEN /\ worker'[v].next \in Worker
               /\ worker'[worker'[v].next].state = "none" /\ worker'[worker'[v].next].fd # NoFd
          ELSE worker'[v].next = NoFd
    <3> SUFFICES ASSUME NEW v \in Worker
                 PROVE  IF worker'[v].state \in {"bound", "added"}
                        THEN /\ worker'[v].next \in Worker
                             /\ worker'[worker'[v].next].state = "none" /\ worker'[worker'[v].next].fd # NoFd
                        ELSE worker'[v].next = NoFd
      OBVIOUS
    <3>1. CASE v = w
      BY <1>2, <1>3, <1>5, <3>1
    <3>2. CASE v # w
      BY <1>2, <2>1, <2>2, <2>3, <2>4, <3>2 DEF LinksInv
    <3> QED BY <3>1, <3>2
  <2>7. \A u, v \in Worker : worker'[u].next = worker'[v].next /\ worker'[u].next # NoFd => u = v
    BY <1>2, <1>5, <2>1, <2>3 DEF LinksInv
  <2>8. \A m \in Worker : worker'[m].state = "none" =>
          /\ ~ worker'[m].permanent
          /\ worker'[m].fd # NoFd => \E v \in Worker : worker'[v].next = m
    <3> SUFFICES ASSUME NEW m \in Worker, worker'[m].state = "none"
                 PROVE  /\ ~ worker'[m].permanent
                        /\ worker'[m].fd # NoFd => \E v \in Worker : worker'[v].next = m
      OBVIOUS
    <3>1. CASE m = n
      BY <1>2, <1>5, <2>1, <3>1 DEF LinksInv
    <3>2. CASE m # n
      <4>1. worker[m].state = "none" /\ worker'[m].permanent = worker[m].permanent /\ worker'[m].fd = worker[m].fd
        BY <2>2, <2>4, <2>5, <3>2
      <4>2. ASSUME NEW v \in Worker, worker[v].next = m PROVE worker'[v].next = m
        <5>1. v # w
          BY <1>1, <2>1, <4>2, ThreadAssumption DEF LinksInv, NoFd
        <5> QED BY <2>3, <4>2, <5>1
      <4> QED BY <2>1, <4>1, <4>2 DEF LinksInv
    <3> QED BY <3>1, <3>2
  <2> QED BY <2>6, <2>7, <2>8 DEF LinksInv
<1>7. Permanent' = Permanent
  BY <1>5 DEF Permanent
<1>8. StartInv'
  <2>1. \A v \in Worker : v # w => worker'[v].state = worker[v].state
    BY <1>5
  <2>2. Permanent # {} /\ (worker[w].permanent <=> worker'[w].permanent)
    BY <1>1, <1>5 DEF BooksInv, StartInv
  <2> QED BY ZenonT(60), <1>1, <1>5, <1>7, <2>1, <2>2 DEF BooksInv, StartInv, Permanent
<1>9. GrownSet' = GrownSet /\ GrowingSet' = GrowingSet /\ Placed' = Placed
  BY ZenonT(60), <1>1, <1>5 DEF GrownSet, GrowingSet, Placed, Grown, Growing
<1>10. PlacesInv'
  BY <1>1, <1>7, <1>9 DEF BooksInv, PlacesInv, CountExact, GrownSet, GrowingSet
<1> QED BY <1>4, <1>6, <1>8, <1>10 DEF BooksInv

\* A worker that has created another, or failed to: w is no longer linked to n.
LEMMA UnlinkKeeps ==
  ASSUME BooksInv, PoolType', UNCHANGED <<server, main, g_pool_count>>,
         NEW w \in Worker, worker[w].state = "added", NEW n, n = worker[w].next,
         worker'[w].next = NoFd, worker'[w].permanent = worker[w].permanent, ~ worker'[n].permanent,
         worker'[w].fd = worker[w].fd,
         \/ worker'[w].state = "serving" /\ worker'[n].state = "serving"
         \/ worker'[w].state = "rollback" /\ worker'[n].state = "none" /\ worker'[n].fd = NoFd,
         worker'[n].next = NoFd,
         \A v \in Worker \ {w, n} : worker'[v] = worker[v]
  PROVE  BooksInv'
<1>1. /\ n \in Worker /\ worker[n].state = "none" /\ n # w /\ n # NoFd
      /\ \A v \in Worker \ {w} : worker[v].next # n
      /\ ~ worker[n].permanent /\ worker[n].next = NoFd
  BY ThreadAssumption DEF BooksInv, LinksInv, NoFd
<1>2. LinksInv'
  <2>1. LinksInv
    BY DEF BooksInv
  <2>2. \A v \in Worker \ {w, n} : worker[v].next # w /\ worker[v].next # n
    BY <1>1, <2>1, ThreadAssumption DEF LinksInv, NoFd
  <2>3. \A v \in Worker :
          IF worker'[v].state \in {"bound", "added"}
          THEN /\ worker'[v].next \in Worker
               /\ worker'[worker'[v].next].state = "none" /\ worker'[worker'[v].next].fd # NoFd
          ELSE worker'[v].next = NoFd
    <3> SUFFICES ASSUME NEW v \in Worker
                 PROVE  IF worker'[v].state \in {"bound", "added"}
                        THEN /\ worker'[v].next \in Worker
                             /\ worker'[worker'[v].next].state = "none" /\ worker'[worker'[v].next].fd # NoFd
                        ELSE worker'[v].next = NoFd
      OBVIOUS
    <3>1. CASE v = w
      BY <3>1
    <3>2. CASE v = n
      BY <3>2
    <3>3. CASE v \notin {w, n}
      BY <2>1, <2>2, <3>3 DEF LinksInv
    <3> QED BY <3>1, <3>2, <3>3
  <2>4. \A u, v \in Worker : worker'[u].next = worker'[v].next /\ worker'[u].next # NoFd => u = v
    BY <2>1 DEF LinksInv
  <2>5. \A m \in Worker : worker'[m].state = "none" =>
          /\ ~ worker'[m].permanent
          /\ worker'[m].fd # NoFd => \E v \in Worker : worker'[v].next = m
    <3> SUFFICES ASSUME NEW m \in Worker, worker'[m].state = "none"
                 PROVE  /\ ~ worker'[m].permanent
                        /\ worker'[m].fd # NoFd => \E v \in Worker : worker'[v].next = m
      OBVIOUS
    <3>1. CASE m = n
      BY <3>1
    <3>2. CASE m # n
      <4>1. m # w /\ worker'[m] = worker[m]
        BY <3>2
      <4>2. ASSUME NEW v \in Worker, worker[v].next = m PROVE worker'[v].next = m
        <5>1. v # w
          BY <3>2, <4>2
        <5>2. v # n
          BY <1>1, <4>2, ThreadAssumption DEF NoFd
        <5> QED BY <4>2, <5>1, <5>2
      <4> QED BY <2>1, <4>1, <4>2 DEF LinksInv
    <3> QED BY <3>1, <3>2
  <2> QED BY <2>3, <2>4, <2>5 DEF LinksInv
<1>3. Permanent' = Permanent
  BY <1>1 DEF Permanent
<1>4. Permanent # {}
  BY DEF BooksInv, StartInv
<1>5. StartInv'
  <2>1. \A v \in Worker : worker[v].state \notin {"added", "none"} => worker'[v] = worker[v]
    BY <1>1
  <2>2. server = "starting" => main \in Permanent /\ worker'[main].state = "starting"
    BY <2>1 DEF BooksInv, StartInv, Permanent
  <2>3. \A v \in Worker : /\ worker'[v].permanent => worker'[v].state \notin {"none", "leaving"}
                          /\ worker'[v].state = "gone" => worker'[v].permanent
    BY <1>1 DEF BooksInv, StartInv
  <2> QED BY <1>3, <1>4, <2>2, <2>3 DEF BooksInv, StartInv
<1>6. GrownSet' \ {n} = GrownSet \ {n}
  BY <1>1 DEF GrownSet, Grown
<1>7. GrowingSet' \ {w} = GrowingSet \ {w} /\ Placed' \ {w} = Placed \ {w}
  BY <1>1 DEF GrowingSet, Growing, Placed
<1>8. /\ n \notin GrownSet /\ w \in GrowingSet /\ w \in Placed /\ w \notin Placed'
      /\ \/ n \in GrownSet' /\ w \notin GrowingSet'
         \/ n \notin GrownSet' /\ w \in GrowingSet'
  BY <1>1 DEF GrownSet, GrowingSet, Placed, Grown, Growing
<1>9. PlacesInv'
  <2>1. g_pool_count \in Int
    BY DEF BooksInv, PoolType
  <2>2. g_pool_count' = g_pool_count
           + (IF n \in GrownSet' THEN 1 ELSE 0) - (IF n \in GrownSet THEN 1 ELSE 0)
           + (IF w \in GrowingSet' THEN 1 ELSE 0) - (IF w \in GrowingSet THEN 1 ELSE 0)
    BY <1>8, <2>1
  <2>3. (IF n \in GrownSet' THEN 1 ELSE 0) + (IF w \in Placed' THEN 1 ELSE 0)
              <= (IF n \in GrownSet THEN 1 ELSE 0) + (IF w \in Placed THEN 1 ELSE 0)
    BY <1>8
  <2> QED BY <1>1, <1>3, <1>4, <1>6, <1>7, <2>2, <2>3, AddUp DEF BooksInv
<1> QED BY <1>2, <1>5, <1>9 DEF BooksInv

LEMMA CreateKeeps ==
  ASSUME BooksInv, NEW w \in Worker, pool_worker_thread_main(w) \/ ThreadFails(w)
  PROVE  BooksInv'
<1> DEFINE n == worker[w].next
<1>1. worker[w].state = "added" /\ UNCHANGED <<server, main, g_pool_count>>
  BY DEF pool_worker_thread_main, ThreadFails
<1>2. n \in Worker /\ worker[n].state = "none" /\ n # w /\ ~ worker[n].permanent
  BY <1>1 DEF BooksInv, LinksInv
<1>3. NoFd \in Nat /\ worker[n].fd \in Nat
  BY <1>2 DEF NoFd, BooksInv, PoolType
<1>4. CASE pool_worker_thread_main(w)
  <2>1. worker' = [worker EXCEPT ![w].state = "serving", ![w].next = NoFd, ![n] =
          [state |-> "serving", permanent |-> FALSE, fd |-> worker[n].fd, conns |-> 0, ticks |-> 0, next |-> NoFd]]
    BY <1>4 DEF pool_worker_thread_main, Serving
  <2>2. PoolType'
    BY <1>1, <1>2, <1>3, <2>1 DEF BooksInv, PoolType, States
  <2>3. /\ worker'[w].state = "serving" /\ worker'[w].next = NoFd
        /\ worker'[w].permanent = worker[w].permanent /\ worker'[w].fd = worker[w].fd
        /\ worker'[n].state = "serving" /\ ~ worker'[n].permanent /\ worker'[n].next = NoFd
        /\ \A v \in Worker \ {w, n} : worker'[v] = worker[v]
    BY <1>2, <2>1 DEF BooksInv, PoolType
  <2> HIDE DEF n
  <2>4. n = worker[w].next
    BY DEF n
  <2> QED BY <1>1, <2>2, <2>3, <2>4, UnlinkKeeps
<1>5. CASE ThreadFails(w)
  <2>1. worker' = [worker EXCEPT ![w].state = "rollback", ![w].next = NoFd, ![n] =
          [state |-> "none", permanent |-> FALSE, fd |-> NoFd, conns |-> 0, ticks |-> 0, next |-> NoFd]]
    BY <1>5 DEF ThreadFails, Idle
  <2>2. PoolType'
    BY <1>1, <1>2, <1>3, <2>1 DEF BooksInv, PoolType, States
  <2>3. /\ worker'[w].state = "rollback" /\ worker'[w].next = NoFd
        /\ worker'[w].permanent = worker[w].permanent /\ worker'[w].fd = worker[w].fd
        /\ worker'[n].state = "none" /\ worker'[n].fd = NoFd
        /\ ~ worker'[n].permanent /\ worker'[n].next = NoFd
        /\ \A v \in Worker \ {w, n} : worker'[v] = worker[v]
    BY <1>2, <2>1 DEF BooksInv, PoolType
  <2> HIDE DEF n
  <2>4. n = worker[w].next
    BY DEF n
  <2> QED BY <1>1, <2>2, <2>3, <2>4, UnlinkKeeps
<1> QED BY <1>4, <1>5

LEMMA LeaveKeeps ==
  ASSUME BooksInv, NEW w \in Worker, Leave(w)
  PROVE  BooksInv'
<1>1. /\ worker[w].state = "leaving" /\ UNCHANGED <<server, main, g_pool_count>>
      /\ worker' = [worker EXCEPT ![w] =
           [state |-> "none", permanent |-> FALSE, fd |-> NoFd, conns |-> 0, ticks |-> 0, next |-> NoFd]]
  BY DEF Leave, Idle
<1>2. /\ ~ worker[w].permanent /\ worker[w].next = NoFd
      /\ \A v \in Worker : worker[v].next # w
  <2>1. ~ worker[w].permanent /\ worker[w].next = NoFd
    BY <1>1 DEF BooksInv, StartInv, LinksInv
  <2>2. ASSUME NEW v \in Worker, worker[v].next = w PROVE FALSE
    <3>1. worker[v].next # NoFd
      BY <2>2, ThreadAssumption DEF NoFd
    <3>2. worker[worker[v].next].state = "none"
      BY <3>1 DEF BooksInv, LinksInv
    <3> QED BY <1>1, <2>2, <3>2
  <2> QED BY <2>1, <2>2
<1>3. PoolType'
  <2>1. NoFd \in Nat
    BY DEF NoFd
  <2> QED BY <1>1, <2>1 DEF BooksInv, PoolType, States
<1>4. /\ worker'[w] = [state |-> "none", permanent |-> FALSE, fd |-> NoFd, conns |-> 0, ticks |-> 0, next |-> NoFd]
      /\ \A v \in Worker \ {w} : worker'[v] = worker[v]
  BY <1>1 DEF BooksInv, PoolType
<1>5. LinksInv'
  <2>1. LinksInv
    BY DEF BooksInv
  <2>2. \A v \in Worker : worker'[v].next = worker[v].next
    BY <1>2, <1>4
  <2>3. \A v \in Worker \ {w} : worker[v].next \in Worker => worker[v].next \in Worker \ {w}
    BY <1>2
  <2> QED BY <1>2, <1>4, <2>1, <2>2, <2>3 DEF LinksInv
<1>6. Permanent' = Permanent
  BY <1>2, <1>4 DEF Permanent
<1>7. StartInv'
  <2>1. Permanent # {}
    BY <1>1 DEF BooksInv, StartInv
  <2>2. \A v \in Worker : /\ worker'[v].permanent => worker'[v].state \notin {"none", "leaving"}
                          /\ worker'[v].state = "gone" => worker'[v].permanent
    BY <1>4 DEF BooksInv, StartInv
  <2>3. server = "starting" => main \in Permanent /\ worker'[main].state = "starting"
    BY <1>1, <1>4 DEF BooksInv, StartInv, Permanent
  <2> QED BY <1>1, <1>6, <2>1, <2>2, <2>3 DEF BooksInv, StartInv
<1>8. GrownSet' = GrownSet /\ GrowingSet' = GrowingSet /\ Placed' = Placed
  BY <1>1, <1>4 DEF GrownSet, GrowingSet, Placed, Grown, Growing
<1>9. PlacesInv'
  BY <1>1, <1>6, <1>8 DEF BooksInv, PlacesInv, CountExact, GrownSet, GrowingSet
<1> QED BY <1>3, <1>5, <1>7, <1>9 DEF BooksInv

LEMMA ServerKeeps ==
  ASSUME BooksInv, ListenFails \/ bi_mux_close
  PROVE  BooksInv'
<1>1. /\ UNCHANGED <<worker, g_pool_count, main>> /\ server' \in {server, "failed", "closed"}
  BY DEF ListenFails, bi_mux_close
<1>2. PoolType'
  BY <1>1 DEF BooksInv, PoolType
<1> QED BY <1>1, <1>2, SameBooks

LEMMA InitBooks ==
  ASSUME PoolInit
  PROVE  BooksInv
<1>1. /\ worker = [w \in Worker |->
           [state |-> "none", permanent |-> FALSE, fd |-> NoFd, conns |-> 0, ticks |-> 0, next |-> NoFd]]
      /\ g_pool_count = 0 /\ server = "new"
  BY DEF PoolInit, Idle
<1>2. NoFd \in Nat
  BY DEF NoFd
<1> HIDE DEF NoFd
<1>3. PoolType
  BY <1>1, <1>2 DEF PoolType, States
<1>4. Permanent = {} /\ GrownSet = {} /\ Placed = {}
  BY <1>1 DEF Permanent, GrownSet, Placed, Grown
<1>5. LinksInv
  BY <1>1 DEF LinksInv
<1>6. StartInv
  BY <1>1, <1>4 DEF StartInv
<1>7. PlacesInv
  <2>1. Cardinality({}) = 0
    BY FS_EmptySet
  <2> QED BY <1>4, <2>1, PoolAssumption DEF PlacesInv, CountExact
<1> QED BY <1>3, <1>5, <1>6, <1>7 DEF BooksInv

LEMMA BooksKept ==
  ASSUME BooksInv, [PoolNext]_poolVars
  PROVE  BooksInv'
<1>1. CASE UNCHANGED poolVars
  <2>1. UNCHANGED <<worker, g_pool_count, server, main>>
    BY <1>1 DEF poolVars
  <2>2. PoolType'
    BY <2>1 DEF BooksInv, PoolType
  <2> QED BY <2>1, <2>2, SameBooks
<1>2. CASE bi_mux_close \/ ListenFails
  BY <1>2, ServerKeeps
<1>3. CASE StartMain
  BY <1>3, StartMainKeeps
<1>4. ASSUME NEW w \in Worker, NEW f \in Fd, bi_mux_listen(w, f) \/ StartPermanent(w, f)
      PROVE  BooksInv'
  BY <1>4, ListenKeeps, StartPermanentKeeps
<1>5. ASSUME NEW w \in Worker, NEW n \in Worker, NEW f \in Fd, bind_listener(w, n, f)
      PROVE  BooksInv'
  BY <1>5, BindKeeps
<1>6. ASSUME NEW w \in Worker, pool_worker_thread_main(w) \/ ThreadFails(w) \/ Leave(w)
      PROVE  BooksInv'
  BY <1>6, CreateKeeps, LeaveKeeps
<1>7. ASSUME NEW w \in Worker, \/ Rollback(w) \/ BindFails(w) \/ AddListener(w) \/ Turn(w)
                               \/ PollFails(w) \/ Accept(w) \/ Disconnect(w)
      PROVE  BooksInv'
  BY <1>7, WorkerKeeps
<1> QED BY <1>1, <1>2, <1>3, <1>4, <1>5, <1>6, <1>7 DEF PoolNext, WorkerStep

\* The threads the limit is about: permanent, grown, or about to be created, each
\* of these by one worker that holds the place.
LEMMA BooksBound ==
  ASSUME BooksInv
  PROVE  PoolBounded
<1> DEFINE All == {w \in Worker : worker[w].state \notin {"none", "leaving"} \/ worker[w].fd # NoFd}
                    \ {w \in Worker : worker[w].state = "leaving"}
           Created == {n \in Worker : worker[n].state = "none" /\ worker[n].fd # NoFd}
           maker == [n \in Created |-> CHOOSE v \in Placed : worker[v].next = n]
<1>1. \A n \in Created : \E v \in Placed : worker[v].next = n
  <2> SUFFICES ASSUME NEW n \in Created PROVE \E v \in Placed : worker[v].next = n
    OBVIOUS
  <2>1. PICK v \in Worker : worker[v].next = n
    BY DEF BooksInv, LinksInv
  <2>2. n # NoFd
    BY ThreadAssumption DEF NoFd
  <2>3. worker[v].state \in {"bound", "added"}
    BY <2>1, <2>2 DEF BooksInv, LinksInv
  <2> QED BY <2>1, <2>3 DEF Placed
<1>2. \A n \in Created : maker[n] \in Placed /\ worker[maker[n]].next = n
  BY <1>1
<1>3. maker \in Injection(Created, Placed)
  <2>1. maker \in [Created -> Placed]
    BY <1>2
  <2>2. \A m, n \in Created : maker[m] = maker[n] => m = n
    BY <1>2
  <2> HIDE DEF maker
  <2> QED BY <2>1, <2>2 DEF Injection, IsInjective
<1>4. All \subseteq Permanent \cup GrownSet \cup Created
  BY DEF Permanent, GrownSet, Grown, BooksInv, StartInv
<1>5. /\ IsFiniteSet(Permanent) /\ IsFiniteSet(GrownSet) /\ IsFiniteSet(Placed) /\ IsFiniteSet(Created)
      /\ IsFiniteSet(All)
  <2>1. /\ Permanent \subseteq Worker /\ GrownSet \subseteq Worker /\ Placed \subseteq Worker
        /\ Created \subseteq Worker /\ All \subseteq Worker
    BY DEF Permanent, GrownSet, Placed
  <2> HIDE DEF All, Created
  <2> QED BY <2>1, ThreadAssumption, FS_Subset
<1> HIDE DEF All, Created, maker
<1>6. Cardinality(Created) <= Cardinality(Placed)
  BY <1>3, <1>5, FS_Injection
<1>7. /\ Cardinality(Permanent) \in Nat /\ Cardinality(GrownSet) \in Nat /\ Cardinality(Created) \in Nat
      /\ Cardinality(Placed) \in Nat /\ Cardinality(All) \in Nat
  BY <1>5, FS_CardinalityType
<1>8. IsFiniteSet(Permanent \cup GrownSet) /\ IsFiniteSet(Permanent \cup GrownSet \cup Created)
  BY <1>5, FS_Union
<1>9. Cardinality(Permanent \cup GrownSet) <= Cardinality(Permanent) + Cardinality(GrownSet)
  <2>1. Cardinality(Permanent \cup GrownSet)
          = Cardinality(Permanent) + Cardinality(GrownSet) - Cardinality(Permanent \cap GrownSet)
    BY <1>5, FS_Union
  <2>2. Cardinality(Permanent \cap GrownSet) \in Nat
    BY <1>5, FS_Intersection, FS_CardinalityType
  <2> QED BY <1>7, <2>1, <2>2
<1>10. Cardinality((Permanent \cup GrownSet) \cup Created)
         <= Cardinality(Permanent \cup GrownSet) + Cardinality(Created)
  <2>1. Cardinality((Permanent \cup GrownSet) \cup Created)
          = Cardinality(Permanent \cup GrownSet) + Cardinality(Created)
            - Cardinality((Permanent \cup GrownSet) \cap Created)
    BY <1>5, <1>8, FS_Union
  <2>2. Cardinality((Permanent \cup GrownSet) \cap Created) \in Nat /\ Cardinality(Permanent \cup GrownSet) \in Nat
    BY <1>5, <1>8, FS_Intersection, FS_CardinalityType
  <2> QED BY <1>7, <2>1, <2>2
<1>11. Cardinality(All) <= Cardinality(Permanent \cup GrownSet \cup Created)
  BY <1>4, <1>8, FS_Subset
<1>12. Cardinality(Permanent \cup GrownSet) \in Nat /\ Cardinality(Permanent \cup GrownSet \cup Created) \in Nat
  BY <1>8, FS_CardinalityType
<1>13. Cardinality(All) <= pool_max
  BY <1>6, <1>7, <1>9, <1>10, <1>11, <1>12, PoolAssumption DEF BooksInv, PlacesInv
<1> QED BY <1>13 DEF PoolBounded, All

\* For any number of threads and descriptors, limits, connections and failures,
\* and whether or not descriptor numbers are reused: the count of the pool is
\* exact after every step of pool_try_grow and of the workers that come and go,
\* and the threads never exceed the limit.
THEOREM CountsAndLimit == PoolSpec => [](CountExact /\ PoolBounded)
<1>1. PoolInit => BooksInv
  BY InitBooks
<1>2. BooksInv /\ [PoolNext]_poolVars => BooksInv'
  BY BooksKept
<1>3. BooksInv => CountExact /\ PoolBounded
  BY BooksBound DEF BooksInv, PlacesInv
<1> QED BY <1>1, <1>2, <1>3, PTL DEF PoolSpec

(***************************************************************************)
(* Listeners.                                                              *)
(***************************************************************************)
\* A number the system gives out is no worker's.
LEMMA FreshIsNobodys ==
  ASSUME BooksInv, OwnInv, Distinct, NEW f \in Fd, FreshFd(f)
  PROVE  /\ f \notin DOMAIN open /\ f \notin held /\ f # NoFd
         /\ \A v \in Worker : worker[v].fd # f
<1>1. f \notin DOMAIN open /\ (~ FdsReused => f \notin closed) /\ f # NoFd
  BY NewFds
<1>2. ASSUME NEW v \in Worker, worker[v].fd = f PROVE FALSE
  BY <1>1, <1>2 DEF OwnInv, Distinct
<1> QED BY <1>1, <1>2 DEF OwnInv

\* Steps that leave the listeners alone.
LEMMA SameListeners ==
  ASSUME OwnInv, UNCHANGED <<held, open, closed, misclosed>>,
         server' = "closed" <=> server = "closed",
         \A v \in Worker : /\ worker'[v].fd = worker[v].fd /\ worker'[v].next = worker[v].next
                           /\ worker'[v].state = "bound" <=> worker[v].state = "bound"
                           /\ worker'[v].state = "added" => worker[v].state = "added"
                           /\ worker'[v].state = "none" <=> worker[v].state = "none"
                           /\ worker'[v].state \in {"starting", "serving"} \/ Growing(v)' =>
                                worker[v].state \in {"starting", "serving"} \/ Growing(v),
         LinksInv
  PROVE  OwnInv'
<1> DEFINE Stands(v) == worker[v].state \in {"starting", "serving"} \/ Growing(v)
<1>1. \A v \in Worker : Stands(v)' => Stands(v)
  OBVIOUS
<1>2. \A v \in Worker : worker[v].state \in {"bound", "added"} =>
        worker[v].next \in Worker /\ worker'[worker'[v].next].fd = worker[worker[v].next].fd
  BY DEF LinksInv
<1>3. \A v \in Worker :
        /\ worker'[v].fd # NoFd => worker'[v].fd \in DOMAIN open' \cup (IF server' = "closed" THEN closed' ELSE {})
        /\ worker'[v].fd \in DOMAIN open' => open'[worker'[v].fd] = v
        /\ worker'[v].state # "none" => worker'[v].fd # NoFd
  BY DEF OwnInv
<1>4. \A v \in Worker : server' # "closed" /\ Stands(v)' => worker'[v].fd \in held'
  BY <1>1 DEF OwnInv
<1>5. \A v \in Worker :
        /\ server' # "closed" /\ worker'[v].state = "added" => worker'[worker'[v].next].fd \in held'
        /\ worker'[v].state = "bound" => worker'[worker'[v].next].fd \in DOMAIN open' \ held'
  BY <1>2 DEF OwnInv
<1>6. \A u, v \in Worker : worker'[u].fd = worker'[v].fd /\ worker'[u].fd # NoFd => u = v
  BY DEF OwnInv
<1>7. \A f \in DOMAIN open' \ held' :
        \E v \in Worker : worker'[v].state = "bound" /\ worker'[worker'[v].next].fd = f
  BY <1>2 DEF OwnInv
<1>8. DOMAIN open' \subseteq Fd /\ held' \subseteq DOMAIN open' /\ ~ misclosed'
  BY DEF OwnInv
<1> QED BY <1>3, <1>4, <1>5, <1>6, <1>7, <1>8 DEF OwnInv

LEMMA ListenersKept ==
  ASSUME BooksInv, OwnInv,
         \/ StartMain \/ ListenFails
         \/ \E w \in Worker : \/ Rollback(w) \/ BindFails(w) \/ Turn(w) \/ PollFails(w)
                              \/ Accept(w) \/ Disconnect(w)
  PROVE  OwnInv'
<1>0. LinksInv /\ PoolType
  BY DEF BooksInv
<1>1. CASE ListenFails
  <2>1. /\ UNCHANGED <<worker, held, open, closed, misclosed>>
        /\ server' = "closed" <=> server = "closed"
    BY <1>1 DEF ListenFails
  <2> QED BY <1>0, <2>1, SameListeners DEF Growing
<1>2. ASSUME NEW w \in Worker, NEW r, worker' = [worker EXCEPT ![w] = r],
             r.fd = worker[w].fd, r.next = worker[w].next,
             \/ r.state = worker[w].state
             \/ /\ worker[w].state \in {"starting", "serving", "reserved", "rollback"}
                /\ r.state \in {"serving", "reserved", "rollback", "leaving", "gone"},
             UNCHANGED <<held, open, closed, misclosed>>,
             server' = "closed" <=> server = "closed"
      PROVE  OwnInv'
  <2>1. worker'[w] = r /\ \A v \in Worker \ {w} : worker'[v] = worker[v]
    BY <1>0, <1>2 DEF PoolType
  <2>2. \A v \in Worker : /\ worker'[v].fd = worker[v].fd /\ worker'[v].next = worker[v].next
                          /\ worker'[v].state = "bound" <=> worker[v].state = "bound"
                          /\ worker'[v].state = "added" => worker[v].state = "added"
                          /\ worker'[v].state = "none" <=> worker[v].state = "none"
                          /\ worker'[v].state \in {"starting", "serving"} \/ Growing(v)' =>
                               worker[v].state \in {"starting", "serving"} \/ Growing(v)
    BY <1>2, <2>1 DEF Growing
  <2> QED BY <1>0, <1>2, <2>2, SameListeners
<1>3. CASE StartMain
  <2>1. /\ worker' = [worker EXCEPT ![main].state = "serving"]
        /\ UNCHANGED <<held, open, closed, misclosed>> /\ server' # "closed" /\ server # "closed"
        /\ main \in Worker /\ worker[main].state = "starting"
    BY <1>3 DEF StartMain, BooksInv, StartInv, Permanent
  <2>2. PICK r : r = [worker[main] EXCEPT !.state = "serving"]
    OBVIOUS
  <2>3. worker' = [worker EXCEPT ![main] = r] /\ r.state = "serving" /\ r.fd = worker[main].fd /\ r.next = worker[main].next
    BY <1>0, <2>1, <2>2 DEF PoolType
  <2> QED BY <1>2, <2>1, <2>3
<1>4. ASSUME NEW w \in Worker, \/ Rollback(w) \/ BindFails(w) \/ Turn(w) \/ PollFails(w)
                               \/ Accept(w) \/ Disconnect(w)
      PROVE  OwnInv'
  <2>1. UNCHANGED <<held, open, closed, misclosed, server>>
    BY <1>4 DEF Rollback, BindFails, Turn, Reserve, PollFails, Accept, Disconnect
  <2>2. ASSUME NEW s, NEW t, NEW c, worker' = [worker EXCEPT ![w] = [@ EXCEPT !.state = s, !.ticks = t, !.conns = c]],
               \/ s = worker[w].state
               \/ /\ worker[w].state \in {"starting", "serving", "reserved", "rollback"}
                  /\ s \in {"serving", "reserved", "rollback", "leaving", "gone"}
        PROVE  OwnInv'
    <3>1. PICK r : r = [worker[w] EXCEPT !.state = s, !.ticks = t, !.conns = c]
      OBVIOUS
    <3>2. worker' = [worker EXCEPT ![w] = r] /\ r.state = s /\ r.fd = worker[w].fd /\ r.next = worker[w].next
      BY <1>0, <2>2, <3>1 DEF PoolType
    <3> QED BY <1>2, <2>1, <2>2, <3>2
  <2> DEFINE Change(s, t, c) == worker' = [worker EXCEPT ![w] = [@ EXCEPT !.state = s, !.ticks = t, !.conns = c]]
             Goes(s) == \/ s = worker[w].state
                        \/ /\ worker[w].state \in {"starting", "serving", "reserved", "rollback"}
                           /\ s \in {"serving", "reserved", "rollback", "leaving", "gone"}
  <2>3. ASSUME NEW s, NEW t, NEW c, Change(s, t, c), Goes(s) PROVE OwnInv'
    BY <2>2, <2>3
  <2>4. \A s : worker[w].state \in {"starting", "serving", "reserved", "rollback"}
                 /\ s \in {"serving", "reserved", "rollback", "leaving", "gone"} => Goes(s)
    OBVIOUS
  <2>5. Goes(worker[w].state)
    OBVIOUS
  <2>6. /\ worker[w] \in [state : States, permanent : BOOLEAN, fd : Nat, conns : Int, ticks : Int, next : Nat]
        /\ worker \in [Worker -> [state : States, permanent : BOOLEAN, fd : Nat, conns : Int, ticks : Int, next : Nat]]
    BY <1>0 DEF PoolType
  <2>7. CASE Rollback(w)
    <3>1. worker[w].state = "rollback" /\ Change("serving", worker[w].ticks, worker[w].conns)
      BY <2>6, <2>7 DEF Rollback, Step
    <3> HIDE DEF Change, Goes
    <3> QED BY <2>3, <2>4, <3>1
  <2>8. CASE BindFails(w)
    <3>1. worker[w].state = "reserved" /\ Change("rollback", worker[w].ticks, worker[w].conns)
      BY <2>6, <2>8 DEF BindFails, Step
    <3> HIDE DEF Change, Goes
    <3> QED BY <2>3, <2>4, <3>1
  <2>9. CASE PollFails(w)
    <3>1. /\ worker[w].state = "serving"
          /\ \/ Change("gone", worker[w].ticks, worker[w].conns)
             \/ Change("leaving", worker[w].ticks, worker[w].conns)
      BY <2>6, <2>9 DEF PollFails, Step
    <3> HIDE DEF Change, Goes
    <3> QED BY <2>3, <2>4, <3>1
  <2>10. CASE Accept(w) \/ Disconnect(w)
    <3>1. \/ Change(worker[w].state, worker[w].ticks, worker[w].conns + 1)
          \/ Change(worker[w].state, worker[w].ticks, worker[w].conns - 1)
      BY <2>6, <2>10 DEF Accept, Disconnect
    <3> HIDE DEF Change, Goes
    <3> QED BY <2>3, <2>5, <3>1
  <2>11. CASE Turn(w)
    <3>1. worker[w].state = "serving"
      BY <2>11 DEF Turn
    <3>2. \/ Reserve(w)
          \/ worker' = [worker EXCEPT ![w].state = "leaving"]
          \/ \E t \in Int : worker' = [worker EXCEPT ![w].ticks = t]
      BY <2>6, <2>11 DEF Turn
    <3>3. ASSUME Reserve(w) PROVE \/ Change("rollback", 0, worker[w].conns) \/ Change("reserved", 0, worker[w].conns)
      BY <2>6, <3>3 DEF Reserve
    <3>4. ASSUME worker' = [worker EXCEPT ![w].state = "leaving"]
          PROVE  Change("leaving", worker[w].ticks, worker[w].conns)
      BY <2>6, <3>4
    <3>5. ASSUME NEW t \in Int, worker' = [worker EXCEPT ![w].ticks = t]
          PROVE  Change(worker[w].state, t, worker[w].conns)
      BY <2>6, <3>5
    <3> HIDE DEF Change, Goes
    <3> QED BY <2>3, <2>4, <2>5, <3>1, <3>2, <3>3, <3>4, <3>5
  <2> QED BY <1>4, <2>7, <2>8, <2>9, <2>10, <2>11
<1> QED BY <1>1, <1>3, <1>4

\* A permanent worker gets a listener, in the set from the start.
LEMMA ListenerGiven ==
  ASSUME BooksInv, OwnInv, Distinct, NEW w \in Worker, NEW f \in Fd,
         bi_mux_listen(w, f) \/ StartPermanent(w, f)
  PROVE  OwnInv'
<1>0. LinksInv /\ PoolType
  BY DEF BooksInv
<1>1. FreshFd(f) /\ NewThread(w)
  BY DEF bi_mux_listen, StartPermanent
<1>2. f \notin DOMAIN open /\ f \notin held /\ f # NoFd /\ \A v \in Worker : worker[v].fd # f
  BY <1>1, FreshIsNobodys
<1>3. worker[w].state = "none" /\ (\A v \in Worker : worker[v].next # w) /\ worker[w].next = NoFd
  BY <1>0, <1>1, NewThreads DEF LinksInv
<1>4. /\ held' = held \cup {f} /\ open' = [g \in DOMAIN open \cup {f} |-> IF g = f THEN w ELSE open[g]]
      /\ UNCHANGED <<closed, misclosed>> /\ server' # "closed" /\ server # "closed"
  BY DEF bi_mux_listen, StartPermanent, Opened
<1>5. /\ worker'[w].state \in {"starting", "serving"} /\ worker'[w].fd = f /\ worker'[w].next = NoFd
      /\ \A v \in Worker \ {w} : worker'[v] = worker[v]
  BY <1>0 DEF bi_mux_listen, StartPermanent, Serving, PoolType
<1>6. \A v \in Worker \ {w} : worker[v].state \in {"bound", "added"} =>
        worker[v].next \in Worker \ {w} /\ worker'[worker'[v].next] = worker[worker[v].next]
  BY <1>0, <1>3, <1>5 DEF LinksInv
<1>7. DOMAIN open' = DOMAIN open \cup {f} /\ open'[f] = w /\ \A g \in DOMAIN open : open'[g] = open[g]
  BY <1>2, <1>4
<1>8. \A v \in Worker :
        /\ worker'[v].fd # NoFd => worker'[v].fd \in DOMAIN open' \cup (IF server' = "closed" THEN closed' ELSE {})
        /\ worker'[v].fd \in DOMAIN open' => open'[worker'[v].fd] = v
        /\ worker'[v].state # "none" => worker'[v].fd # NoFd
  BY <1>2, <1>4, <1>5, <1>7 DEF OwnInv
<1>9. \A v \in Worker : server' # "closed" /\ (worker'[v].state \in {"starting", "serving"} \/ Growing(v)') => worker'[v].fd \in held'
  BY <1>4, <1>5 DEF OwnInv, Growing
<1>10. \A v \in Worker :
        /\ server' # "closed" /\ worker'[v].state = "added" => worker'[worker'[v].next].fd \in held'
        /\ worker'[v].state = "bound" => worker'[worker'[v].next].fd \in DOMAIN open' \ held'
  BY <1>2, <1>4, <1>5, <1>6, <1>7 DEF OwnInv
<1>11. \A u, v \in Worker : worker'[u].fd = worker'[v].fd /\ worker'[u].fd # NoFd => u = v
  BY <1>2, <1>5 DEF OwnInv
<1>12. \A g \in DOMAIN open' \ held' :
         \E v \in Worker : worker'[v].state = "bound" /\ worker'[worker'[v].next].fd = g
  <2> SUFFICES ASSUME NEW g \in DOMAIN open \ held
               PROVE  \E v \in Worker : worker'[v].state = "bound" /\ worker'[worker'[v].next].fd = g
    BY <1>4, <1>7
  <2>1. PICK v \in Worker : worker[v].state = "bound" /\ worker[worker[v].next].fd = g
    BY DEF OwnInv
  <2> QED BY <1>3, <1>5, <1>6, <2>1
<1>13. DOMAIN open' \subseteq Fd /\ held' \subseteq DOMAIN open' /\ ~ misclosed'
  BY <1>4, <1>7 DEF OwnInv
<1> QED BY <1>8, <1>9, <1>10, <1>11, <1>12, <1>13 DEF OwnInv

\* A worker's next gets a listener that is not in the set yet.
LEMMA ListenerBound ==
  ASSUME BooksInv, OwnInv, Distinct, NEW w \in Worker, NEW n \in Worker, NEW f \in Fd, bind_listener(w, n, f)
  PROVE  OwnInv'
<1>0. LinksInv /\ PoolType
  BY DEF BooksInv
<1>1. FreshFd(f) /\ NewThread(n) /\ worker[w].state = "reserved"
  BY DEF bind_listener
<1>2. f \notin DOMAIN open /\ f \notin held /\ f # NoFd /\ \A v \in Worker : worker[v].fd # f
  BY <1>1, FreshIsNobodys
<1>3. worker[n].state = "none" /\ (\A v \in Worker : worker[v].next # n) /\ n # w
  BY <1>1, NewThreads
<1>4. /\ open' = [g \in DOMAIN open \cup {f} |-> IF g = f THEN n ELSE open[g]]
      /\ UNCHANGED <<held, closed, misclosed, server>>
      /\ worker' = [worker EXCEPT ![w].state = "bound", ![w].next = n, ![n].fd = f]
  BY DEF bind_listener, Opened
<1>5. /\ worker'[w].state = "bound" /\ worker'[w].next = n /\ worker'[w].fd = worker[w].fd
      /\ worker'[n].fd = f /\ worker'[n].state = "none"
      /\ \A v \in Worker \ {w, n} : worker'[v] = worker[v]
  BY <1>0, <1>3, <1>4 DEF PoolType
<1>6. \A v \in Worker \ {w} : worker[v].state \in {"bound", "added"} =>
        v # n /\ worker'[v] = worker[v] /\ worker[v].next \in Worker \ {n}
        /\ worker'[worker'[v].next].fd = worker[worker[v].next].fd
  BY <1>0, <1>1, <1>3, <1>5 DEF LinksInv
<1>7. DOMAIN open' = DOMAIN open \cup {f} /\ open'[f] = n /\ \A g \in DOMAIN open : open'[g] = open[g]
  BY <1>2, <1>4
<1>a. UNCHANGED <<held, closed, misclosed, server>>
  BY <1>4
<1>8. \A v \in Worker :
        /\ worker'[v].fd # NoFd => worker'[v].fd \in DOMAIN open' \cup (IF server' = "closed" THEN closed' ELSE {})
        /\ worker'[v].fd \in DOMAIN open' => open'[worker'[v].fd] = v
        /\ worker'[v].state # "none" => worker'[v].fd # NoFd
  <2> SUFFICES ASSUME NEW v \in Worker
               PROVE  /\ worker'[v].fd # NoFd => worker'[v].fd \in DOMAIN open' \cup (IF server' = "closed" THEN closed' ELSE {})
                      /\ worker'[v].fd \in DOMAIN open' => open'[worker'[v].fd] = v
                      /\ worker'[v].state # "none" => worker'[v].fd # NoFd
    OBVIOUS
  <2>1. CASE v = n
    BY <1>2, <1>5, <1>7, <2>1
  <2>2. CASE v # n
    <3>1. worker'[v].fd = worker[v].fd /\ (worker'[v].state # "none" => worker[v].state # "none")
      BY <1>1, <1>5, <2>2
    <3>2. worker[v].fd # f
      BY <1>2
    <3> QED BY <1>7, <1>a, <3>1, <3>2 DEF OwnInv
  <2> QED BY <2>1, <2>2
<1>9. \A v \in Worker : server' # "closed" /\ (worker'[v].state \in {"starting", "serving"} \/ Growing(v)') => worker'[v].fd \in held'
  <2> SUFFICES ASSUME NEW v \in Worker, server' # "closed", worker'[v].state \in {"starting", "serving"} \/ Growing(v)'
               PROVE  worker'[v].fd \in held'
    OBVIOUS
  <2>1. v # n /\ worker'[v].fd = worker[v].fd /\ (worker[v].state \in {"starting", "serving"} \/ Growing(v))
    BY <1>1, <1>5 DEF Growing
  <2> QED BY <1>a, <2>1 DEF OwnInv
<1>10. \A v \in Worker :
        /\ server' # "closed" /\ worker'[v].state = "added" => worker'[worker'[v].next].fd \in held'
        /\ worker'[v].state = "bound" => worker'[worker'[v].next].fd \in DOMAIN open' \ held'
  <2> SUFFICES ASSUME NEW v \in Worker
               PROVE  /\ server' # "closed" /\ worker'[v].state = "added" => worker'[worker'[v].next].fd \in held'
                      /\ worker'[v].state = "bound" => worker'[worker'[v].next].fd \in DOMAIN open' \ held'
    OBVIOUS
  <2>1. CASE v = w
    BY <1>2, <1>5, <1>7, <1>a, <2>1
  <2>2. CASE v = n
    BY <1>3, <1>5, <2>2
  <2>3. CASE v \notin {w, n}
<3>1. worker'[v] = worker[v]
      BY <1>5, <2>3
    <3>2. worker[v].state \in {"bound", "added"} => worker'[worker'[v].next].fd = worker[worker[v].next].fd
      BY <1>6, <2>3
    <3> QED BY <1>7, <1>a, <3>1, <3>2 DEF OwnInv
  <2> QED BY <2>1, <2>2, <2>3
<1>11. \A u, v \in Worker : worker'[u].fd = worker'[v].fd /\ worker'[u].fd # NoFd => u = v
  BY <1>2, <1>5 DEF OwnInv
<1>12. \A g \in DOMAIN open' \ held' :
         \E v \in Worker : worker'[v].state = "bound" /\ worker'[worker'[v].next].fd = g
  <2>1. ASSUME NEW g \in DOMAIN open \ held
        PROVE  \E v \in Worker : worker'[v].state = "bound" /\ worker'[worker'[v].next].fd = g
    <3>1. PICK v \in Worker : worker[v].state = "bound" /\ worker[worker[v].next].fd = g
      BY DEF OwnInv
    <3>2. v # w
      BY <1>1, <3>1
    <3> QED BY <1>6, <3>1, <3>2
  <2>2. \E v \in Worker : worker'[v].state = "bound" /\ worker'[worker'[v].next].fd = f
    BY <1>5
  <2> QED BY <1>7, <1>a, <2>1, <2>2
<1>13. DOMAIN open' \subseteq Fd /\ held' \subseteq DOMAIN open' /\ ~ misclosed'
  BY <1>7, <1>a DEF OwnInv
<1> QED BY <1>8, <1>9, <1>10, <1>11, <1>12, <1>13 DEF OwnInv

\* It goes into the set, and then its thread starts.
LEMMA ListenerAdded ==
  ASSUME BooksInv, OwnInv, NEW w \in Worker, AddListener(w)
  PROVE  OwnInv'
<1>0. LinksInv /\ PoolType
  BY DEF BooksInv
<1> DEFINE n == worker[w].next
           f == worker[n].fd
<1>1. /\ worker[w].state = "bound" /\ held' = held \cup {f}
      /\ UNCHANGED <<open, closed, misclosed, server>>
      /\ worker' = [worker EXCEPT ![w].state = "added"]
  BY DEF AddListener, fdset_add, Step
<1>2. n \in Worker /\ worker[n].state = "none" /\ n # w /\ f # NoFd /\ n # NoFd
  BY <1>0, <1>1, ThreadAssumption DEF LinksInv, NoFd
<1>3. f \in DOMAIN open \ held
  BY <1>1 DEF OwnInv
<1>4. /\ worker'[w].state = "added"
      /\ \A v \in Worker : worker'[v].fd = worker[v].fd /\ worker'[v].next = worker[v].next
      /\ \A v \in Worker \ {w} : worker'[v] = worker[v]
  BY <1>0, <1>1 DEF PoolType
<1>5. \A v \in Worker \ {w} : worker[v].state \in {"bound", "added"} =>
        worker[v].next \in Worker /\ worker[v].next # n /\ worker[worker[v].next].fd # f
  <2> SUFFICES ASSUME NEW v \in Worker \ {w}, worker[v].state \in {"bound", "added"}
               PROVE  worker[v].next \in Worker /\ worker[v].next # n /\ worker[worker[v].next].fd # f
    OBVIOUS
  <2>1. worker[v].next \in Worker /\ worker[v].next # n
    BY <1>0, <1>2 DEF LinksInv
  <2> QED BY <1>2, <2>1 DEF OwnInv
<1> HIDE DEF n, f
<1>6. worker[w].next = n /\ worker[n].fd = f
  BY DEF n, f
<1>7. \A v \in Worker :
        /\ worker'[v].fd # NoFd => worker'[v].fd \in DOMAIN open' \cup (IF server' = "closed" THEN closed' ELSE {})
        /\ worker'[v].fd \in DOMAIN open' => open'[worker'[v].fd] = v
        /\ worker'[v].state # "none" => worker'[v].fd # NoFd
  BY <1>1, <1>4 DEF OwnInv
<1>8. \A v \in Worker : server' # "closed" /\ (worker'[v].state \in {"starting", "serving"} \/ Growing(v)') => worker'[v].fd \in held'
  BY <1>1, <1>4 DEF OwnInv, Growing
<1>9. \A v \in Worker :
        /\ server' # "closed" /\ worker'[v].state = "added" => worker'[worker'[v].next].fd \in held'
        /\ worker'[v].state = "bound" => worker'[worker'[v].next].fd \in DOMAIN open' \ held'
  <2> SUFFICES ASSUME NEW v \in Worker
               PROVE  /\ server' # "closed" /\ worker'[v].state = "added" => worker'[worker'[v].next].fd \in held'
                      /\ worker'[v].state = "bound" => worker'[worker'[v].next].fd \in DOMAIN open' \ held'
    OBVIOUS
  <2>1. CASE v = w
    BY <1>1, <1>2, <1>4, <1>6, <2>1
  <2>2. CASE v # w
    <3>1. worker'[v] = worker[v] /\ (worker[v].state \in {"bound", "added"} => worker'[worker'[v].next].fd = worker[worker[v].next].fd)
      BY <1>4, <1>5, <2>2
    <3> QED BY <1>1, <1>5, <2>2, <3>1 DEF OwnInv
  <2> QED BY <2>1, <2>2
<1>10. \A u, v \in Worker : worker'[u].fd = worker'[v].fd /\ worker'[u].fd # NoFd => u = v
  BY <1>4 DEF OwnInv
<1>11. \A g \in DOMAIN open' \ held' :
         \E v \in Worker : worker'[v].state = "bound" /\ worker'[worker'[v].next].fd = g
  <2> SUFFICES ASSUME NEW g \in DOMAIN open \ held, g # f
               PROVE  \E v \in Worker : worker'[v].state = "bound" /\ worker'[worker'[v].next].fd = g
    BY <1>1
  <2>1. PICK v \in Worker : worker[v].state = "bound" /\ worker[worker[v].next].fd = g
    BY DEF OwnInv
  <2>2. v # w
    BY <1>6, <2>1
  <2> QED BY <1>4, <1>5, <2>1, <2>2
<1>12. DOMAIN open' \subseteq Fd /\ held' \subseteq DOMAIN open' /\ ~ misclosed'
  BY <1>1, <1>3 DEF OwnInv
<1> QED BY <1>7, <1>8, <1>9, <1>10, <1>11, <1>12 DEF OwnInv

LEMMA ListenerServed ==
  ASSUME BooksInv, OwnInv, NEW w \in Worker, pool_worker_thread_main(w)
  PROVE  OwnInv'
<1>0. LinksInv /\ PoolType
  BY DEF BooksInv
<1> DEFINE n == worker[w].next
<1>1. /\ worker[w].state = "added" /\ UNCHANGED <<held, open, closed, misclosed, server>>
      /\ worker' = [worker EXCEPT ![w].state = "serving", ![w].next = NoFd, ![n] =
           [state |-> "serving", permanent |-> FALSE, fd |-> worker[n].fd, conns |-> 0, ticks |-> 0, next |-> NoFd]]
  BY DEF pool_worker_thread_main, Serving
<1>2. n \in Worker /\ worker[n].state = "none" /\ n # w /\ worker[n].fd # NoFd /\ n # NoFd
  BY <1>0, <1>1, ThreadAssumption DEF LinksInv, NoFd
<1>3. /\ worker'[w].state = "serving" /\ worker'[w].fd = worker[w].fd
      /\ worker'[n].state = "serving" /\ worker'[n].fd = worker[n].fd
      /\ \A v \in Worker \ {w, n} : worker'[v] = worker[v]
  BY <1>0, <1>1, <1>2 DEF PoolType
<1>4. \A v \in Worker \ {w} : worker[v].state \in {"bound", "added"} =>
        /\ v # n /\ worker[v].next \in Worker \ {w, n} /\ worker'[v] = worker[v]
        /\ worker'[worker'[v].next].fd = worker[worker[v].next].fd
  <2> SUFFICES ASSUME NEW v \in Worker \ {w}, worker[v].state \in {"bound", "added"}
               PROVE  /\ v # n /\ worker[v].next \in Worker \ {w, n} /\ worker'[v] = worker[v]
                      /\ worker'[worker'[v].next].fd = worker[worker[v].next].fd
    OBVIOUS
  <2>1. worker[v].next \in Worker /\ worker[v].next # n /\ worker[worker[v].next].state = "none" /\ v # n
    BY <1>0, <1>2 DEF LinksInv
  <2> QED BY <1>1, <1>3, <2>1
<1>5. worker[n].fd \in DOMAIN open => open[worker[n].fd] = n
  BY <1>2 DEF OwnInv
<1>6. server # "closed" => worker[n].fd \in held
  BY <1>1 DEF OwnInv
<1>a. UNCHANGED <<held, open, closed, misclosed, server>>
  BY <1>1
<1> HIDE DEF n
<1>7. \A v \in Worker :
        /\ worker'[v].fd # NoFd => worker'[v].fd \in DOMAIN open' \cup (IF server' = "closed" THEN closed' ELSE {})
        /\ worker'[v].fd \in DOMAIN open' => open'[worker'[v].fd] = v
        /\ worker'[v].state # "none" => worker'[v].fd # NoFd
  <2> SUFFICES ASSUME NEW v \in Worker
               PROVE  /\ worker'[v].fd # NoFd => worker'[v].fd \in DOMAIN open' \cup (IF server' = "closed" THEN closed' ELSE {})
                      /\ worker'[v].fd \in DOMAIN open' => open'[worker'[v].fd] = v
                      /\ worker'[v].state # "none" => worker'[v].fd # NoFd
    OBVIOUS
  <2>1. worker'[v].fd = worker[v].fd /\ (worker'[v].state # "none" => worker[v].state # "none" \/ v = n)
    BY <1>1, <1>3
  <2> QED BY <1>2, <1>a, <2>1 DEF OwnInv
<1>8. \A v \in Worker : server' # "closed" /\ (worker'[v].state \in {"starting", "serving"} \/ Growing(v)') => worker'[v].fd \in held'
  <2> SUFFICES ASSUME NEW v \in Worker, server' # "closed", worker'[v].state \in {"starting", "serving"} \/ Growing(v)'
               PROVE  worker'[v].fd \in held'
    OBVIOUS
  <2>1. CASE v = n
    BY <1>3, <1>6, <1>a, <2>1
  <2>2. CASE v # n
    <3>1. worker'[v].fd = worker[v].fd /\ (worker[v].state \in {"starting", "serving"} \/ Growing(v))
      BY <1>1, <1>3, <2>2 DEF Growing
    <3> QED BY <1>a, <3>1 DEF OwnInv
  <2> QED BY <2>1, <2>2
<1>9. \A v \in Worker :
        /\ server' # "closed" /\ worker'[v].state = "added" => worker'[worker'[v].next].fd \in held'
        /\ worker'[v].state = "bound" => worker'[worker'[v].next].fd \in DOMAIN open' \ held'
  <2> SUFFICES ASSUME NEW v \in Worker
               PROVE  /\ server' # "closed" /\ worker'[v].state = "added" => worker'[worker'[v].next].fd \in held'
                      /\ worker'[v].state = "bound" => worker'[worker'[v].next].fd \in DOMAIN open' \ held'
    OBVIOUS
  <2>1. CASE v \in {w, n}
    BY <1>3, <2>1
  <2>2. CASE v \notin {w, n}
    <3>1. worker'[v] = worker[v]
      BY <1>3, <2>2
    <3>2. worker[v].state \in {"bound", "added"} => worker'[worker'[v].next].fd = worker[worker[v].next].fd
      BY <1>4, <2>2
    <3> QED BY <1>a, <3>1, <3>2 DEF OwnInv
  <2> QED BY <2>1, <2>2
<1>10. \A u, v \in Worker : worker'[u].fd = worker'[v].fd /\ worker'[u].fd # NoFd => u = v
  <2>1. \A v \in Worker : worker'[v].fd = worker[v].fd
    BY <1>3
  <2> QED BY <2>1 DEF OwnInv
<1>11. \A g \in DOMAIN open' \ held' :
         \E v \in Worker : worker'[v].state = "bound" /\ worker'[worker'[v].next].fd = g
  <2> SUFFICES ASSUME NEW g \in DOMAIN open \ held
               PROVE  \E v \in Worker : worker'[v].state = "bound" /\ worker'[worker'[v].next].fd = g
    BY <1>1
  <2>1. PICK v \in Worker : worker[v].state = "bound" /\ worker[worker[v].next].fd = g
    BY DEF OwnInv
  <2>2. v # w
    BY <1>1, <2>1
  <2> QED BY <1>4, <2>1, <2>2
<1>12. DOMAIN open' \subseteq Fd /\ held' \subseteq DOMAIN open' /\ ~ misclosed'
  BY <1>1 DEF OwnInv
<1> QED BY <1>7, <1>8, <1>9, <1>10, <1>11, <1>12 DEF OwnInv

\* A thread that goes back to be idle closes its listener, unless mux-close! has.
LEMMA ListenerClosed ==
  ASSUME OwnInv, NEW x \in Worker, fdset_remove_and_close(worker[x].fd, x), server' = server,
         worker[x].fd # NoFd, worker[x].state # "bound",
         worker'[x].state = "none", worker'[x].fd = NoFd,
         \A v \in Worker \ {x} :
           /\ worker'[v].fd = worker[v].fd
           /\ \/ worker'[v].state = worker[v].state
              \/ worker[v].state = "added" /\ worker'[v].state = "rollback"
           /\ worker'[v].state \in {"bound", "added"} =>
                worker'[v].next = worker[v].next /\ worker[v].next \in Worker \ {x}
  PROVE  OwnInv'
<1> DEFINE f == worker[x].fd
           D == {f} \cap held
<1>1. \A v \in Worker \ {x} : worker[v].fd # f
  BY DEF OwnInv
<1>2. /\ DOMAIN open' = DOMAIN open \ D /\ (\A g \in DOMAIN open' : open'[g] = open[g])
      /\ held' = held \ {f} /\ closed' = closed \cup D /\ ~ misclosed'
  <2>1. CASE f \in held
    <3>1. f \in DOMAIN open /\ open[f] = x /\ ~ misclosed
      BY <2>1 DEF OwnInv
    <3>2. held' = held \ {f} /\ CloseFd(f, x)
      BY <2>1 DEF fdset_remove_and_close
    <3>3. /\ open' = [g \in DOMAIN open \ {f} |-> open[g]] /\ closed' = closed \cup {f}
          /\ misclosed' = (misclosed \/ f \notin DOMAIN open \/ (f \in DOMAIN open /\ open[f] # x))
      BY <3>2 DEF CloseFd, Closing
    <3>4. ~ misclosed'
      BY <3>1, <3>3
    <3>5. DOMAIN open' = DOMAIN open \ {f} /\ (\A g \in DOMAIN open' : open'[g] = open[g])
      BY <3>3
    <3>6. D = {f}
      BY <2>1
    <3> HIDE DEF f, D
    <3> QED BY <3>2, <3>3, <3>4, <3>5, <3>6
  <2>2. CASE f \notin held
    <3>1. UNCHANGED <<held, open, closed, misclosed>> /\ ~ misclosed /\ D = {} /\ held \ {f} = held
      BY <2>2 DEF fdset_remove_and_close, OwnInv
    <3> HIDE DEF f, D
    <3> QED BY <3>1
  <2> QED BY <2>1, <2>2
<1>3. \A g \in held : g # f => g \in held'
  BY <1>2
<1>4. \A g \in DOMAIN open : g # f => g \in DOMAIN open'
  BY <1>2
<1> HIDE DEF f, D
<1>5. \A v \in Worker : server # "closed" /\ worker[v].fd # NoFd => worker[v].fd \in DOMAIN open
  BY DEF OwnInv
<1>6. \A v \in Worker :
        /\ worker'[v].fd # NoFd => worker'[v].fd \in DOMAIN open' \cup (IF server' = "closed" THEN closed' ELSE {})
        /\ worker'[v].fd \in DOMAIN open' => open'[worker'[v].fd] = v
        /\ worker'[v].state # "none" => worker'[v].fd # NoFd
  <2> SUFFICES ASSUME NEW v \in Worker
               PROVE  /\ worker'[v].fd # NoFd => worker'[v].fd \in DOMAIN open' \cup (IF server' = "closed" THEN closed' ELSE {})
                      /\ worker'[v].fd \in DOMAIN open' => open'[worker'[v].fd] = v
                      /\ worker'[v].state # "none" => worker'[v].fd # NoFd
    OBVIOUS
  <2>1. CASE v = x
    <3>1. NoFd \notin DOMAIN open'
      BY <1>2, ThreadAssumption DEF OwnInv, NoFd
    <3> QED BY <2>1, <3>1
  <2>2. CASE v # x
    <3>1. worker'[v].fd = worker[v].fd /\ worker[v].fd # f /\ (worker'[v].state # "none" => worker[v].state # "none")
      BY <1>1, <2>2
    <3>2. worker[v].fd # NoFd => worker[v].fd \in DOMAIN open \cup (IF server = "closed" THEN closed ELSE {})
      BY DEF OwnInv
    <3>3. worker[v].fd # NoFd => worker[v].fd \in DOMAIN open' \cup (IF server' = "closed" THEN closed' ELSE {})
      BY <1>2, <1>4, <3>1, <3>2
    <3>4. worker[v].fd \in DOMAIN open' => worker[v].fd \in DOMAIN open
      BY <1>2
    <3> QED BY <1>2, <3>1, <3>3, <3>4 DEF OwnInv
  <2> QED BY <2>1, <2>2
<1>7. \A v \in Worker : server' # "closed" /\ (worker'[v].state \in {"starting", "serving"} \/ Growing(v)') => worker'[v].fd \in held'
  <2> SUFFICES ASSUME NEW v \in Worker, server # "closed", worker'[v].state \in {"starting", "serving"} \/ Growing(v)'
               PROVE  worker'[v].fd \in held'
    OBVIOUS
  <2>1. v # x
    BY DEF Growing
  <2>2. worker[v].state \in {"starting", "serving"} \/ Growing(v)
    BY <2>1 DEF Growing
  <2>3. worker[v].fd \in held
    BY <2>2 DEF OwnInv
  <2> QED BY <1>1, <1>3, <2>1, <2>3
<1>8. \A v \in Worker \ {x} : worker'[v].state \in {"bound", "added"} =>
        /\ worker[v].state = worker'[v].state
        /\ worker'[worker'[v].next].fd = worker[worker[v].next].fd /\ worker[worker[v].next].fd # f
  BY <1>1
<1>9. \A v \in Worker :
        /\ server' # "closed" /\ worker'[v].state = "added" => worker'[worker'[v].next].fd \in held'
        /\ worker'[v].state = "bound" => worker'[worker'[v].next].fd \in DOMAIN open' \ held'
  <2> SUFFICES ASSUME NEW v \in Worker \ {x}, worker'[v].state \in {"bound", "added"}
               PROVE  /\ server' # "closed" /\ worker'[v].state = "added" => worker'[worker'[v].next].fd \in held'
                      /\ worker'[v].state = "bound" => worker'[worker'[v].next].fd \in DOMAIN open' \ held'
    OBVIOUS
  <2>1. /\ worker[v].state = worker'[v].state
        /\ worker'[worker'[v].next].fd = worker[worker[v].next].fd /\ worker[worker[v].next].fd # f
    BY <1>8
  <2>2. /\ server # "closed" /\ worker[v].state = "added" => worker[worker[v].next].fd \in held
        /\ worker[v].state = "bound" => worker[worker[v].next].fd \in DOMAIN open \ held
    BY DEF OwnInv
  <2> QED BY <1>2, <1>3, <1>4, <2>1, <2>2
<1>10. \A u, v \in Worker : worker'[u].fd = worker'[v].fd /\ worker'[u].fd # NoFd => u = v
  <2> SUFFICES ASSUME NEW u \in Worker \ {x}, NEW v \in Worker \ {x},
                      worker'[u].fd = worker'[v].fd, worker'[u].fd # NoFd
               PROVE  u = v
    OBVIOUS
  <2> QED BY DEF OwnInv
<1>11. \A g \in DOMAIN open' \ held' :
         \E v \in Worker : worker'[v].state = "bound" /\ worker'[worker'[v].next].fd = g
  <2> SUFFICES ASSUME NEW g \in DOMAIN open' \ held'
               PROVE  \E v \in Worker : worker'[v].state = "bound" /\ worker'[worker'[v].next].fd = g
    OBVIOUS
  <2>1. g \in DOMAIN open \ held
    BY <1>2 DEF D
  <2>2. PICK v \in Worker : worker[v].state = "bound" /\ worker[worker[v].next].fd = g
    BY <2>1 DEF OwnInv
  <2>3. v # x /\ worker'[v].state = "bound"
    BY <2>2
  <2> QED BY <1>8, <2>2, <2>3
<1>12. DOMAIN open' \subseteq Fd /\ held' \subseteq DOMAIN open' /\ ~ misclosed'
  BY <1>2 DEF OwnInv, D
<1> QED BY <1>6, <1>7, <1>9, <1>10, <1>11, <1>12 DEF OwnInv

LEMMA LeaveCloses ==
  ASSUME BooksInv, OwnInv, NEW w \in Worker, Leave(w)
  PROVE  OwnInv'
<1>1. /\ worker[w].state = "leaving" /\ server' = server /\ fdset_remove_and_close(worker[w].fd, w)
      /\ worker' = [worker EXCEPT ![w] =
           [state |-> "none", permanent |-> FALSE, fd |-> NoFd, conns |-> 0, ticks |-> 0, next |-> NoFd]]
  BY DEF Leave, Idle
<1>2. /\ worker'[w].state = "none" /\ worker'[w].fd = NoFd
      /\ \A v \in Worker \ {w} : worker'[v] = worker[v]
  BY <1>1 DEF BooksInv, PoolType
<1>3. \A v \in Worker \ {w} : worker[v].state \in {"bound", "added"} => worker[v].next \in Worker \ {w}
  BY <1>1 DEF BooksInv, LinksInv
<1>4. worker[w].fd # NoFd
  BY <1>1 DEF OwnInv
<1>5. fdset_remove_and_close(worker[w].fd, w) /\ server' = server /\ worker[w].state = "leaving"
  BY <1>1
<1> QED BY <1>2, <1>3, <1>4, <1>5, ListenerClosed

LEMMA FailureCloses ==
  ASSUME BooksInv, OwnInv, NEW w \in Worker, ThreadFails(w)
  PROVE  OwnInv'
<1> DEFINE n == worker[w].next
<1>1. /\ worker[w].state = "added" /\ server' = server /\ fdset_remove_and_close(worker[n].fd, n)
      /\ worker' = [worker EXCEPT ![w].state = "rollback", ![w].next = NoFd, ![n] =
           [state |-> "none", permanent |-> FALSE, fd |-> NoFd, conns |-> 0, ticks |-> 0, next |-> NoFd]]
  BY DEF ThreadFails, Idle
<1>2. n \in Worker /\ worker[n].state = "none" /\ n # w /\ worker[n].fd # NoFd /\ n # NoFd
  BY <1>1, ThreadAssumption DEF BooksInv, LinksInv, NoFd
<1>3. /\ worker'[w].state = "rollback" /\ worker'[w].fd = worker[w].fd
      /\ worker'[n].state = "none" /\ worker'[n].fd = NoFd
      /\ \A v \in Worker \ {w, n} : worker'[v] = worker[v]
  BY <1>1, <1>2 DEF BooksInv, PoolType
<1>4. \A v \in Worker \ {w} : worker[v].state \in {"bound", "added"} => worker[v].next \in Worker \ {n}
  BY <1>2 DEF BooksInv, LinksInv
<1>5. fdset_remove_and_close(worker[n].fd, n) /\ server' = server /\ worker[w].state = "added"
  BY <1>1
<1> HIDE DEF n
<1>6. \A v \in Worker \ {n} :
        /\ worker'[v].fd = worker[v].fd
        /\ \/ worker'[v].state = worker[v].state
           \/ worker[v].state = "added" /\ worker'[v].state = "rollback"
        /\ worker'[v].state \in {"bound", "added"} =>
             worker'[v].next = worker[v].next /\ worker[v].next \in Worker \ {n}
  BY <1>3, <1>4, <1>5
<1> QED BY <1>2, <1>3, <1>5, <1>6, ListenerClosed

\* mux-close! closes the set, and nobody's listener but those in it.
LEMMA CloseCloses ==
  ASSUME OwnInv, bi_mux_close
  PROVE  OwnInv'
<1>1. /\ server' = "closed" /\ held' = {} /\ closed' = closed \cup held /\ UNCHANGED <<worker, misclosed>>
      /\ open' = [g \in DOMAIN open \ held |-> open[g]] /\ server # "closed"
  BY DEF bi_mux_close, Closing
<1>2. /\ DOMAIN open' = DOMAIN open \ held /\ \A g \in DOMAIN open' : open'[g] = open[g]
      /\ server' = "closed" /\ held' = {} /\ closed' = closed \cup held /\ UNCHANGED <<worker, misclosed>>
  BY <1>1
<1>3. \A v \in Worker : worker[v].fd # NoFd => worker[v].fd \in DOMAIN open
  BY <1>1 DEF OwnInv
<1>4. \A v \in Worker :
        /\ worker'[v].fd # NoFd => worker'[v].fd \in DOMAIN open' \cup (IF server' = "closed" THEN closed' ELSE {})
        /\ worker'[v].fd \in DOMAIN open' => open'[worker'[v].fd] = v
        /\ worker'[v].state # "none" => worker'[v].fd # NoFd
        /\ worker'[v].state = "bound" => worker'[worker'[v].next].fd \in DOMAIN open' \ held'
  BY <1>2, <1>3 DEF OwnInv
<1>5. \A g \in DOMAIN open' \ held' :
         \E v \in Worker : worker'[v].state = "bound" /\ worker'[worker'[v].next].fd = g
  BY <1>2 DEF OwnInv
<1>6. \A u, v \in Worker : worker'[u].fd = worker'[v].fd /\ worker'[u].fd # NoFd => u = v
  BY <1>2 DEF OwnInv
<1>7. DOMAIN open' \subseteq Fd /\ held' \subseteq DOMAIN open' /\ ~ misclosed'
  BY <1>2 DEF OwnInv
<1> QED BY <1>2, <1>4, <1>5, <1>6, <1>7 DEF OwnInv

LEMMA InitOwn ==
  ASSUME PoolInit
  PROVE  OwnInv
<1>1. /\ worker = [w \in Worker |->
           [state |-> "none", permanent |-> FALSE, fd |-> NoFd, conns |-> 0, ticks |-> 0, next |-> NoFd]]
      /\ held = {} /\ ~ misclosed /\ server = "new"
  BY DEF PoolInit, Idle
<1>2. DOMAIN open = {}
  <2>1. open = <<>>
    BY DEF PoolInit
  <2> QED BY <2>1
<1>3. \A w \in Worker : worker[w].state = "none" /\ worker[w].fd = NoFd
  BY <1>1
<1> QED BY <1>1, <1>2, <1>3 DEF OwnInv, Growing

\* Until mux-close!, and after it as long as no number is reused.
OwnWhenDistinct == Distinct => OwnInv

LEMMA OwnKept ==
  ASSUME BooksInv, OwnWhenDistinct, [PoolNext]_poolVars
  PROVE  OwnWhenDistinct'
<1> SUFFICES ASSUME Distinct' PROVE OwnInv'
  BY DEF OwnWhenDistinct
<1>1. server = "closed" => server' = "closed"
  <2>1. CASE UNCHANGED poolVars
    BY <2>1 DEF poolVars
  <2>2. CASE bi_mux_close \/ ListenFails \/ StartMain
    BY <2>2 DEF bi_mux_close, ListenFails, StartMain
  <2>3. ASSUME NEW w \in Worker, WorkerStep(w) PROVE server' = server
    BY <2>3 DEF WorkerStep, Rollback, AddListener, pool_worker_thread_main, Turn, Leave, bind_listener
  <2>4. ASSUME NEW w \in Worker, Accept(w) \/ Disconnect(w) \/ BindFails(w) \/ ThreadFails(w) \/ PollFails(w)
        PROVE  server' = server
    BY <2>4 DEF Accept, Disconnect, BindFails, ThreadFails, PollFails
  <2>5. ASSUME NEW w \in Worker, NEW f \in Fd, bi_mux_listen(w, f) \/ StartPermanent(w, f)
        PROVE  server = "closed" => server' = "closed"
    BY <2>5 DEF bi_mux_listen, StartPermanent
  <2> QED BY <2>1, <2>2, <2>3, <2>4, <2>5 DEF PoolNext
<1>2. Distinct /\ OwnInv
  BY <1>1 DEF Distinct, OwnWhenDistinct
<1>3. CASE UNCHANGED poolVars
  BY <1>2, <1>3, SameListeners DEF poolVars, BooksInv, Growing
<1>4. CASE bi_mux_close
  BY <1>2, <1>4, CloseCloses
<1>5. CASE StartMain \/ ListenFails
  BY <1>2, <1>5, ListenersKept
<1>6. ASSUME NEW w \in Worker, NEW f \in Fd, bi_mux_listen(w, f) \/ StartPermanent(w, f)
      PROVE  OwnInv'
  BY <1>2, <1>6, ListenerGiven
<1>7. ASSUME NEW w \in Worker, NEW n \in Worker, NEW f \in Fd, bind_listener(w, n, f)
      PROVE  OwnInv'
  BY <1>2, <1>7, ListenerBound
<1>8. ASSUME NEW w \in Worker, AddListener(w) \/ pool_worker_thread_main(w) \/ ThreadFails(w) \/ Leave(w)
      PROVE  OwnInv'
  BY <1>2, <1>8, ListenerAdded, ListenerServed, FailureCloses, LeaveCloses
<1>9. ASSUME NEW w \in Worker, \/ Rollback(w) \/ BindFails(w) \/ Turn(w)
                               \/ PollFails(w) \/ Accept(w) \/ Disconnect(w)
      PROVE  OwnInv'
  BY <1>2, <1>9, ListenersKept
<1> QED BY <1>3, <1>4, <1>5, <1>6, <1>7, <1>8, <1>9 DEF PoolNext, WorkerStep

LEMMA OwnIsOwn ==
  ASSUME OwnInv
  PROVE  OwnListener
<1>1. \A w \in Worker : server # "closed" /\ (worker[w].state \in {"starting", "serving"} \/ Growing(w)) =>
        worker[w].fd \in held /\ open[worker[w].fd] = w
  BY DEF OwnInv
<1> QED BY <1>1 DEF OwnInv, OwnListener

LEMMA PoolInduction ==
  PoolSpec => [](BooksInv /\ OwnWhenDistinct)
<1>1. PoolInit => BooksInv /\ OwnWhenDistinct
  BY InitBooks, InitOwn DEF OwnWhenDistinct
<1>2. (BooksInv /\ OwnWhenDistinct) /\ [PoolNext]_poolVars => (BooksInv /\ OwnWhenDistinct)'
  BY BooksKept, OwnKept
<1> QED BY <1>1, <1>2, PTL DEF PoolSpec

\* Until mux-close!, whether or not closed descriptor numbers are given out again:
\* every worker that serves has its own listener open and in the set, whatever
\* bind, thread or poll failed before, and a listener was only closed by its worker.
THEOREM ListenersUntilClose == PoolSpec => [](server # "closed" => OwnListener)
<1>1. BooksInv /\ OwnWhenDistinct => (server # "closed" => OwnListener)
  BY OwnIsOwn DEF OwnWhenDistinct, Distinct
<1> QED BY <1>1, PoolInduction, PTL

\* The pool keeps its books for any number of threads and any limits, also after
\* mux-close!, if no number it has closed is given out again: a worker that leaves
\* late closes its listener if and only if mux-close! has not.
THEOREM PoolKeepsOrder ==
  ASSUME ~ FdsReused
  PROVE  PoolSpec => []PoolInOrder
<1>1. BooksInv /\ OwnWhenDistinct => PoolInOrder
  BY BooksBound, OwnIsOwn DEF OwnWhenDistinct, Distinct, PoolInOrder, BooksInv, PlacesInv
<1> QED BY <1>1, PoolInduction, PTL

(***************************************************************************)
(* One loop of the multiplexer, and its poll set.                          *)
(***************************************************************************)
MuxSpec == MuxInit /\ [][MuxNext]_muxVars

PollSlot == [conn : MConn, ready : BOOLEAN]

IsConn(c) ==
  DOMAIN c = {"open", "buf", "cap", "dangling", "phase", "header_len", "content_length", "chunked",
              "keep_alive", "chunk_body", "decoder", "req"}

\* Connections that are accepted and not closed have one slot each; those that wait
\* for accept are not open, and were not before.
PollInv ==
  /\ DOMAIN conn = MConn /\ DOMAIN script = MConn
  /\ \A c \in MConn : IsConn(conn[c]) /\ conn[c].open \in BOOLEAN
  /\ backlog \in Seq(MConn) /\ \A i, j \in 1 .. Len(backlog) : backlog[i] = backlog[j] => i = j
  /\ slots \in Seq(PollSlot) /\ \A i, j \in 1 .. Len(slots) : slots[i].conn = slots[j].conn => i = j
  /\ pass \in 0 .. Len(slots)
  /\ \A c \in MConn : conn[c].open <=> \E i \in 1 .. Len(slots) : slots[i].conn = c
  /\ \A c \in MConn : conn[c].open => script[c] # <<>>
  /\ \A i \in 1 .. Len(backlog) : ~ conn[backlog[i]].open /\ script[backlog[i]] # <<>>

LEMMA SetField ==
  ASSUME NEW c, IsConn(c), NEW f \in DOMAIN c, NEW x
  PROVE  IsConn([c EXCEPT ![f] = x])
BY DEF IsConn

LEMMA NewIsConn ==
  /\ IsConn(NewConn) /\ NewConn.open = TRUE
  /\ IsConn([NewConn EXCEPT !.open = FALSE]) /\ [NewConn EXCEPT !.open = FALSE].open = FALSE
BY DEF NewConn, IsConn

\* What the handler makes of a Conn is one.
LEMMA TakeIsConn ==
  ASSUME NEW c, IsConn(c), NEW pret
  PROVE  IsConn(TakeHeaders(c, pret))
BY DEF TakeHeaders, IsConn

LEMMA BodyIsConn ==
  ASSUME NEW c, IsConn(c)
  PROVE  IsConn(AdvanceBody(c).c)
BY DEF AdvanceBody, Advanced, conn_error_response, IsConn

LEMMA AdvanceIsConn ==
  ASSUME NEW c, IsConn(c)
  PROVE  IsConn(conn_advance(c).c)
<1> DEFINE t == TakeHeaders(c, phr_parse_request(c.buf))
<1>1. IsConn(t)
  BY TakeIsConn
<1>2. IsConn(AdvanceBody(c).c) /\ IsConn(AdvanceBody(t).c)
  BY <1>1, BodyIsConn
<1> HIDE DEF t
<1> QED BY <1>1, <1>2 DEF conn_advance, Advanced, conn_error_response, t

LEMMA ReadIsConn ==
  ASSUME NEW c, IsConn(c), NEW bytes
  PROVE  IsConn(conn_read_into(c, bytes))
BY DEF conn_read_into, sdscatlen, IsConn

Watched(s, c) == \E k \in 1 .. Len(s) : s[k].conn = c
OneEach(s) == \A i, j \in 1 .. Len(s) : s[i].conn = s[j].conn => i = j

\* The last slot takes the place of the one that goes.
LEMMA RemoveSlot ==
  ASSUME NEW s \in Seq(PollSlot), OneEach(s), NEW i \in 1 .. Len(s)
  PROVE  LET w == slots_remove(s, i) IN
         /\ w \in Seq(PollSlot) /\ Len(w) = Len(s) - 1 /\ OneEach(w)
         /\ \A c : Watched(w, c) <=> Watched(s, c) /\ c # s[i].conn
<1> DEFINE n == Len(s)
           u == [s EXCEPT ![i] = s[n]]
           w == SubSeq(u, 1, n - 1)
<1>1. n \in Nat /\ n \in 1 .. n /\ n - 1 \in Nat /\ i \in Nat /\ 1 <= i /\ i <= n
  BY LenProperties
<1>2. u \in Seq(PollSlot) /\ Len(u) = n /\ \A k \in 1 .. n : u[k] = IF k = i THEN s[n] ELSE s[k]
  <2>1. s[n] \in PollSlot
    BY <1>1, ElementOfSeq
  <2> QED BY <1>1, <2>1, ExceptSeq
<1> HIDE DEF u
<1>3. w \in Seq(PollSlot) /\ Len(w) = n - 1 /\ \A k \in 1 .. n - 1 : w[k] = u[k]
  <2>1. \A k \in 1 .. n - 1 : k \in 1 .. n
    BY <1>1
  <2>2. w \in Seq(PollSlot) /\ Len(w) = n - 1
    BY <1>1, <1>2, SubSeqProperties
  <2>3. \A k \in 1 .. n - 1 : w[k] = u[k]
    BY <1>1, <1>2, SubSeqProperties
  <2> QED BY <2>2, <2>3
<1>4. slots_remove(s, i) = w
  BY <1>2 DEF slots_remove, Front, u
<1> HIDE DEF w, n
<1>5. \A k \in 1 .. n - 1 : k \in 1 .. n /\ k # n /\ w[k] = IF k = i THEN s[n] ELSE s[k]
  BY <1>1, <1>2, <1>3
<1>6. OneEach(w)
  <2> SUFFICES ASSUME NEW k \in 1 .. n - 1, NEW l \in 1 .. n - 1, w[k].conn = w[l].conn PROVE k = l
    BY <1>3 DEF OneEach
  <2>1. k \in 1 .. n /\ l \in 1 .. n /\ n \in 1 .. n /\ k # n /\ l # n
    BY <1>1, <1>5
  <2> QED BY <1>5, <2>1 DEF OneEach, n
<1>7. ASSUME NEW c PROVE Watched(w, c) <=> Watched(s, c) /\ c # s[i].conn
  <2>1. ASSUME NEW k \in 1 .. n - 1, w[k].conn = c PROVE Watched(s, c) /\ c # s[i].conn
    <3>1. k \in 1 .. n /\ n \in 1 .. n /\ k # n
      BY <1>1, <1>5
    <3>2. CASE k = i
      <4>1. c = s[n].conn
        BY <1>5, <2>1, <3>2
      <4> QED BY <3>1, <3>2, <4>1 DEF Watched, OneEach, n
    <3>3. CASE k # i
      <4>1. c = s[k].conn
        BY <1>5, <2>1, <3>3
      <4> QED BY <3>1, <3>3, <4>1 DEF Watched, OneEach, n
    <3> QED BY <3>2, <3>3
  <2>2. ASSUME NEW k \in 1 .. n, s[k].conn = c, c # s[i].conn PROVE \E l \in 1 .. n - 1 : w[l].conn = c
    <3>1. CASE k = n
      <4>1. i # n
        BY <2>2, <3>1
      <4>2. i \in 1 .. n - 1
        BY <1>1, <4>1
      <4>3. w[i].conn = c
        BY <1>5, <2>2, <3>1, <4>2
      <4> QED BY <4>2, <4>3
    <3>2. CASE k # n
      <4>1. k \in 1 .. n - 1
        BY <1>1, <3>2
      <4>2. w[k].conn = c
        BY <1>5, <2>2, <4>1
      <4> QED BY <4>1, <4>2
    <3> QED BY <3>1, <3>2
  <2> QED BY <1>3, <2>1, <2>2 DEF Watched, n
<1> QED BY <1>3, <1>4, <1>6, <1>7 DEF n

\* The slots of the connections that were waiting come after the others.
LEMMA AddSlots ==
  ASSUME NEW s \in Seq(PollSlot), NEW q \in Seq(MConn), OneEach(s),
         \A i, j \in 1 .. Len(q) : q[i] = q[j] => i = j,
         \A i \in 1 .. Len(q) : ~ Watched(s, q[i])
  PROVE  LET w == slots_add(s, q) IN
         /\ w \in Seq(PollSlot) /\ OneEach(w) /\ Len(w) = Len(s) + Len(q)
         /\ \A c : Watched(w, c) <=> Watched(s, c) \/ \E i \in 1 .. Len(q) : q[i] = c
<1> DEFINE r == [i \in DOMAIN q |-> [conn |-> q[i], ready |-> FALSE]]
           w == s \o r
           m == Len(s)
           n == Len(q)
<1>1. m \in Nat /\ n \in Nat /\ DOMAIN q = 1 .. n
  BY LenProperties
<1>2. \A i \in 1 .. n : [conn |-> q[i], ready |-> FALSE] \in PollSlot
  <2>1. \A i \in 1 .. n : q[i] \in MConn
    BY ElementOfSeq
  <2> QED BY <2>1 DEF PollSlot
<1>3. r \in Seq(PollSlot) /\ Len(r) = n /\ \A i \in 1 .. n : r[i].conn = q[i]
  <2>1. r = [i \in 1 .. n |-> [conn |-> q[i], ready |-> FALSE]]
    BY <1>1
  <2>2. r \in Seq(PollSlot) /\ Len(r) = n
    BY <1>1, <1>2, <2>1, IsASeq
  <2> QED BY <2>1, <2>2
<1> HIDE DEF r
<1>4. /\ w \in Seq(PollSlot) /\ Len(w) = m + n
      /\ \A k \in 1 .. m + n : w[k] = IF k <= m THEN s[k] ELSE r[k - m]
  <2>1. /\ s \o r \in Seq(PollSlot) /\ Len(s \o r) = Len(s) + Len(r)
        /\ \A k \in 1 .. Len(s) + Len(r) : (s \o r)[k] = IF k <= Len(s) THEN s[k] ELSE r[k - Len(s)]
    BY <1>3, ConcatProperties
  <2> QED BY <1>3, <2>1
<1>5. w = slots_add(s, q)
  BY DEF slots_add, r
<1> HIDE DEF w, m, n
<1>6. \A k \in 1 .. m + n : \/ k \in 1 .. m /\ w[k] = s[k]
                            \/ k \notin 1 .. m /\ k - m \in 1 .. n /\ w[k].conn = q[k - m]
  BY <1>1, <1>3, <1>4
<1>7. OneEach(w)
  <2> SUFFICES ASSUME NEW k \in 1 .. m + n, NEW l \in 1 .. m + n, w[k].conn = w[l].conn PROVE k = l
    BY <1>4 DEF OneEach
  <2>1. CASE k \in 1 .. m /\ l \in 1 .. m
    BY <1>6, <2>1 DEF OneEach, m
  <2>2. CASE k \in 1 .. m /\ l \notin 1 .. m
    <3>1. w[k] = s[k] /\ l - m \in 1 .. n /\ w[l].conn = q[l - m]
      BY <1>6, <2>2
    <3> QED BY <2>2, <3>1 DEF Watched, m, n
  <2>3. CASE k \notin 1 .. m /\ l \in 1 .. m
    <3>1. w[l] = s[l] /\ k - m \in 1 .. n /\ w[k].conn = q[k - m]
      BY <1>6, <2>3
    <3> QED BY <2>3, <3>1 DEF Watched, m, n
  <2>4. CASE k \notin 1 .. m /\ l \notin 1 .. m
    <3>1. k - m \in 1 .. n /\ l - m \in 1 .. n /\ q[k - m] = q[l - m]
      BY <1>6, <2>4
    <3>2. k - m = l - m
      BY <3>1 DEF n
    <3> QED BY <1>1, <3>2
  <2> QED BY <2>1, <2>2, <2>3, <2>4
<1>8. ASSUME NEW c PROVE Watched(w, c) <=> Watched(s, c) \/ \E i \in 1 .. n : q[i] = c
  <2>1. ASSUME NEW k \in 1 .. m + n, w[k].conn = c PROVE Watched(s, c) \/ \E i \in 1 .. n : q[i] = c
    BY <1>6, <2>1 DEF Watched, m
  <2>2. ASSUME NEW k \in 1 .. m, s[k].conn = c PROVE \E l \in 1 .. m + n : w[l].conn = c
    <3>1. k \in 1 .. m + n /\ w[k] = s[k]
      BY <1>1, <1>4, SMTT(60)
    <3> QED BY <2>2, <3>1
  <2>3. ASSUME NEW i \in 1 .. n, q[i] = c PROVE \E l \in 1 .. m + n : w[l].conn = c
    <3>1. m + i \in 1 .. m + n /\ ~ (m + i <= m) /\ (m + i) - m = i
      BY <1>1
    <3>2. w[m + i] = r[i]
      BY <1>4, <3>1
    <3> QED BY <1>3, <2>3, <3>1, <3>2
  <2> QED BY <1>4, <2>1, <2>2, <2>3 DEF Watched, m
<1> QED BY <1>4, <1>5, <1>7, <1>8 DEF m, n

LEMMA PollStart ==
  ASSUME MuxInit
  PROVE  PollInv
<1>1. /\ DOMAIN conn = MConn /\ DOMAIN script = MConn /\ slots = <<>> /\ backlog = <<>> /\ pass = 0
      /\ \A c \in MConn : conn[c] = [NewConn EXCEPT !.open = FALSE]
  BY DEF MuxInit
<1>2. slots \in Seq(PollSlot) /\ backlog \in Seq(MConn) /\ Len(slots) = 0 /\ Len(backlog) = 0
  BY <1>1
<1>3. \A c \in MConn : IsConn(conn[c]) /\ conn[c].open = FALSE
  BY <1>1, NewIsConn
<1>4. 1 .. Len(slots) = {} /\ 1 .. Len(backlog) = {} /\ pass \in 0 .. Len(slots)
  BY <1>1, <1>2
<1> QED BY <1>1, <1>2, <1>3, <1>4 DEF PollInv

\* poll and accept: who waited is open now, and has a slot.
LEMMA PollsAndAccepts ==
  ASSUME PollInv, PollAndAccept
  PROVE  PollInv'
<1> DEFINE r == [i \in DOMAIN slots |-> [slots[i] EXCEPT !.ready = Readable(slots[i].conn)]]
           n == Len(slots)
<1>1. /\ slots' = slots_add(r, backlog) /\ backlog' = <<>> /\ pass' = Len(slots') /\ script' = script
      /\ conn' = [c \in MConn |-> IF Contains(backlog, c) THEN NewConn ELSE conn[c]]
  BY DEF PollAndAccept
<1>2. n \in Nat /\ DOMAIN slots = 1 .. n /\ slots \in Seq(PollSlot) /\ backlog \in Seq(MConn)
  BY LenProperties DEF PollInv
<1>3. r \in Seq(PollSlot) /\ Len(r) = n /\ \A i \in 1 .. n : r[i].conn = slots[i].conn
  <2>1. \A i \in 1 .. n : /\ [slots[i] EXCEPT !.ready = Readable(slots[i].conn)] \in PollSlot
                          /\ [slots[i] EXCEPT !.ready = Readable(slots[i].conn)].conn = slots[i].conn
    <3> SUFFICES ASSUME NEW i \in 1 .. n
                 PROVE  /\ [slots[i] EXCEPT !.ready = Readable(slots[i].conn)] \in PollSlot
                        /\ [slots[i] EXCEPT !.ready = Readable(slots[i].conn)].conn = slots[i].conn
      OBVIOUS
    <3>1. slots[i] \in PollSlot
      BY <1>2, ElementOfSeq
    <3>2. Readable(slots[i].conn) \in BOOLEAN
      BY DEF Readable
    <3> QED BY <3>1, <3>2 DEF PollSlot
  <2>2. r = [i \in 1 .. n |-> [slots[i] EXCEPT !.ready = Readable(slots[i].conn)]]
    BY <1>2
  <2>3. r \in Seq(PollSlot) /\ Len(r) = n
    BY <1>2, <2>1, <2>2, IsASeq
  <2> QED BY <2>1, <2>2, <2>3
<1> HIDE DEF r, n
<1>4. OneEach(r) /\ \A c : Watched(r, c) <=> Watched(slots, c)
  BY <1>2, <1>3 DEF PollInv, OneEach, Watched, n
<1>5. /\ \A i, j \in 1 .. Len(backlog) : backlog[i] = backlog[j] => i = j
      /\ \A i \in 1 .. Len(backlog) : backlog[i] \in MConn /\ ~ Watched(r, backlog[i]) /\ script[backlog[i]] # <<>>
  <2>1. \A i \in 1 .. Len(backlog) : backlog[i] \in MConn
    BY <1>2, ElementOfSeq
  <2> QED BY <1>4, <2>1 DEF PollInv, Watched
<1>6. /\ slots' \in Seq(PollSlot) /\ OneEach(slots')
      /\ \A c : Watched(slots', c) <=> Watched(r, c) \/ \E i \in 1 .. Len(backlog) : backlog[i] = c
  <2> DEFINE w == slots_add(r, backlog)
  <2>1. \A i \in 1 .. Len(backlog) : ~ Watched(r, backlog[i])
    BY <1>5
  <2>2. \A i, j \in 1 .. Len(backlog) : backlog[i] = backlog[j] => i = j
    BY <1>5
  <2>3. /\ w \in Seq(PollSlot) /\ OneEach(w)
        /\ \A c : Watched(w, c) <=> Watched(r, c) \/ \E i \in 1 .. Len(backlog) : backlog[i] = c
    BY <1>2, <1>3, <1>4, <2>1, <2>2, AddSlots
  <2> HIDE DEF w
  <2> QED BY <1>1, <2>3 DEF w
<1>7. \A c : Contains(backlog, c) <=> \E i \in 1 .. Len(backlog) : backlog[i] = c
  BY <1>2, LenProperties DEF Contains
<1>8. /\ DOMAIN conn' = MConn
      /\ \A c \in MConn : IsConn(conn'[c]) /\ conn'[c].open \in BOOLEAN /\ (conn'[c].open <=> Contains(backlog, c) \/ conn[c].open)
  BY <1>1, NewIsConn DEF PollInv
<1>9. \A c \in MConn : conn'[c].open <=> Watched(slots', c)
  BY <1>4, <1>6, <1>7, <1>8 DEF PollInv, Watched
<1>10. \A c \in MConn : conn'[c].open => script'[c] # <<>>
  BY <1>1, <1>5, <1>7, <1>8 DEF PollInv
<1>11. pass' \in 0 .. Len(slots')
  <2>1. Len(slots') \in Nat
    BY <1>6, LenProperties
  <2> QED BY <1>1, <2>1
<1>12. backlog' \in Seq(MConn) /\ Len(backlog') = 0
  BY <1>1
<1> QED BY <1>1, <1>6, <1>8, <1>9, <1>10, <1>11, <1>12 DEF PollInv, OneEach, Watched

\* What reading from the current connection does to the poll set.
LEMMA ServesOne ==
  ASSUME PollInv, pass > 0, NEW c, IsConn(c), NEW drop \in BOOLEAN,
         conn' = [conn EXCEPT ![Current] = c], c.open = ~drop,
         slots' = IF drop THEN slots_remove(slots, pass) ELSE slots,
         pass' = pass - 1 \/ (pass' = pass /\ ~drop),
         UNCHANGED <<script, backlog>>
  PROVE  PollInv'
<1> DEFINE n == Len(slots)
           e == Current
<1>1. n \in Nat /\ pass \in 1 .. n /\ pass \in Nat /\ slots \in Seq(PollSlot) /\ backlog \in Seq(MConn) /\ OneEach(slots)
      /\ DOMAIN conn = MConn
  BY LenProperties DEF PollInv, OneEach
<1>2. e \in MConn /\ e = slots[pass].conn /\ Watched(slots, e)
  <2>1. slots[pass] \in PollSlot
    BY <1>1, ElementOfSeq
  <2> QED BY <1>1, <2>1 DEF Current, PollSlot, Watched
<1>3. conn[e].open /\ script[e] # <<>>
  BY <1>2 DEF PollInv, Watched
<1> HIDE DEF e
<1>4. /\ DOMAIN conn' = MConn /\ conn'[e] = c /\ \A k \in MConn : k # e => conn'[k] = conn[k]
  BY <1>1, <1>2 DEF e
<1>5. /\ slots' \in Seq(PollSlot) /\ OneEach(slots') /\ Len(slots') = n - (IF drop THEN 1 ELSE 0)
      /\ \A k : Watched(slots', k) <=> Watched(slots, k) /\ (drop => k # e)
  <2>1. CASE drop
    BY <1>1, <1>2, <2>1, RemoveSlot
  <2>2. CASE ~drop
    BY <1>1, <2>2
  <2> QED BY <2>1, <2>2
<1>6. pass' \in 0 .. Len(slots')
  <2>1. CASE drop
    BY <1>1, <1>5, <2>1
  <2>2. CASE ~drop
    BY <1>1, <1>5, <2>2
  <2> QED BY <2>1, <2>2
<1>7. \A k \in MConn : IsConn(conn'[k]) /\ conn'[k].open \in BOOLEAN
  BY <1>4 DEF PollInv
<1>8. \A k \in MConn : conn'[k].open <=> Watched(slots', k)
  <2>1. \A k \in MConn : conn[k].open <=> Watched(slots, k)
    BY DEF PollInv, Watched
  <2> QED BY <1>2, <1>3, <1>4, <1>5, <2>1
<1>9. \A k \in MConn : conn'[k].open => script'[k] # <<>>
  BY <1>3, <1>4 DEF PollInv
<1>10. \A i \in 1 .. Len(backlog) : ~ conn'[backlog[i]].open /\ script[backlog[i]] # <<>>
  <2>1. \A i \in 1 .. Len(backlog) : backlog[i] \in MConn /\ backlog[i] # e
    <3>1. \A i \in 1 .. Len(backlog) : backlog[i] \in MConn
      BY <1>1, ElementOfSeq
    <3> QED BY <1>3, <3>1 DEF PollInv
  <2> QED BY <1>4, <2>1 DEF PollInv
<1> QED BY <1>1, <1>4, <1>5, <1>6, <1>7, <1>8, <1>9, <1>10 DEF PollInv, OneEach, Watched

LEMMA CurrentIsOpen ==
  ASSUME PollInv, pass > 0
  PROVE  Current \in MConn /\ IsConn(conn[Current]) /\ conn[Current].open
<1>1. pass \in 1 .. Len(slots) /\ slots \in Seq(PollSlot)
  BY LenProperties DEF PollInv
<1>2. slots[pass] \in PollSlot
  BY <1>1, ElementOfSeq
<1> QED BY <1>1, <1>2 DEF Current, PollSlot, PollInv

LEMMA PollStep ==
  ASSUME PollInv, [MuxNext]_muxVars
  PROVE  PollInv'
<1>1. CASE PollAndAccept
  BY <1>1, PollsAndAccepts
<1>2. CASE SkipSlot
  <2>1. UNCHANGED <<conn, script, slots, backlog>> /\ pass > 0 /\ pass' = pass - 1
    BY <1>2 DEF SkipSlot
  <2>2. pass \in Nat /\ pass <= Len(slots) /\ Len(slots) \in Nat
    BY LenProperties DEF PollInv
  <2>3. pass - 1 \in 0 .. Len(slots)
    BY <2>1, <2>2
  <2> QED BY <2>1, <2>3, SMTT(60) DEF PollInv
<1>3. CASE ReadNothing
  <2>1. pass > 0 /\ pass' = pass - 1 /\ UNCHANGED <<script, backlog>>
    BY <1>3 DEF ReadNothing
  <2>2. Current \in MConn /\ IsConn(conn[Current])
    BY <2>1, CurrentIsOpen
  <2>3. CASE Current \in hungUp
    <3> DEFINE c == [conn[Current] EXCEPT !.open = FALSE]
    <3>1. IsConn(c) /\ c.open = FALSE
      BY <2>2 DEF IsConn
    <3>2. conn' = [conn EXCEPT ![Current] = c] /\ slots' = slots_remove(slots, pass)
      BY <1>3, <2>3 DEF ReadNothing
    <3> HIDE DEF c
    <3> QED BY <2>1, <3>1, <3>2, ServesOne
  <2>4. CASE Current \notin hungUp
    <3>1. UNCHANGED <<conn, slots>>
      BY <1>3, <2>4 DEF ReadNothing
    <3>2. pass \in Nat /\ pass <= Len(slots) /\ Len(slots) \in Nat
      BY LenProperties DEF PollInv
    <3>3. pass - 1 \in 0 .. Len(slots)
      BY <2>1, <3>2
    <3> QED BY <2>1, <3>1, <3>3, SMTT(60) DEF PollInv
  <2> QED BY <2>3, <2>4
<1>4. CASE ReadMore
  <2> DEFINE adv == conn_advance(conn_read_into(conn[Current], Received(stream[Current])))
             done == [adv.c EXCEPT !.chunk_body = <<>>]
             drop == adv.r = -1 \/ (adv.r = 1 /\ ~adv.c.keep_alive)
             c == IF adv.r # 1 THEN adv.c
                  ELSE IF adv.c.keep_alive THEN conn_reset_for_next_request(done) ELSE done
             d == [c EXCEPT !.open = ~drop]
  <2>1. /\ pass > 0 /\ UNCHANGED <<script, backlog>>
        /\ conn' = [conn EXCEPT ![Current] = d] /\ slots' = IF drop THEN slots_remove(slots, pass) ELSE slots
        /\ pass' = IF adv.r = 0 THEN pass ELSE pass - 1
    BY <1>4 DEF ReadMore
  <2>2. Current \in MConn /\ IsConn(conn[Current])
    BY <2>1, CurrentIsOpen
  <2>3. IsConn(adv.c)
    BY <2>2, ReadIsConn, AdvanceIsConn
  <2> HIDE DEF adv
  <2>4. IsConn(done) /\ IsConn(conn_reset_for_next_request(done))
    BY <2>3 DEF conn_reset_for_next_request, IsConn
  <2>5. IsConn(c)
    BY <2>3, <2>4
  <2>6. drop \in BOOLEAN
    OBVIOUS
  <2>7. adv.r = 0 => ~drop
    OBVIOUS
  <2> HIDE DEF c, drop
  <2>8. IsConn(d) /\ d.open = ~drop
    BY <2>5 DEF IsConn
  <2> HIDE DEF d
  <2>9. pass' = pass - 1 \/ (pass' = pass /\ ~drop)
    BY <2>1, <2>7
  <2> QED BY <2>1, <2>6, <2>8, <2>9, ServesOne
<1>5. ASSUME NEW c \in MConn, Send(c) \/ HangUp(c) PROVE PollInv'
  <2>1. UNCHANGED <<conn, script, slots, pass, backlog>>
    BY <1>5 DEF Send, HangUp
  <2> QED BY <2>1 DEF PollInv
<1>6. ASSUME NEW c \in MConn, NEW s \in Script[c], Connect(c, s) PROVE PollInv'
  <2>1. /\ script[c] = <<>> /\ script' = [script EXCEPT ![c] = s] /\ backlog' = Append(backlog, c)
        /\ UNCHANGED <<conn, slots, pass>> /\ s # <<>>
    BY <1>6, MuxAssumption DEF Connect
  <2>2. backlog \in Seq(MConn) /\ Len(backlog) \in Nat
    BY LenProperties DEF PollInv
  <2>3. /\ backlog' \in Seq(MConn) /\ Len(backlog') = Len(backlog) + 1 /\ backlog'[Len(backlog) + 1] = c
        /\ \A i \in 1 .. Len(backlog) : backlog'[i] = backlog[i]
    BY <2>1, <2>2, AppendProperties
  <2>4. \A i \in 1 .. Len(backlog') : i \in 1 .. Len(backlog) \/ i = Len(backlog) + 1
    BY <2>2, <2>3
  <2>5. DOMAIN script' = MConn /\ script'[c] = s /\ \A k \in MConn : k # c => script'[k] = script[k]
    BY <2>1 DEF PollInv
  <2>6. ~ conn[c].open /\ \A i \in 1 .. Len(backlog) : backlog[i] # c /\ backlog[i] \in MConn
    BY <2>1, <2>2, ElementOfSeq DEF PollInv
  <2>7. \A i, j \in 1 .. Len(backlog') : backlog'[i] = backlog'[j] => i = j
    BY <2>3, <2>4, <2>6 DEF PollInv
  <2>8. \A i \in 1 .. Len(backlog') : ~ conn[backlog'[i]].open /\ script'[backlog'[i]] # <<>>
    BY <2>1, <2>3, <2>4, <2>5, <2>6 DEF PollInv
  <2>9. \A k \in MConn : conn[k].open => script'[k] # <<>>
    BY <2>1, <2>5 DEF PollInv
  <2> QED BY <2>1, <2>3, <2>5, <2>7, <2>8, <2>9 DEF PollInv
<1>7. CASE UNCHANGED muxVars
  BY <1>7 DEF muxVars, PollInv
<1> QED BY <1>1, <1>2, <1>3, <1>4, <1>5, <1>6, <1>7 DEF MuxNext, ServeSlot

LEMMA PollShown ==
  ASSUME PollInv
  PROVE  SlotsAreConns
<1> SUFFICES ASSUME NEW c \in MConn
             PROVE  Cardinality({i \in DOMAIN slots : slots[i].conn = c}) = IF conn[c].open THEN 1 ELSE 0
  BY DEF SlotsAreConns
<1> DEFINE S == {i \in DOMAIN slots : slots[i].conn = c}
<1>1. DOMAIN slots = 1 .. Len(slots)
  BY LenProperties DEF PollInv
<1>2. CASE conn[c].open
  <2>1. PICK i \in 1 .. Len(slots) : slots[i].conn = c
    BY <1>2 DEF PollInv
  <2>2. S = {i}
    BY <1>1, <2>1 DEF PollInv
  <2> QED BY <1>2, <2>2, FS_Singleton
<1>3. CASE ~ conn[c].open
  <2>1. S = {}
    BY <1>1, <1>3 DEF PollInv
  <2> QED BY <1>3, <2>1, FS_EmptySet
<1> QED BY <1>2, <1>3

\* For any clients, connections and requests, cut into reads of any size: every
\* connection that the loop has accepted and not closed is watched through
\* exactly one slot, whichever slots were taken out before, and no slot is left
\* of one that it has closed.
THEOREM OneSlotEach == MuxSpec => []SlotsAreConns
<1>1. MuxInit => PollInv
  BY PollStart
<1>2. PollInv /\ [MuxNext]_muxVars => PollInv'
  BY PollStep
<1>3. PollInv => SlotsAreConns
  BY PollShown
<1> QED BY <1>1, <1>2, <1>3, PTL DEF MuxSpec

=============================================================================
