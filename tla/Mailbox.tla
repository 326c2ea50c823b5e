------------------------------- MODULE Mailbox -------------------------------
(***************************************************************************)
(* The mailbox of one icecreme actor (icecreme/actor.c): a ring buffer     *)
(* under a mutex with the condition variables not_full and not_empty.      *)
(* Senders are the threads of any actors; only the owner's thread          *)
(* receives.                                                               *)
(*                                                                         *)
(* All fields are read and written under the mutex, so a step is one stay  *)
(* in the critical section: from getting the mutex, at the call or after a *)
(* wake-up, to giving it up, at the return or in pthread_cond_wait.        *)
(***************************************************************************)
EXTENDS Integers, Sequences, FiniteSets

CONSTANTS
  Sender,    \* threads that call send! on the owner of the mailbox
  Owner,     \* the thread of the actor that owns it
  Capacity,  \* MAILBOX_CAP
  MaxSends   \* bound: messages per sender

ASSUME SenderAssumption == IsFiniteSet(Sender) /\ Owner \notin Sender
ASSUME CapacityAssumption == Capacity \in Nat \ {0}
ASSUME MaxSendsAssumption == MaxSends \in Nat

VARIABLES
  buf, head, tail, count,  \* the fields of the struct
  at,        \* thread |-> where it is with respect to the mailbox
  sent,      \* sender |-> messages it has called send! with
  received   \* what the owner's receive! has returned

vars == <<buf, head, tail, count, at, sent, received>>

Thread == Sender \cup {Owner}
Slot == 0 .. Capacity - 1
Message == Sender \X (1 .. MaxSends)
Empty == <<>>                      \* a slot that was never written

\* Where a thread is: outside; about to take the mutex; in pthread_cond_wait.
Place == {"outside", "entering", "waiting"}

Init ==
  /\ buf = [i \in Slot |-> Empty]
  /\ head = 0 /\ tail = 0 /\ count = 0
  /\ at = [t \in Thread |-> "outside"]
  /\ sent = [s \in Sender |-> 0]
  /\ received = <<>>

WaitingSenders == {s \in Sender : at[s] = "waiting"}

(***************************************************************************)
(* mailbox_send.                                                           *)
(***************************************************************************)
CallSend(s) ==
  /\ at[s] = "outside"
  /\ sent[s] < MaxSends
  /\ sent' = [sent EXCEPT ![s] = @ + 1]
  /\ at' = [at EXCEPT ![s] = "entering"]
  /\ UNCHANGED <<buf, head, tail, count, received>>

WaitNotFull(s) ==
  /\ at[s] = "entering"
  /\ count >= Capacity
  /\ at' = [at EXCEPT ![s] = "waiting"]
  /\ UNCHANGED <<buf, head, tail, count, sent, received>>

\* Fault: not_empty is not signalled.
PutSilent(s) ==
  /\ at[s] = "entering"
  /\ count < Capacity
  /\ buf' = [buf EXCEPT ![tail] = <<s, sent[s]>>]
  /\ tail' = (tail + 1) % Capacity
  /\ count' = count + 1
  /\ at' = [at EXCEPT ![s] = "outside"]
  /\ UNCHANGED <<head, sent, received>>

Put(s) ==
  /\ at[s] = "entering"
  /\ count < Capacity
  /\ buf' = [buf EXCEPT ![tail] = <<s, sent[s]>>]
  /\ tail' = (tail + 1) % Capacity
  /\ count' = count + 1
  /\ at' = [at EXCEPT ![s] = "outside", ![Owner] = IF @ = "waiting" THEN "entering" ELSE @]
  /\ UNCHANGED <<head, sent, received>>

(***************************************************************************)
(* mailbox_receive.                                                        *)
(***************************************************************************)
CallReceive ==
  /\ at[Owner] = "outside"
  /\ at' = [at EXCEPT ![Owner] = "entering"]
  /\ UNCHANGED <<buf, head, tail, count, sent, received>>

WaitNotEmpty ==
  /\ at[Owner] = "entering"
  /\ count = 0
  /\ at' = [at EXCEPT ![Owner] = "waiting"]
  /\ UNCHANGED <<buf, head, tail, count, sent, received>>

\* pthread_cond_signal(not_full): some waiting sender, if there is one, wakes.
SignalNotFull(places) ==
  IF WaitingSenders = {} THEN {places}
  ELSE {[places EXCEPT ![s] = "entering"] : s \in WaitingSenders}

\* Fault: not_full is signalled only when the mailbox has become empty.
TakeSignalsLate ==
  /\ at[Owner] = "entering"
  /\ count > 0
  /\ received' = Append(received, buf[head])
  /\ head' = (head + 1) % Capacity
  /\ count' = count - 1
  /\ at' \in IF count = 1 THEN SignalNotFull([at EXCEPT ![Owner] = "outside"])
                          ELSE {[at EXCEPT ![Owner] = "outside"]}
  /\ UNCHANGED <<buf, tail, sent>>

\* Fault: the newest message is taken.
TakeNewest ==
  /\ at[Owner] = "entering"
  /\ count > 0
  /\ received' = Append(received, buf[(tail + Capacity - 1) % Capacity])
  /\ tail' = (tail + Capacity - 1) % Capacity
  /\ count' = count - 1
  /\ at' \in SignalNotFull([at EXCEPT ![Owner] = "outside"])
  /\ UNCHANGED <<buf, head, sent>>

Take ==
  /\ at[Owner] = "entering"
  /\ count > 0
  /\ received' = Append(received, buf[head])
  /\ head' = (head + 1) % Capacity
  /\ count' = count - 1
  /\ at' \in SignalNotFull([at EXCEPT ![Owner] = "outside"])
  /\ UNCHANGED <<buf, tail, sent>>

\* POSIX lets pthread_cond_wait return without a signal.
WakeSpuriously(t) ==
  /\ at[t] = "waiting"
  /\ at' = [at EXCEPT ![t] = "entering"]
  /\ UNCHANGED <<buf, head, tail, count, sent, received>>

Next ==
  \/ \E s \in Sender : CallSend(s) \/ WaitNotFull(s) \/ Put(s)
  \/ CallReceive
  \/ WaitNotEmpty
  \/ Take
  \/ \E t \in Thread : WakeSpuriously(t)

Spec == Init /\ [][Next]_vars

(***************************************************************************)
(* Properties.                                                             *)
(***************************************************************************)
\* The indices stay in the ring, count between empty and full, threads where
\* mailbox_send and mailbox_receive leave them, and receive! never returns a
\* slot that no message was written to.
TypeOK ==
  /\ buf \in [Slot -> Message \cup {Empty}]
  /\ head \in Slot /\ tail \in Slot /\ count \in 0 .. Capacity
  /\ at \in [Thread -> Place]
  /\ sent \in [Sender -> 0 .. MaxSends]
  /\ received \in Seq(Message)

\* The messages in the ring, oldest first.
queue == [i \in 1 .. count |-> buf[(head + i - 1) % Capacity]]

Fifo == INSTANCE BoundedFifo WITH taken <- received

\* Ring buffer, mutex and condition variables together are a bounded queue:
\* indices that wrap around, slots that are used again and senders that
\* overtake each other on the way to the mutex never show.
IsBoundedFifo == Fifo!Spec

\* Nobody sleeps through what he waits for: the owner never waits next to a
\* message, and if senders wait next to free slots, as many others are on
\* their way in as there are slots.  So signalling one thread per message is
\* enough; pthread_cond_broadcast is not needed.
NoLostWakeup ==
  /\ at[Owner] = "waiting" => count = 0
  /\ WaitingSenders # {} =>
       count + Cardinality({s \in Sender : at[s] = "entering"}) >= Capacity

\* A message that some thread has begun to send is received in the end, also
\* when the sender found the mailbox full and others took the slots it was
\* woken for.
AllReceived ==
  \A s \in Sender : \A k \in 1 .. MaxSends :
    sent[s] >= k ~> \E i \in 1 .. Len(received) : received[i] = <<s, k>>
=============================================================================
