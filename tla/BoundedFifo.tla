----------------------------- MODULE BoundedFifo -----------------------------
(***************************************************************************)
(* What a mailbox promises to the actors: messages are taken in the order  *)
(* in which they were put, each one once, and at most Capacity of them     *)
(* wait; a put has to wait for room and a take for a message.              *)
(***************************************************************************)
EXTENDS Naturals, Sequences

CONSTANTS Message, Capacity

VARIABLES
  queue,  \* messages put and not taken yet
  taken   \* messages taken so far

Init == queue = <<>> /\ taken = <<>>

Put(m) ==
  /\ Len(queue) < Capacity
  /\ queue' = Append(queue, m)
  /\ UNCHANGED taken

Take ==
  /\ queue # <<>>
  /\ queue' = Tail(queue)
  /\ taken' = Append(taken, Head(queue))

Next == Take \/ \E m \in Message : Put(m)

Spec == Init /\ [][Next]_<<queue, taken>>
=============================================================================
