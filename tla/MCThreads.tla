------------------------------ MODULE MCThreads ------------------------------
(***************************************************************************)
(* Threads of icecreme that share a structure: the mailbox of an actor,    *)
(* with fewer slots than senders and more messages than slots, and the     *)
(* growable pool of the HTTP multiplexer.  A behaviour is about one of     *)
(* them, its subject, and the other rests.                                 *)
(***************************************************************************)
EXTENDS Mailbox, MuxPool

VARIABLE subject

Subject == {"mailbox", "pool"}

ThreadsInit == subject \in Subject /\ Init /\ PoolInit

threadsVars == <<subject, vars, poolVars>>

ThreadsNext ==
  /\ UNCHANGED subject
  /\ \/ subject = "mailbox" /\ Next /\ UNCHANGED poolVars
     \/ subject = "pool" /\ PoolNext /\ UNCHANGED vars

\* A thread that wants the mutex of the mailbox gets it, and its owner keeps
\* receiving; every worker goes on, an idle one too because its poll has a timeout.
ThreadsFairness ==
  /\ \A s \in Sender : WF_vars(subject = "mailbox" /\ (WaitNotFull(s) \/ Put(s)))
  /\ WF_vars(subject = "mailbox" /\ CallReceive)
  /\ WF_vars(subject = "mailbox" /\ (WaitNotEmpty \/ Take))
  /\ \A w \in Worker : WF_poolVars(subject = "pool" /\ WorkerStep(w))

ThreadsSpec == ThreadsInit /\ [][ThreadsNext]_threadsVars /\ ThreadsFairness
=============================================================================
