------------------------------ MODULE Sublists ------------------------------
(***************************************************************************)
(* What a loop keeps that walks an array or a list from its beginning and  *)
(* passes over some of it: notify_down and unregister_actor of actor.c,    *)
(* collect_live and ht_compact of hashtable.c.                             *)
(***************************************************************************)
EXTENDS Integers, Sequences, FiniteSets

\* The positions S in their order.
InOrder(S) == CHOOSE f \in [1 .. Cardinality(S) -> S] : \A i, j \in DOMAIN f : i < j => f[i] < f[j]

\* What is at them.
Sublist(list, S) == [i \in 1 .. Cardinality(S) |-> list[InOrder(S)[i]]]

=============================================================================
