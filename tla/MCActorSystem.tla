---------------------------- MODULE MCActorSystem ----------------------------
(***************************************************************************)
(* Small processes for TLC.                                                *)
(***************************************************************************)
EXTENDS ActorSystem, TLC

Alike == Permutations(Actor \ {Main})
=============================================================================
