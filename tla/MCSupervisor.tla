---------------------------- MODULE MCSupervisor -----------------------------
(***************************************************************************)
(* A supervisor with one permanent and one temporary child for TLC.        *)
(***************************************************************************)
EXTENDS Supervisor, TLC

CONSTANTS db, job

PermanentNames == {db}
TemporaryNames == {job}
TwoSpecs == <<db, job>>

Alike == Permutations(Actor \ {Main, Sup})
=============================================================================
