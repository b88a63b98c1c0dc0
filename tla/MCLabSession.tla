---------------------------- MODULE MCLabSession ----------------------------
(***************************************************************************)
(* LabSession for TLC.                                                     *)
(***************************************************************************)
EXTENDS LabSession, TLC

Symmetric == Permutations(User) \cup Permutations(Challenge) \cup Permutations(Start)
             \cup Permutations(Replica)
=============================================================================
