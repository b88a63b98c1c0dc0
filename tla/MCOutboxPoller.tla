--------------------------- MODULE MCOutboxPoller ---------------------------
(***************************************************************************)
(* OutboxPoller for TLC.                                                   *)
(***************************************************************************)
EXTENDS OutboxPoller, TLC

CONSTANTS m1, m2

\* The rows of two starts, or of the end of two sessions.
DistinctPayloads == [e \in 1 .. MaxEvents |-> IF e = 1 THEN m1 ELSE m2]

\* Two requests that end the same session write the same payload.
EqualPayloads == [e \in 1 .. MaxEvents |-> m1]

Symmetric == Permutations(Replica) \cup Permutations(Cycle)
=============================================================================
