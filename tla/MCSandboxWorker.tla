-------------------------- MODULE MCSandboxWorker --------------------------
(***************************************************************************)
(* SandboxWorker for TLC: small sets of model values, ages in units of one *)
(* orphan grace period.                                                    *)
(***************************************************************************)
EXTENDS SandboxWorker, TLC

\* A session lives for one grace period more than Grace = 1; the Redis key
\* goes when the worker's TTL is reached.
MCTTL == [s \in Session |-> 1]

Symmetric == Permutations(Container) \cup Permutations(Session) \cup Permutations(Worker)
=============================================================================
