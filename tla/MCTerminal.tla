----------------------------- MODULE MCTerminal -----------------------------
(***************************************************************************)
(* The worker's terminal, the browser's hook, the HTTP requests about a    *)
(* sandbox and the runtimes share no state: in a behaviour only one of     *)
(* them moves, the one that "moving" names, so that TLC explores the sum   *)
(* of their graphs and not the product.  Fairness asks nothing of the      *)
(* terminal or the hook in its initial state.                              *)
(***************************************************************************)
EXTENDS Terminal, TerminalMachine, SandboxRequests, Runtimes, TLC

VARIABLE moving

\* One of the three stages of a container that is there.
OneStage == <<"created">>

ConnSymmetry == Permutations(Conn)

MCInit ==
    /\ TermInit /\ MachineInit /\ RequestInit /\ RuntimeInit
    /\ moving \in {"terminal", "hook", "requests", "runtimes"}
    /\ moving # "runtimes" => host = {"docker"} /\ images = {} /\ ~registry /\ ~hasTmux

MCNext ==
    /\ UNCHANGED moving
    /\ \/ moving = "terminal" /\ TermNext /\ UNCHANGED <<machineVars, requestVars, runtimeVars>>
       \/ moving = "hook" /\ MachineNext /\ UNCHANGED <<termVars, requestVars, runtimeVars>>
       \/ moving = "requests" /\ RequestNext /\ UNCHANGED <<termVars, machineVars, runtimeVars>>
       \/ moving = "runtimes" /\ RuntimeNext /\ UNCHANGED <<termVars, machineVars, requestVars>>

vars == <<moving, termVars, machineVars, requestVars, runtimeVars>>

MCSpec == MCInit /\ [][MCNext]_vars

\* The liveness is the terminal's and the hook's alone.
LiveInit == MCInit /\ moving \in {"terminal", "hook"}

MCFairSpec == LiveInit /\ [][MCNext]_vars /\ TermFairness /\ MachineFairness
=============================================================================
