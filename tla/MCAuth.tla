------------------------------- MODULE MCAuth -------------------------------
(***************************************************************************)
(* The sessions and the accounts of the auth service, and what the core    *)
(* service's users and administrators write, share no state here: in a     *)
(* behaviour only one of them moves, the one that "moving" names, so that  *)
(* TLC explores the sum of their graphs and not the product.               *)
(***************************************************************************)
EXTENDS AuthSessions, Accounts, Contributions, TLC

VARIABLE moving

MCInit ==
    /\ AuthInit /\ AccInit /\ ContributionInit
    /\ moving \in {"sessions", "accounts", "contributions"}
    /\ moving # "sessions" => last = 0

MCNext ==
    /\ UNCHANGED moving
    /\ \/ moving = "sessions" /\ AuthNext /\ UNCHANGED <<accVars, contributionVars>>
       \/ moving = "accounts" /\ AccNext /\ UNCHANGED <<authVars, contributionVars>>
       \/ moving = "contributions" /\ ContributionNext /\ UNCHANGED <<authVars, accVars>>

MCSpec == MCInit /\ [][MCNext]_<<moving, authVars, accVars, contributionVars>>

MCSymmetry == Permutations(Tabs) \cup Permutations(Browsers)
=============================================================================
