------------------------------ MODULE MCRecords ------------------------------
(***************************************************************************)
(* The modules of the core service's records share no row: in a behaviour  *)
(* only one of them moves, the one that "moving" names, so that TLC        *)
(* explores the sum of their graphs and not the product.                   *)
(***************************************************************************)
EXTENDS Learning, Organizations, GuestTrial, Community, ReadModels

VARIABLE moving

CONSTANTS s1, s2, s3, ann, guest, c1, c2, o1

MCUserOf == [s \in Session |-> IF s = s3 THEN guest ELSE ann]
MCChallengeOf == [s \in Session |-> IF s = s2 THEN c2 ELSE c1]

\* Two roadmaps over two challenges; the second challenge asks for the first, and is an
\* organization's.
Short == "short"
Long == "long"
MCNodesOf == [p \in Course |-> IF p = Short THEN {c1} ELSE {c1, c2}]
MCPrerequisite == {<<c2, c1>>}
MCOwnedBy == [t \in Topic |-> IF t = c2 THEN o1 ELSE "nobody"]
MCCourse == {Short, Long}

MCInit ==
    /\ LearnInit /\ OrgInit /\ TrialInit /\ CommunityInit /\ ReadInit
    /\ moving \in {"learning", "orgs", "trial", "community", "answers"}
    /\ moving # "answers" => follows = {} /\ orgOf = [u \in Reader |-> "nobody"]

MCNext ==
    /\ UNCHANGED moving
    /\ \/ moving = "learning" /\ LearnNext
          /\ UNCHANGED <<orgVars, trialVars, communityVars, readVars>>
       \/ moving = "orgs" /\ OrgNext
          /\ UNCHANGED <<learnVars, trialVars, communityVars, readVars>>
       \/ moving = "trial" /\ TrialNext
          /\ UNCHANGED <<learnVars, orgVars, communityVars, readVars>>
       \/ moving = "community" /\ CommunityNext
          /\ UNCHANGED <<learnVars, orgVars, trialVars, readVars>>
       \/ moving = "answers" /\ ReadNext
          /\ UNCHANGED <<learnVars, orgVars, trialVars, communityVars>>

MCVars == <<moving, learnVars, orgVars, trialVars, communityVars, readVars>>

MCSpec == MCInit /\ [][MCNext]_MCVars
=============================================================================
