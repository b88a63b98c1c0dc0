------------------------------- MODULE MCMail -------------------------------
(***************************************************************************)
(* MailPipeline for TLC.                                                   *)
(***************************************************************************)
EXTENDS MailPipeline

\* A registration and the verification it asks for.
TwoMails == [e \in 1 .. MaxEvents |-> IF e = 1 THEN "welcome" ELSE "verification"]
=============================================================================
