---------------------------- MODULE MCResumeState ----------------------------
(***************************************************************************)
(* ResumeState on its own: every order of updates, saves, failures, power  *)
(* losses and restarts.                                                    *)
(***************************************************************************)
EXTENDS ResumeState

MCTimes == 1..2
==============================================================================
