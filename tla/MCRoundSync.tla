---------------------------- MODULE MCRoundSync ----------------------------
(* Instances of RoundSync for TLC.  Runs of flushQueue other than the one  *)
(* Finish awaits are interchangeable: symmetric where fairness names none. *)
EXTENDS RoundSync, TLC

FlusherSymmetry == Permutations(Flushers)
=============================================================================
