---------------------------- MODULE MCDecisionLog -----------------------------
(***************************************************************************)
(* Two processes and few enough rows that a trim follows the third.        *)
(***************************************************************************)
EXTENDS DecisionLog, TLC

MCIds == {1, 2}

MCProcs == Permutations(Procs)
=============================================================================
