---------------------------- MODULE MCLoopRequests ----------------------------
(***************************************************************************)
(* One request that has to pass both gates; who calls is what varies.      *)
(***************************************************************************)
EXTENDS LoopRequests

MCOneRequest == {1}
=============================================================================
