---------------------------- MODULE MCAppUpdate -----------------------------
(***************************************************************************)
(* AppUpdate with two deploys, so that one can hit the retry of another,   *)
(* and two runs, so that one can find what a failed one left.              *)
(***************************************************************************)
EXTENDS AppUpdate
=============================================================================
