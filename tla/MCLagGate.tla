----------------------------- MODULE MCLagGate ------------------------------
(***************************************************************************)
(* LagGate with its bounds: lags of no, an acceptable and a greater number *)
(* of rows, points that take as long as the window allows, pods that take  *)
(* a minute to stop.                                                       *)
(***************************************************************************)
EXTENDS LagGate
=============================================================================
