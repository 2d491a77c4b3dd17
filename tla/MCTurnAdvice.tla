---------------------------- MODULE MCTurnAdvice ----------------------------
(***************************************************************************)
(* TurnAdvice for TLC: the constants are given in the cfg files.           *)
(***************************************************************************)
EXTENDS TurnAdvice
=============================================================================
