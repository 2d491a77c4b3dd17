---------------------------- MODULE MCMatchExport ----------------------------
(***************************************************************************)
(* MatchExport for TLC: the constants are given in the cfg files.          *)
(***************************************************************************)
EXTENDS MatchExport
=============================================================================
