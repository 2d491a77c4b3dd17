------------------------- MODULE MCSelectionAdvice -------------------------
(***************************************************************************)
(* SelectionAdvice for TLC.  The constants are given in the cfg files; the *)
(* sequence sets of the type invariant need no replacement, TLC decides    *)
(* membership in Seq(S) without enumerating it.                            *)
(***************************************************************************)
EXTENDS SelectionAdvice
===========================================================================
