----------------------------- MODULE MC_Checker -----------------------------
(***************************************************************************)
(* The checker over the visit orders of CheckerTrees; the cfg picks the    *)
(* set of trees.                                                           *)
(***************************************************************************)
EXTENDS Checker, CheckerTrees
=============================================================================
