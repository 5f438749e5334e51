----------------------------- MODULE MCFulfilment -----------------------------
(***************************************************************************)
(* Instances of Fulfilment for TLC.                                        *)
(***************************************************************************)
EXTENDS Fulfilment, TLC

\* Orders are interchangeable: nothing compares them.
OrderSymmetry == Permutations(Orders)
================================================================================
