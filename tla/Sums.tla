---------------------------------- MODULE Sums ----------------------------------
(***************************************************************************)
(* The sum of a column over a set of rows, as the books of this system     *)
(* keep taking it.                                                         *)
(***************************************************************************)
EXTENDS Integers, FiniteSetsExt

\* The sum of f[x] over all x of S.
SumOver(f, S) == MapThenSumSet(LAMBDA x : f[x], S)
================================================================================
