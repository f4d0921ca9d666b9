-------------------------------- MODULE Sums --------------------------------
(***************************************************************************)
(* The sum of the values of a function with a finite domain.               *)
(***************************************************************************)
EXTENDS Integers, FiniteSets, FiniteSetsExt

SumOver(values) == MapThenSumSet(LAMBDA x : values[x], DOMAIN values)
=============================================================================
