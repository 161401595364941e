-------------------------------- MODULE Sums --------------------------------
(***************************************************************************)
(* The sum of a function over a finite set, written on the community       *)
(* modules' fold, so that what is proved of it in Sums_proofs holds for    *)
(* the totals that TLC computes.                                           *)
(***************************************************************************)
EXTENDS Integers, FiniteSetsExt

SumOver(f, S) == MapThenSumSet(LAMBDA x : f[x], S)

=============================================================================
