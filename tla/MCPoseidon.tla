----------------------------- MODULE MCPoseidon -----------------------------
(***************************************************************************)
(* An instance of Poseidon for TLC, with 23 for the prime and 7 bits for the *)
(* word: as for BN254 and 256 bits, five times the prime fits and six      *)
(* times does not.  Every round constant and the first row of the matrix   *)
(* are as large as they can be, the rest is of all sizes.                  *)
(***************************************************************************)
EXTENDS Poseidon

MCC == [k \in 0 .. Rounds * T - 1 |-> IF k < T THEN P - 1 ELSE (P - 1 - 7 * k) % P]
MCM == [i \in Lanes |-> [l \in Lanes |-> IF i = 0 THEN P - 1 ELSE (3 * i + 5 * l * l + 1) % P]]

=============================================================================
