---------------------------- MODULE MCMerkleTree ----------------------------
(***************************************************************************)
(* MerkleTree with DEPTH = 3, filled to its eighth leaf and offered a      *)
(* ninth.  Commitments are interchangeable, so only the runs that insert   *)
(* them in the order of Arrival are explored (Ordered, a constraint).      *)
(***************************************************************************)
EXTENDS MerkleTree

CONSTANTS c1, c2, c3, c4, c5, c6, c7, c8, c9

Arrival == <<c1, c2, c3, c4, c5, c6, c7, c8, c9>>

MCCms == {Arrival[i] : i \in DOMAIN Arrival}

Ordered == \A k \in DOMAIN log : log[k].cm = Arrival[k]

=============================================================================
