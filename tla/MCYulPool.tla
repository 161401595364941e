------------------------------ MODULE MCYulPool ------------------------------
(***************************************************************************)
(* YulPool with a tree of depth 2, three inner commitments and notes worth *)
(* 0 or 1, a recipient whose code calls back, and two claims open at once. *)
(***************************************************************************)
EXTENDS YulPool, TLC

CONSTANTS i1, i2, i3, recipient

MCInners == {i1, i2, i3}
MCAccounts == {Pool, recipient}

Interchangeable == Permutations(MCInners)

=============================================================================
