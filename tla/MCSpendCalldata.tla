-------------------------- MODULE MCSpendCalldata ---------------------------
(***************************************************************************)
(* SpendCalldata for TLC: words below 64, a field of 29 elements,          *)
(* addresses below 16, amounts below 8.  Proofs exist for a transfer, a    *)
(* withdrawal, a withdrawal whose ctx is no address, and a transfer of     *)
(* another pool.                                                           *)
(***************************************************************************)
EXTENDS SpendCalldata, TLC

Proof(k) == [i \in 1 .. 8 |-> 10 + ((i + k) % 8)]

Statement(k, domain, nf1, nf2, publicAmount, ctx) ==
  [root |-> 21, domain |-> domain, nf1 |-> nf1, nf2 |-> nf2,
   outCm1 |-> 24, outCm2 |-> 25 + k, publicAmount |-> publicAmount, fee |-> 2,
   ctx |-> ctx, proof |-> Proof(k)]

MCProved ==
  {Statement(0, PoolDomain, 5, 3, 0, 0), Statement(1, PoolDomain, 6, 7, 3, 9),
   Statement(2, PoolDomain, 8, 11, 1, 18), Statement(3, PoolDomain + 1, 4, 12, 0, 0)}

=============================================================================
