---------------------------- MODULE SpendCircuit ----------------------------
(***************************************************************************)
(* The statement proved by circuits/spend.circom, over the data that the   *)
(* wallet, the dispatcher and the settlement code share.                   *)
(*                                                                         *)
(* Poseidon is a collision-free constructor.  A commitment                 *)
(*     cm = Poseidon(TAG_LEAF, inner, value)                               *)
(* is therefore the record [inner, value] itself, and a nullifier          *)
(*     nf = Poseidon(TAG_NULL, Poseidon2(domain, spend_key), cm)           *)
(* is the record [domain, cm]: the spend key is fixed by the inner, which  *)
(* commits to its public key.  A Merkle root is the sequence of leaves of  *)
(* the tree it is the root of; module MerkleTree shows that the frontier   *)
(* the contract keeps computes exactly that, and that an authentication    *)
(* path opens at a root exactly for the leaves under it.                   *)
(***************************************************************************)
EXTENDS Integers, Sequences, FiniteSets

CONSTANTS
  Inners,    (* the note secrets in play, each one Poseidon2(owner_pk, rho) *)
  Values,    (* the note values in play, in wei                            *)
  Domains,   (* one domain per (chain, pool) deployment                    *)
  FieldP,    (* the BN254 scalar field's modulus                           *)
  MaxValue   (* the circuit's range bound, 2^128                           *)

ASSUME ValuesAssumption == Values \subseteq Nat
ASSUME FieldAssumption ==
  /\ FieldP \in Nat /\ MaxValue \in Nat
  /\ MaxValue > 0 /\ FieldP > 4 * MaxValue

-----------------------------------------------------------------------------
(* Notes, commitments and nullifiers *)

Notes == [inner : Inners, value : Values]

Nullifier(domain, cm) == [domain |-> domain, cm |-> cm]

Nullifiers == [domain : Domains, cm : Notes]

Leaves(root) == {root[i] : i \in DOMAIN root}

-----------------------------------------------------------------------------
(* The template Spend.  The public signals s are those of the Spend tuple; *)
(* the private witness is recovered from the nullifiers, which determine   *)
(* the notes they belong to.                                               *)

(* for the mutation runs: the range constraints left out *)
InField(v) == v \in 0 .. FieldP - 1

InRange(v) == v \in 0 .. MaxValue - 1       \* Num2Bits(128)

(* for the mutation runs: the membership constraint left out *)
InputAlwaysOpens(root, cm) == cm.value >= 0

(* Membership is gated on the value: (cur - root) * value === 0 *)
InputOpens(root, cm) == cm.value = 0 \/ cm \in Leaves(root)

Conserves(v1, v2, w1, w2, publicAmount, fee) ==
  (v1 + v2) % FieldP = (w1 + w2 + publicAmount + fee) % FieldP

CircuitSatisfied(s) ==
  /\ s.nf1 = Nullifier(s.domain, s.nf1.cm)
  /\ s.nf2 = Nullifier(s.domain, s.nf2.cm)
  /\ InputOpens(s.root, s.nf1.cm)
  /\ InputOpens(s.root, s.nf2.cm)
  /\ \A v \in {s.nf1.cm.value, s.nf2.cm.value, s.outCm1.value,
               s.outCm2.value, s.publicAmount, s.fee} : InRange(v)
  /\ Conserves(s.nf1.cm.value, s.nf2.cm.value, s.outCm1.value,
               s.outCm2.value, s.publicAmount, s.fee)
  /\ s.nf1 # s.nf2

=============================================================================
