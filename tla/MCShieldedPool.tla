--------------------------- MODULE MCShieldedPool ---------------------------
(***************************************************************************)
(* An instance of ShieldedPool for TLC.  Deposits are worth 3; outputs     *)
(* are worth 0, 1 or 3, and 66, which is -1 in a field of 67 elements.     *)
(* Each request of Honest is a spend a wallet would build, and each of     *)
(* Deviant differs from one in a thing that must not pass.                 *)
(***************************************************************************)
EXTENDS ShieldedPool, TLC

CONSTANTS i1, i2, i3, user, here, elsewhere

MCInners == {i1, i2, i3}
MCDomains == {here, elsewhere}
MCAccounts == {Pool, Paymaster, Patron, Outsider, user}

Note(i, v) == [inner |-> i, value |-> v]

Join(in1, in2, out1, out2, publicAmount, fee, recipient) ==
  [sender |-> Pool, payer |-> Pool, domain |-> here,
   in1 |-> in1, in2 |-> in2, out1 |-> out1, out2 |-> out2,
   publicAmount |-> publicAmount, fee |-> fee, recipient |-> recipient,
   rootOf |-> "pool", keys |-> {}, nonceSeq |-> 0, maxCost |-> 2]

(* a note and a dummy into a note and change, *)
Pay == Join(Note(i1, 3), Note(i3, 0), Note(i2, 1), Note(i2, 0), 0, 2, NoAccount)
(* two notes into one that may be in the tree already *)
Merge == Join(Note(i1, 3), Note(i2, 3), Note(i3, 3), Note(i1, 1), 0, 2, NoAccount)
(* a withdrawal of the same deposit as Merge's second input *)
Withdraw == Join(Note(i2, 3), Note(i1, 0), Note(i3, 0), Note(i3, 0), 1, 2, user)
(* a sponsored spend of Pay's output *)
Sponsored == [Join(Note(i2, 1), Note(i2, 0), Note(i1, 0), Note(i3, 0), 0, 1, NoAccount)
              EXCEPT !.payer = Paymaster, !.maxCost = 1]
(* one paid for by somebody who asks for no fee, of twice the same output, *)
(* paying the pool itself                                                  *)
Patronised == [Join(Note(i3, 3), Note(i2, 0), Note(i1, 1), Note(i1, 1), 1, 0, Pool)
               EXCEPT !.payer = Patron]

(* two dummies into nothing, which costs nothing to prove *)
Costless == Join(Note(i1, 0), Note(i2, 0), Note(i3, 0), Note(i3, 0), 0, 0, NoAccount)

Honest == {Pay, Merge, Withdraw, Sponsored, Patronised}

Decoys == {Nullifier(here, Note(i1, 1)), Nullifier(here, Note(i3, 1))}

Deviant ==
  {[Pay EXCEPT !.nonceSeq = 1],                    \* replay at the next sequence
   [Pay EXCEPT !.keys = Decoys],                   \* somebody else's keys
   [Withdraw EXCEPT !.domain = elsewhere],         \* another pool's nullifiers
   [Merge EXCEPT !.rootOf = "forged"],             \* inputs in no tree of ours
   [Pay EXCEPT !.maxCost = 3],                     \* fee below the maximum cost
   [Sponsored EXCEPT !.maxCost = 2],               \* the same, sponsored
   [Merge EXCEPT !.out1 = Note(i3, 3), !.out2 = Note(i1, 3)],  \* creates value
   Costless,                                       \* no value to pay gas with
   [Costless EXCEPT !.payer = Paymaster],
   [Merge EXCEPT !.in2 = Note(i1, 3)],             \* one note twice
   [Pay EXCEPT !.out1 = Note(i2, 66), !.fee = 4],  \* conserves modulo 67 only
   [Withdraw EXCEPT !.sender = Outsider, !.payer = Outsider]}  \* not the pool

MCRequests == Honest \cup Deviant

=============================================================================
