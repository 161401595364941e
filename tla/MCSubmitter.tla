---------------------------- MODULE MCSubmitter -----------------------------
(***************************************************************************)
(* An instance of Submitter for TLC: a tree of four leaves, three deposits *)
(* of 3, and a tool that pays with the first one, run up to MaxRuns times. *)
(* Another wallet merges the first two deposits, which shares a nullifier  *)
(* with the payment, and somebody replays the payment at the next nonce    *)
(* sequence.                                                               *)
(***************************************************************************)
EXTENDS Submitter, TLC

CONSTANTS i1, i2, i3, here, payer

MCInners == {i1, i2, i3}
MCDomains == {here}
MCAccounts == {Pool, Paymaster, Patron, Outsider}
MCTools == {payer}

Note(i, v) == [inner |-> i, value |-> v]

Join(in1, in2, out1, out2, fee) ==
  [sender |-> Pool, payer |-> Pool, domain |-> here,
   in1 |-> in1, in2 |-> in2, out1 |-> out1, out2 |-> out2,
   publicAmount |-> 0, fee |-> fee, recipient |-> NoAccount,
   rootOf |-> "pool", keys |-> {}, nonceSeq |-> 0, maxCost |-> 1]

Pay == Join(Note(i1, 3), Note(i3, 0), Note(i2, 2), Note(i2, 0), 1)
Merge == Join(Note(i1, 3), Note(i2, 3), Note(i3, 3), Note(i1, 2), 1)

MCJob == payer :> Pay
MCRequests == {Merge, [Pay EXCEPT !.nonceSeq = 1]}

=============================================================================
