----------------------------- MODULE Simulation -----------------------------
(***************************************************************************)
(* What a node answers about an envelope at its head: the validation       *)
(* prefix, which eth_sendRawTransaction checks as well, and the outcome of *)
(* the read-only execution behind it.  The node is taken to execute every  *)
(* envelope whose prefix it finds valid, so that executionStatus is never  *)
(* missing; FrameTool is about the answers that leave it out.              *)
(***************************************************************************)
EXTENDS ShieldedPool

PrefixValid(tx) ==
  /\ NoncesCurrent(tx)
  /\ \A i \in DOMAIN tx.refs : RefValid(tx.refs[i])
  /\ SenderApproves(tx) /\ PayFrameApproves(tx)
  /\ balance[PayerOf(tx)] >= tx.maxCost

ExecutionSucceeds(tx) ==
  /\ SettlementAccepts(tx, LastFrame(tx), PayerOf(tx))
  /\ TreeHasRoom(SettleFrame(tx).call.spend)

(* for the mutation runs: executionStatus not looked at *)
PrefixSimulates(tx) == PrefixValid(tx)

SimulatesCleanly(tx) == PrefixValid(tx) /\ ExecutionSucceeds(tx)

=============================================================================
