--------------------------- MODULE ReferencePool ----------------------------
(***************************************************************************)
(* The split architecture of contracts/src/ShieldedPool.sol: spends come   *)
(* from an execution identity of their own, POOL_SENDER, and settlement    *)
(* verifies the proof itself, "as the independent noteholder-safety        *)
(* boundary".  POOL_SENDER is either an account whose key signs what its   *)
(* holder likes or a devnet/SharedPoolSender.yul, which approves only what *)
(* it has checked.  Storage, deposits, claims and the effects of a         *)
(* settlement are those of ShieldedPool; approval, the namespace of the    *)
(* nonce keys and the guards of settlement differ.                         *)
(***************************************************************************)
EXTENDS ShieldedPool

CONSTANTS
  PoolSender,       (* POOL_SENDER                                         *)
  Signed            (* requests its key may sign, where a key decides      *)

VARIABLE
  proofAuthorized   (* whether it is a SharedPoolSender                    *)

ASSUME PoolSenderAssumption ==
  PoolSender \in Accounts \ {Pool, Paymaster, Patron, Outsider}
ASSUME SignedAssumption == Signed \subseteq RequestRecords

refVars == <<vars, proofAuthorized>>

-----------------------------------------------------------------------------
(* SharedPoolSender, executed in frame i *)

SharedSenderFrames(f) ==
  /\ f[1].target = PoolSender /\ f[1].mode = VERIFY /\ f[1].flags = 2
  /\ f[1].call = NoCall /\ f[1].gas = 300000 /\ f[1].value = 0
  /\ f[2].mode = VERIFY /\ f[2].flags = 1
  /\ f[2].gas = 100000 /\ f[2].value = 0

(* for the mutation runs: the proof left to settlement *)
SharedSenderUnproved(tx, i) ==
  /\ tx.sender = PoolSender
  /\ Len(tx.frames) = 3 /\ i = 1 /\ tx.signatures = 1 /\ ~tx.blobs
  /\ SharedSenderFrames(tx.frames)
  /\ DispatcherSettleFrame(tx.frames[3])
  /\ LET s == tx.frames[3].call.spend
     IN  DispatcherKeys(tx, s) /\ DispatcherRoot(tx, s)

SharedSenderApproves(tx, i) ==
  /\ tx.sender = PoolSender
  /\ Len(tx.frames) = 3 /\ i = 1 /\ tx.signatures = 1 /\ ~tx.blobs
  /\ SharedSenderFrames(tx.frames)
  /\ DispatcherSettleFrame(tx.frames[3])
  /\ LET s == tx.frames[3].call.spend
     IN  /\ DispatcherKeys(tx, s) /\ DispatcherRoot(tx, s)
         /\ VerifyFrameProof(s)              \* pool.verifyProofOnly(s)

-----------------------------------------------------------------------------
(* Settlement: _spend of ShieldedPool.sol *)

(* for the mutation runs: NotPoolSender never raised *)
AnyCaller(tx) == tx.sender \in Accounts

ReferenceCaller(tx) == tx.sender = PoolSender   \* msg.sender == POOL_SENDER

(* for the mutation runs: the settle frame may target somebody else *)
BindingsAnyTarget(p, s) ==
  SettlementBindings([p EXCEPT !.settleTarget = Pool], s)

ReferenceBindings(p, s) == SettlementBindings(p, s)

(* for the mutation runs: the proof left to the sender's approval *)
ValidateOnly(s) == ValidateSpend(s)

VerifyProof(s) == ValidateSpend(s) /\ CircuitSatisfied(s)

ReferenceAccepts(tx, i, payer) ==
  LET c == tx.frames[i].call
  IN  /\ SettlementShape(c)
      /\ ReferenceCaller(tx)
      /\ ReferenceBindings(EnvelopeProbe(tx, i, payer), c.spend)
      /\ VerifyProof(c.spend)

-----------------------------------------------------------------------------
(* Steps *)

(* An account that signs anything may also aim the SENDER frame at its own *)
(* (delegated) code, which calls the pool from there.                      *)
AimedAtSender(f) == [f EXCEPT !.target = PoolSender]

Redirected(tx) ==
  [tx EXCEPT !.frames =
     [i \in DOMAIN tx.frames |->
        IF i = LastFrame(tx) THEN AimedAtSender(tx.frames[i]) ELSE tx.frames[i]]]

ReferenceTxs(r) ==
  TxsOf(r) \cup {Redirected(tx) : tx \in {t \in TxsOf(r) : t.sender = PoolSender}}

ReferenceNoncesCurrent(tx) ==
  tx.sender = PoolSender => \A k \in tx.keys : nonceSeq[k] = tx.nonceSeq

ReferenceConsumeKeys(tx) ==
  nonceSeq' = [k \in Nullifiers |->
                 IF tx.sender = PoolSender /\ k \in tx.keys
                 THEN nonceSeq[k] + 1 ELSE nonceSeq[k]]

(* The pool of this architecture has no code that approves a frame. *)
ReferenceSenderApproves(tx) ==
  /\ tx.sender # Pool
  /\ tx.sender = PoolSender /\ proofAuthorized => SharedSenderApproves(tx, 1)

ReferencePayFrameApproves(tx) ==
  IF PayerOf(tx) = Paymaster
  THEN PaymasterApproves(tx, 2, PoolSender)
  ELSE PayerOf(tx) \in {Patron, tx.sender}

ReferenceValidate(tx) ==
  /\ Idle
  /\ ReferenceNoncesCurrent(tx)
  /\ \A i \in DOMAIN tx.refs : RefValid(tx.refs[i])
  /\ ReferenceSenderApproves(tx)
  /\ ReferencePayFrameApproves(tx)
  /\ balance[PayerOf(tx)] >= tx.maxCost
  /\ balance' = [balance EXCEPT ![PayerOf(tx)] = @ - tx.maxCost]
  /\ ReferenceConsumeKeys(tx)
  /\ exec' = [payer |-> PayerOf(tx), tx |-> tx]
  /\ UNCHANGED <<storage, ring, slot>>

ReferenceSettles ==
  /\ ReferenceAccepts(exec.tx, LastFrame(exec.tx), exec.payer)
  /\ TreeHasRoom(SpendInFlight)

(* Code between the frame and the pool may call the pool more than once.   *)
ReferenceSettleSuccess ==
  /\ ~Idle
  /\ ReferenceSettles
  /\ TransferOrWithdraw(SettleFrame(exec.tx).call, exec.payer)
  /\ \/ exec' = NoTx /\ Refund
     \/ SettleFrame(exec.tx).target # Pool /\ UNCHANGED <<exec, balance>>
  /\ UNCHANGED <<nonceSeq, slot>>

ReferenceSettleRevert ==
  /\ ~Idle
  /\ ~ReferenceSettles
  /\ Refund
  /\ exec' = NoTx
  /\ UNCHANGED <<storage, nonceSeq, ring, slot>>

ReferenceRequests == IF proofAuthorized THEN Requests ELSE Signed

ReferenceNext ==
  /\ \/ \E i \in Inners, v \in ShieldValues : Shield(i, v)
     \/ \E r \in ReferenceRequests : \E tx \in ReferenceTxs(r) :
          ReferenceValidate(tx)
     \/ ReferenceSettleSuccess
     \/ ReferenceSettleRevert
     \/ AdvanceSlot
     \/ \E who \in Accounts : ClaimWithdrawal(who) \/ ClaimFee(who)
  /\ UNCHANGED proofAuthorized

ReferenceInit == Init /\ proofAuthorized \in BOOLEAN

ReferenceSpec == ReferenceInit /\ [][ReferenceNext]_refVars

-----------------------------------------------------------------------------
(* Properties *)

(* The pool covers every unspent note and every credit whatever the        *)
(* sender has approved: the proof is checked where the money moves.        *)
CoveredWhateverApproved ==
  balance[Pool] >= ValueOf(LiveNotes) + Owed(withdrawalCredit) + Owed(feeCredit)

(* One consumption of a pair of keys pays for one settlement, even if the  *)
(* sender's own code stands between the frame and the pool and calls it    *)
(* again.                                                                  *)
SettledOncePerConsumption ==
  \A nf \in Nullifiers : noteSpent[nf] <= nonceSeq[nf] /\ noteSpent[nf] <= 1

(* With a SharedPoolSender, a spend is burned only by a tree with too      *)
(* little room, as with the dispatcher.  An account that signs anything    *)
(* can burn its signers' notes at will.                                    *)
SharedSenderBurnsOnlyNearCapacity ==
  proofAuthorized => BurnsOnlyNearCapacity

=============================================================================
