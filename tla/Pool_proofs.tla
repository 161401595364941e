---------------------------- MODULE Pool_proofs -----------------------------
(***************************************************************************)
(* Theorems about the production pool (ShieldedPool) for every instance:   *)
(* any notes, requests, capacity, ring and number of slots; then about the *)
(* split one (ReferencePool), which is ShieldedPool with its checks twice. *)
(***************************************************************************)
EXTENDS ReferencePool, Sums_proofs, SequenceTheorems

-----------------------------------------------------------------------------
(* The circuit *)

(* A number below the modulus is its own remainder.                        *)
LEMMA SmallRemainder ==
  ASSUME NEW p \in Nat, p > 0, NEW a \in 0 .. p - 1
  PROVE  a % p = a
OBVIOUS

(* The circuit equates the two sides of a spend modulo the field's prime.  *)
(* With the six range checks no sum wraps around, so a proof that verifies *)
(* neither creates nor destroys a wei, whatever the prover chooses.        *)
THEOREM ConservesExactly ==
  ASSUME NEW s, CircuitSatisfied(s)
  PROVE  s.nf1.cm.value + s.nf2.cm.value
         = s.outCm1.value + s.outCm2.value + s.publicAmount + s.fee
<1> DEFINE in1 == s.nf1.cm.value
           in2 == s.nf2.cm.value
           out1 == s.outCm1.value
           out2 == s.outCm2.value
           amount == s.publicAmount
           fee == s.fee
<1>1. \A v \in {in1, in2, out1, out2, amount, fee} : v \in 0 .. MaxValue - 1
  BY DEF CircuitSatisfied, InRange
<1>2. (in1 + in2) % FieldP = (out1 + out2 + amount + fee) % FieldP
  BY DEF CircuitSatisfied, Conserves
<1>3. in1 \in 0 .. MaxValue - 1 /\ in2 \in 0 .. MaxValue - 1
  BY <1>1
<1>4. /\ out1 \in 0 .. MaxValue - 1 /\ out2 \in 0 .. MaxValue - 1
      /\ amount \in 0 .. MaxValue - 1 /\ fee \in 0 .. MaxValue - 1
  BY <1>1
<1> HIDE DEF in1, in2, out1, out2, amount, fee
<1>5. in1 + in2 \in 0 .. FieldP - 1 /\ out1 + out2 + amount + fee \in 0 .. FieldP - 1
  BY <1>3, <1>4, FieldAssumption
<1>6. FieldP \in Nat /\ FieldP > 0
  BY FieldAssumption
<1>7. in1 + in2 = out1 + out2 + amount + fee
  BY <1>2, <1>5, <1>6, SmallRemainder
<1>. QED
  BY <1>7 DEF in1, in2, out1, out2, amount, fee

-----------------------------------------------------------------------------
(* The envelopes that can be built *)

(* A request's transaction carries the request's spend in its last frame,  *)
(* and an account of the system pays for it.                               *)
LEMMA BuiltTx ==
  ASSUME NEW r \in RequestRecords, NEW ref
  PROVE  /\ SettleFrame(BuildTx(r, ref)).call.spend = SpendOf(r, ref.root)
         /\ SpendTypeOK(SpendOf(r, ref.root))
         /\ PayerOf(BuildTx(r, ref)) \in Accounts
         /\ BuildTx(r, ref).maxCost \in Nat \ {0}
         /\ BuildTx(r, ref).keys \subseteq Nullifiers
         /\ 1 \in DOMAIN BuildTx(r, ref).refs
<1> DEFINE s == SpendOf(r, ref.root)
           tx == BuildTx(r, ref)
<1>1. /\ r.sender \in Accounts /\ r.payer \in Accounts
      /\ r.domain \in Domains
      /\ r.in1 \in Notes /\ r.in2 \in Notes /\ r.out1 \in Notes /\ r.out2 \in Notes
      /\ r.publicAmount \in Nat /\ r.fee \in Nat /\ r.maxCost \in Nat \ {0}
      /\ r.keys \subseteq Nullifiers
  BY DEF RequestRecords
<1>2. s.nf1 \in Nullifiers /\ s.nf2 \in Nullifiers
  BY <1>1 DEF SpendOf, Nullifier, Nullifiers
<1>3. SpendTypeOK(s)
  BY <1>1, <1>2 DEF SpendTypeOK, SpendOf
<1>4. SettleCall(r, s).spend = s
  BY DEF SettleCall
<1>5. tx.frames = BuildFrames(r, s) /\ tx.maxCost = r.maxCost
  BY DEF BuildTx
<1>6. tx.keys \subseteq Nullifiers /\ 1 \in DOMAIN tx.refs
  BY <1>1, <1>2 DEF BuildTx
<1>7. CASE r.payer = r.sender
  <2>1. /\ Len(tx.frames) = 2
        /\ tx.frames[2].call = SettleCall(r, s)
        /\ tx.frames[1].target = r.sender
    BY <1>5, <1>7 DEF BuildFrames, Frame
  <2>. QED  BY <2>1, <1>1, <1>3, <1>4, <1>5, <1>6 DEF SettleFrame, LastFrame, PayerOf
<1>8. CASE r.payer # r.sender
  <2>1. /\ Len(tx.frames) = 3
        /\ tx.frames[3].call = SettleCall(r, s)
        /\ tx.frames[2].target = r.payer
    BY <1>5, <1>8 DEF BuildFrames, Frame
  <2>. QED  BY <2>1, <1>1, <1>3, <1>4, <1>5, <1>6 DEF SettleFrame, LastFrame, PayerOf
<1>. QED  BY <1>7, <1>8

(* The parts of a request's transaction that approval and settlement read. *)
LEMMA TxTypes ==
  ASSUME NEW r \in RequestRecords, NEW tx \in TxsOf(r)
  PROVE  /\ SpendTypeOK(SettleFrame(tx).call.spend)
         /\ PayerOf(tx) \in Accounts
         /\ tx.maxCost \in Nat \ {0}
         /\ tx.keys \subseteq Nullifiers
         /\ 1 \in DOMAIN tx.refs
<1>1. PICK ref : tx = BuildTx(r, ref)
  BY DEF TxsOf
<1>. QED  BY <1>1, BuiltTx

(* What the lemmas below are about is a step of the pool whatever is sent  *)
(* to it: any deposit, and any envelope that can be built from a request   *)
(* over any reference.  The steps of the pool with a given set of wallets  *)
(* (Next) are among them, and so are those of the modules that extend it.  *)
AnyStep ==
  \/ \E i \in Inners, v \in Values : Shield(i, v)
  \/ \E r \in RequestRecords : \E ref : Validate(BuildTx(r, ref))
  \/ SettleSuccess
  \/ SettleRevert
  \/ AdvanceSlot
  \/ \E who \in Accounts : ClaimWithdrawal(who) \/ ClaimFee(who)

(* The steps of the model are such steps. *)
LEMMA NextIsAny == [Next]_vars => [AnyStep]_vars
<1> SUFFICES ASSUME Next PROVE AnyStep
  OBVIOUS
<1>1. ASSUME NEW i \in Inners, NEW v \in ShieldValues, Shield(i, v)
      PROVE  AnyStep
  BY <1>1, DepositsAssumption DEF AnyStep
<1>2. ASSUME NEW r \in Requests, NEW tx \in TxsOf(r), Validate(tx)
      PROVE  AnyStep
  <2>1. PICK ref : tx = BuildTx(r, ref)
    BY DEF TxsOf
  <2>. QED  BY <1>2, <2>1, RequestsAssumption DEF AnyStep
<1>. QED  BY <1>1, <1>2 DEF Next, AnyStep

-----------------------------------------------------------------------------
(* The tree *)

(* An insertion keeps the leaves and adds at most one.                     *)
LEMMA InsertIfNewType ==
  ASSUME NEW ls \in Seq(Notes), NEW cm \in Notes
  PROVE  /\ InsertIfNew(ls, cm) \in Seq(Notes)
         /\ Leaves(ls) \subseteq Leaves(InsertIfNew(ls, cm))
         /\ Len(InsertIfNew(ls, cm)) <= Len(ls) + 1
<1>1. CASE cm \in Leaves(ls)
  BY <1>1 DEF InsertIfNew
<1>2. CASE cm \notin Leaves(ls)
  <2>1. InsertIfNew(ls, cm) = Append(ls, cm)
    BY <1>2 DEF InsertIfNew
  <2>2. \A i \in DOMAIN ls : i \in DOMAIN Append(ls, cm) /\ Append(ls, cm)[i] = ls[i]
    OBVIOUS
  <2>3. Leaves(ls) \subseteq Leaves(Append(ls, cm))
    BY <2>2 DEF Leaves
  <2>. QED  BY <2>1, <2>3
<1>. QED  BY <1>1, <1>2

(* A settlement keeps the leaves and adds at most two.                     *)
LEMMA InsertOutputsType ==
  ASSUME NEW ls \in Seq(Notes), NEW s, SpendTypeOK(s)
  PROVE  /\ InsertOutputs(ls, s) \in Seq(Notes)
         /\ Leaves(ls) \subseteq Leaves(InsertOutputs(ls, s))
         /\ Len(InsertOutputs(ls, s)) <= Len(ls) + 2
<1>1. s.outCm1 \in Notes /\ s.outCm2 \in Notes
  BY DEF SpendTypeOK
<1> DEFINE mid == InsertIfNew(ls, s.outCm1)
<1>2. mid \in Seq(Notes) /\ Leaves(ls) \subseteq Leaves(mid) /\ Len(mid) <= Len(ls) + 1
  BY <1>1, InsertIfNewType
<1>3. /\ InsertIfNew(mid, s.outCm2) \in Seq(Notes)
      /\ Leaves(mid) \subseteq Leaves(InsertIfNew(mid, s.outCm2))
      /\ Len(InsertIfNew(mid, s.outCm2)) <= Len(mid) + 1
  BY <1>1, <1>2, InsertIfNewType
<1>. QED  BY <1>2, <1>3 DEF InsertOutputs

-----------------------------------------------------------------------------
(* Types *)

(* A published root is an entry of the ring.                               *)
LEMMA PublishRootType ==
  ASSUME TypeOK, NEW root \in Seq(Notes), PublishRoot(root)
  PROVE  ring' \subseteq [slot : 0 .. MaxSlot, root : Seq(Notes)]
BY DEF TypeOK, PublishRoot

(* Credits stay naturals.                                                  *)
LEMMA CreditType ==
  ASSUME NEW credit \in [Accounts -> Nat], NEW who, NEW amount \in Nat
  PROVE  Credit(credit, who, amount) \in [Accounts -> Nat]
<1>1. \A a \in Accounts : credit[a] \in Nat /\ credit[a] + amount \in Nat
  OBVIOUS
<1>2. CASE who \in Accounts
  <2>1. credit[who] + amount \in Nat
    BY <1>1, <1>2
  <2>. QED  BY <2>1 DEF Credit
<1>3. CASE who \notin Accounts
  BY <1>3 DEF Credit
<1>. QED  BY <1>2, <1>3

(* Balances stay integers under a refund.                                  *)
LEMMA RefundType ==
  ASSUME TypeOK, ~Idle, Refund
  PROVE  balance' \in [Accounts -> Int]
<1>1. exec.tx.maxCost \in Nat
  BY DEF TypeOK, ExecTypeOK
<1>2. PICK charged \in 1 .. exec.tx.maxCost :
        balance' = [balance EXCEPT ![exec.payer] = @ + (exec.tx.maxCost - charged)]
  BY DEF Refund
<1>3. exec.payer \in Accounts
  BY DEF TypeOK, ExecTypeOK
<1>4. balance[exec.payer] + (exec.tx.maxCost - charged) \in Int
  BY <1>1, <1>3 DEF TypeOK
<1>. QED  BY <1>2, <1>4 DEF TypeOK

(* The types hold at the start.                                            *)
LEMMA TypeInit == Init => TypeOK
<1> SUFFICES ASSUME Init PROVE TypeOK
  OBVIOUS
<1> USE DEF Init
<1>1. ring \subseteq [slot : 0 .. MaxSlot, root : Seq(Notes)] /\ slot \in 0 .. MaxSlot
  BY RunAssumption
<1>2. balance \in [Accounts -> Int]
  BY RunAssumption
<1>3. leaves \in Seq(Notes) /\ Len(leaves) <= Capacity /\ currentRoot \in Seq(Notes)
  BY CapacityAssumption
<1>. QED  BY <1>1, <1>2, <1>3 DEF TypeOK, ExecTypeOK, Idle

(* A deposit keeps the types.                                              *)
LEMMA TypeShield ==
  ASSUME TypeOK, NEW i \in Inners, NEW v \in Values, Shield(i, v)
  PROVE  TypeOK'
<1> DEFINE cm == [inner |-> i, value |-> v]
<1>1. cm \in Notes
  BY DEF Notes
<1>2. leaves' = Append(leaves, cm) /\ currentRoot' = leaves' /\ PublishRoot(currentRoot')
  BY DEF Shield
<1>3. leaves' \in Seq(Notes) /\ Len(leaves') <= Capacity
  BY <1>1, <1>2, CapacityAssumption DEF TypeOK, Shield
<1>4. ring' \subseteq [slot : 0 .. MaxSlot, root : Seq(Notes)]
  BY <1>2, <1>3, PublishRootType
<1>5. balance' \in [Accounts -> Int]
  <2>1. balance[Pool] + v \in Int
    BY ValuesAssumption, AccountsAssumption DEF TypeOK
  <2>. QED  BY <2>1 DEF Shield, Credit, TypeOK
<1>6. ExecTypeOK'
  BY DEF Shield, Idle, ExecTypeOK, NoTx
<1>. QED  BY <1>2, <1>3, <1>4, <1>5, <1>6 DEF TypeOK, Shield

(* This and InvValidate hold of every envelope that can be built, for a    *)
(* request of the model's wallets or for another, whatever root it names.  *)
LEMMA TypeValidate ==
  ASSUME TypeOK, NEW r \in RequestRecords, NEW ref, NEW tx, tx = BuildTx(r, ref),
         Validate(tx)
  PROVE  TypeOK'
<1>1. /\ SpendTypeOK(SettleFrame(tx).call.spend)
      /\ PayerOf(tx) \in Accounts
      /\ tx.maxCost \in Nat \ {0}
      /\ tx.keys \subseteq Nullifiers
  BY BuiltTx
<1>2. /\ exec' = [payer |-> PayerOf(tx), tx |-> tx]
      /\ balance' = [balance EXCEPT ![PayerOf(tx)] = @ - tx.maxCost]
      /\ ConsumeKeys(tx)
      /\ UNCHANGED <<leaves, currentRoot, withdrawalCredit, feeCredit, noteSpent, ring, slot>>
  BY DEF Validate, storage
<1>3. exec'.tx = tx /\ exec'.payer = PayerOf(tx)
  BY <1>2
<1>4. SpendInFlight' = SettleFrame(tx).call.spend
  BY <1>3 DEF SpendInFlight, SettleFrame, LastFrame
<1>5. SpendTypeOK(SpendInFlight)'
  BY <1>1, <1>4 DEF SpendTypeOK
<1>6. ExecTypeOK'
  BY <1>1, <1>3, <1>5 DEF ExecTypeOK
<1>7. nonceSeq' \in [Nullifiers -> Nat]
  BY <1>2 DEF ConsumeKeys, TypeOK
<1>8. balance' \in [Accounts -> Int]
  BY <1>1, <1>2 DEF TypeOK
<1>. QED  BY <1>2, <1>6, <1>7, <1>8 DEF TypeOK

(* A settlement keeps them.                                                *)
LEMMA TypeSettle ==
  ASSUME TypeOK, SettleSuccess
  PROVE  TypeOK'
<1>1. /\ ~Idle /\ TreeHasRoom(SpendInFlight) /\ Refund
      /\ TransferOrWithdraw(SettleFrame(exec.tx).call, exec.payer)
      /\ exec' = NoTx /\ UNCHANGED <<nonceSeq, slot>>
  BY DEF SettleSuccess, SettleSucceeds
<1> DEFINE c == SettleFrame(exec.tx).call
<1>2. c.spend = SpendInFlight /\ SpendTypeOK(SpendInFlight)
  BY <1>1 DEF SpendInFlight, TypeOK, ExecTypeOK
<1>3. SpendInFlight.publicAmount \in Nat /\ SpendInFlight.fee \in Nat
  BY <1>2 DEF SpendTypeOK
<1>4. Settle(SpendInFlight, exec.payer)
  BY <1>1, <1>2 DEF TransferOrWithdraw
<1>5. leaves' \in Seq(Notes) /\ Len(leaves') <= Capacity
  BY <1>1, <1>2, <1>4, InsertOutputsType DEF Settle, TreeHasRoom, TypeOK
<1>6. currentRoot' \in Seq(Notes)
  BY <1>4, <1>5 DEF Settle, TypeOK
<1>7. ring' \subseteq [slot : 0 .. MaxSlot, root : Seq(Notes)]
  BY <1>4, <1>6, PublishRootType DEF Settle
<1>8. feeCredit' \in [Accounts -> Nat]
  BY <1>3, <1>4, CreditType DEF Settle, TypeOK
<1>9. withdrawalCredit' \in [Accounts -> Nat]
  BY <1>1, <1>2, <1>3, CreditType DEF TransferOrWithdraw, TypeOK
<1>10. noteSpent' \in [Nullifiers -> Nat]
  BY <1>1 DEF TransferOrWithdraw, TypeOK
<1>11. balance' \in [Accounts -> Int]
  BY <1>1, RefundType
<1>12. ExecTypeOK'
  BY <1>1 DEF ExecTypeOK, Idle, NoTx
<1>. QED  BY <1>1, <1>5, <1>6, <1>7, <1>8, <1>9, <1>10, <1>11, <1>12 DEF TypeOK

(* A reverting settlement keeps them.                                      *)
LEMMA TypeRevert ==
  ASSUME TypeOK, SettleRevert
  PROVE  TypeOK'
<1>1. balance' \in [Accounts -> Int]
  BY RefundType DEF SettleRevert
<1>2. ExecTypeOK'
  BY DEF SettleRevert, ExecTypeOK, Idle, NoTx
<1>. QED  BY <1>1, <1>2 DEF SettleRevert, TypeOK, storage

(* Time keeps them.                                                        *)
LEMMA TypeSlot ==
  ASSUME TypeOK, AdvanceSlot
  PROVE  TypeOK'
<1>1. slot' \in 0 .. MaxSlot
  BY RunAssumption DEF AdvanceSlot, TypeOK
<1>2. ExecTypeOK'
  BY DEF AdvanceSlot, ExecTypeOK, Idle, NoTx
<1>. QED  BY <1>1, <1>2 DEF AdvanceSlot, TypeOK, storage

(* A claim keeps them.                                                     *)
LEMMA TypeClaim ==
  ASSUME TypeOK, NEW who \in Accounts, ClaimWithdrawal(who) \/ ClaimFee(who)
  PROVE  TypeOK'
<1>1. /\ balance[Pool] \in Int /\ balance[who] \in Int
      /\ withdrawalCredit[who] \in Int /\ feeCredit[who] \in Int
  BY AccountsAssumption DEF TypeOK
<1>2. CASE ClaimWithdrawal(who)
  <2>1. balance' \in [Accounts -> Int]
    <3>1. /\ balance[Pool] - withdrawalCredit[who] \in Int
          /\ balance[who] + withdrawalCredit[who] \in Int
      BY <1>1
    <3>. QED  BY <1>2, <3>1 DEF ClaimWithdrawal, TypeOK
  <2>2. withdrawalCredit' \in [Accounts -> Nat] /\ feeCredit' \in [Accounts -> Nat]
    BY <1>2 DEF ClaimWithdrawal, TypeOK
  <2>3. ExecTypeOK'
    BY <1>2 DEF ClaimWithdrawal, ExecTypeOK, Idle, NoTx
  <2>. QED  BY <1>2, <2>1, <2>2, <2>3 DEF ClaimWithdrawal, TypeOK
<1>3. CASE ClaimFee(who)
  <2>1. balance' \in [Accounts -> Int]
    <3>1. /\ balance[Pool] - feeCredit[who] \in Int
          /\ balance[who] + feeCredit[who] \in Int
      BY <1>1
    <3>. QED  BY <1>3, <3>1 DEF ClaimFee, TypeOK
  <2>2. withdrawalCredit' \in [Accounts -> Nat] /\ feeCredit' \in [Accounts -> Nat]
    BY <1>3 DEF ClaimFee, TypeOK
  <2>3. ExecTypeOK'
    BY <1>3 DEF ClaimFee, ExecTypeOK, Idle, NoTx
  <2>. QED  BY <1>3, <2>1, <2>2, <2>3 DEF ClaimFee, TypeOK
<1>. QED  BY <1>2, <1>3

(* Every step keeps them.                                                  *)
LEMMA TypeStep == TypeOK /\ [AnyStep]_vars => TypeOK'
<1> SUFFICES ASSUME TypeOK, [AnyStep]_vars PROVE TypeOK'
  OBVIOUS
<1>1. CASE UNCHANGED vars
  BY <1>1 DEF vars, storage, TypeOK, ExecTypeOK, SpendInFlight, SpendTypeOK, Idle, NoTx,
              SettleFrame, LastFrame
<1>2. CASE AnyStep
  BY <1>2, TypeShield, TypeValidate, TypeSettle, TypeRevert, TypeSlot, TypeClaim DEF AnyStep
<1>. QED  BY <1>1, <1>2

(* The storage of the pool and the protocol state around it keep their     *)
(* types: no step of the dispatcher or of settlement leaves the tree       *)
(* longer than its capacity or takes a credit below zero.                  *)
THEOREM TypeCorrect == Spec => []TypeOK
BY TypeInit, TypeStep, NextIsAny, PTL DEF Spec

-----------------------------------------------------------------------------
(* Authorisation implies settlement *)

(* Settlement repeats frame 0's checks against the envelope instead of     *)
(* trusting them.  What frame 0 approved passes every one of them,         *)
(* whichever account pays: apart from a tree without room, a settlement of *)
(* an approved spend never reverts, so its notes are never burned.         *)
THEOREM ApprovedSettles ==
  ASSUME NEW tx, NEW payer \in Accounts, DispatcherApproves(tx, 1)
  PROVE  SettlementAccepts(tx, LastFrame(tx), payer)
<1> DEFINE f == SettleFrame(tx)
           s == f.call.spend
<1>1. /\ tx.sender = Pool /\ Len(tx.frames) \in {2, 3}
      /\ DispatcherSettleFrame(f) /\ DispatcherKeys(tx, s)
      /\ DispatcherRoot(tx, s) /\ VerifyFrameProof(s)
  BY DEF DispatcherApproves
<1>2. tx.frames[LastFrame(tx)] = f
  BY DEF SettleFrame
<1>3. SettlementShape(f.call)
  BY <1>1 DEF DispatcherSettleFrame, SettlementShape
<1>4. ValidateSpend(s)
  BY <1>1 DEF VerifyFrameProof, ValidateSpend
<1>5. SettlementBindings(EnvelopeProbe(tx, LastFrame(tx), payer), s)
  BY <1>1, <1>2
     DEF SettlementBindings, EnvelopeProbe, DispatcherSettleFrame, DispatcherKeys,
         DispatcherRoot, LastFrame
<1>. QED
  BY <1>1, <1>2, <1>3, <1>4, <1>5 DEF SettlementAccepts, SettlementCaller

-----------------------------------------------------------------------------
(* The inductive invariant.  The properties below are not inductive: that  *)
(* settling does not spend a note a second time, for instance, depends on  *)
(* what frame 0 has established about the transaction in flight and on the *)
(* nonces it consumed.                                                     *)

Extends(ls, ms) == /\ Len(ls) <= Len(ms)
                   /\ \A i \in 1 .. Len(ls) : ms[i] = ls[i]

RootsInv ==
  /\ currentRoot = leaves
  /\ \A e \in ring : e.slot <= slot /\ Extends(e.root, leaves)
  /\ \A e \in ring : (\A f \in ring : f.slot <= e.slot) => e.root = leaves

SpentInv ==
  \A nf \in Nullifiers :
    noteSpent[nf] > 0 => /\ noteSpent[nf] = 1 /\ nonceSeq[nf] > 0
                         /\ nf.domain = PoolDomain
                         /\ nf.cm.value # 0 => nf.cm \in Leaves(leaves)

RunningInv ==
  SpendRunning => /\ DispatcherApproves(exec.tx, 1)
                  /\ Leaves(SpendInFlight.root) \subseteq Leaves(leaves)
                  /\ \A k \in exec.tx.keys : noteSpent[k] = 0 /\ nonceSeq[k] > 0

BurnInv ==
  \A nf \in Burned : \/ SpendRunning /\ nf \in exec.tx.keys
                     \/ Len(leaves) >= Capacity - 1

IInv == TypeOK /\ RootsInv /\ SpentInv /\ RunningInv /\ BurnInv

(* A longer tree holds the leaves of the shorter one.                      *)
LEMMA ExtendsLeaves ==
  ASSUME NEW ls \in Seq(Notes), NEW ms \in Seq(Notes), Extends(ls, ms)
  PROVE  Leaves(ls) \subseteq Leaves(ms)
<1>1. DOMAIN ls = 1 .. Len(ls) /\ DOMAIN ms = 1 .. Len(ms)
  OBVIOUS
<1>. QED  BY <1>1 DEF Leaves, Extends

(* An insertion extends the tree.                                          *)
LEMMA InsertIfNewExtends ==
  ASSUME NEW ls \in Seq(Notes), NEW cm \in Notes
  PROVE  Extends(ls, InsertIfNew(ls, cm))
BY DEF Extends, InsertIfNew

(* Extensions of extensions are extensions.                                *)
LEMMA ExtendsTransitive ==
  ASSUME NEW ls \in Seq(Notes), NEW ms \in Seq(Notes), NEW ns \in Seq(Notes),
         Extends(ls, ms), Extends(ms, ns)
  PROVE  Extends(ls, ns)
BY DEF Extends

(* A settlement extends the tree.                                          *)
LEMMA InsertOutputsExtends ==
  ASSUME NEW ls \in Seq(Notes), NEW s, SpendTypeOK(s)
  PROVE  Extends(ls, InsertOutputs(ls, s))
<1> DEFINE mid == InsertIfNew(ls, s.outCm1)
<1>1. s.outCm1 \in Notes /\ s.outCm2 \in Notes
  BY DEF SpendTypeOK
<1>2. mid \in Seq(Notes) /\ Extends(ls, mid)
  BY <1>1, InsertIfNewType, InsertIfNewExtends
<1>3. InsertIfNew(mid, s.outCm2) \in Seq(Notes) /\ Extends(mid, InsertIfNew(mid, s.outCm2))
  BY <1>1, <1>2, InsertIfNewType, InsertIfNewExtends
<1>. QED  BY <1>2, <1>3, ExtendsTransitive DEF InsertOutputs

(* The invariant holds at the start.                                       *)
LEMMA InvInit == Init => IInv
<1> SUFFICES ASSUME Init PROVE IInv
  OBVIOUS
<1>1. TypeOK
  BY TypeInit
<1>2. RootsInv
  BY DEF Init, RootsInv, Extends
<1>3. SpentInv /\ BurnInv /\ RunningInv
  BY DEF Init, SpentInv, BurnInv, RunningInv, Burned, SpendRunning, Idle
<1>. QED  BY <1>1, <1>2, <1>3 DEF IInv

-----------------------------------------------------------------------------
(* The inductive step *)

(* publishing the new root of a tree that has only grown *)
LEMMA RootsPublished ==
  ASSUME TypeOK, RootsInv, leaves' \in Seq(Notes), Extends(leaves, leaves'),
         currentRoot' = leaves', PublishRoot(currentRoot'), slot' = slot
  PROVE  RootsInv'
<1> DEFINE new == [slot |-> slot, root |-> leaves']
<1>1. ring' = {e \in ring : e.slot % RingSize # slot % RingSize} \cup {new}
  BY DEF PublishRoot
<1>2. \A e \in ring' : e.slot <= slot' /\ Extends(e.root, leaves')
  <2>1. new.slot <= slot /\ Extends(new.root, leaves')
    BY DEF Extends, TypeOK
  <2>2. \A e \in ring : e.root \in Seq(Notes) /\ e.slot <= slot /\ Extends(e.root, leaves)
    BY DEF RootsInv, TypeOK
  <2>3. \A e \in ring : Extends(e.root, leaves')
    BY <2>2, ExtendsTransitive DEF TypeOK
  <2>. QED  BY <1>1, <2>1, <2>2, <2>3
<1>3. ASSUME NEW e \in ring', \A g \in ring' : g.slot <= e.slot
      PROVE  e.root = leaves'
  <2>1. CASE e = new
    BY <2>1
  <2>2. CASE e # new
    <3>1. e \in ring /\ e.slot % RingSize # slot % RingSize
      BY <1>1, <2>2
    <3>2. slot <= e.slot
      <4>1. new \in ring'
        BY <1>1
      <4>2. new.slot <= e.slot
        BY <1>3, <4>1
      <4>. QED  BY <4>2
    <3>3. e.slot <= slot /\ e.slot \in Int /\ slot \in Int
      BY <3>1 DEF RootsInv, TypeOK
    <3>. QED  BY <3>1, <3>2, <3>3
  <2>. QED  BY <2>1, <2>2
<1>4. \A e \in ring' : (\A g \in ring' : g.slot <= e.slot) => e.root = leaves'
  BY <1>3
<1>. QED  BY <1>2, <1>4 DEF RootsInv

(* A deposit keeps it.                                                     *)
LEMMA InvShield ==
  ASSUME IInv, NEW i \in Inners, NEW v \in Values, Shield(i, v)
  PROVE  IInv'
<1> DEFINE cm == [inner |-> i, value |-> v]
<1>1. TypeOK /\ TypeOK'
  BY TypeShield DEF IInv
<1>2. cm \in Notes
  BY DEF Notes
<1>3. /\ Idle /\ leaves' = Append(leaves, cm)
      /\ currentRoot' = leaves' /\ PublishRoot(currentRoot')
      /\ UNCHANGED <<noteSpent, nonceSeq, slot, exec>>
  BY DEF Shield
<1>4. leaves \in Seq(Notes) /\ leaves' \in Seq(Notes)
  BY <1>1 DEF TypeOK
<1>5. Extends(leaves, leaves')
  BY <1>2, <1>3, <1>4 DEF Extends
<1>6. Leaves(leaves) \subseteq Leaves(leaves') /\ Len(leaves') \in Nat /\ Len(leaves) <= Len(leaves')
  BY <1>4, <1>5, ExtendsLeaves DEF Extends
<1>7. RootsInv'
  BY <1>1, <1>3, <1>4, <1>5, RootsPublished DEF IInv
<1>8. SpentInv'
  BY <1>3, <1>6 DEF IInv, SpentInv
<1>9. RunningInv'
  BY <1>3 DEF RunningInv, SpendRunning, Idle
<1>10. BurnInv'
  BY <1>3, <1>4, <1>6, CapacityAssumption DEF IInv, BurnInv, Burned, SpendRunning, Idle
<1>. QED  BY <1>1, <1>7, <1>8, <1>9, <1>10 DEF IInv

(* An approval keeps it.                                                   *)
LEMMA InvValidate ==
  ASSUME IInv, NEW r \in RequestRecords, NEW ref, NEW tx, tx = BuildTx(r, ref),
         Validate(tx)
  PROVE  IInv'
<1>1. TypeOK /\ TypeOK'
  BY TypeValidate DEF IInv
<1>2. /\ Idle /\ NoncesCurrent(tx) /\ RefValid(tx.refs[1]) /\ SenderApproves(tx)
      /\ ConsumeKeys(tx) /\ exec' = [payer |-> PayerOf(tx), tx |-> tx]
      /\ tx.keys \subseteq Nullifiers
      /\ UNCHANGED <<leaves, currentRoot, noteSpent, ring, slot>>
  BY BuiltTx DEF Validate, storage
<1>3. exec'.tx = tx /\ SpendInFlight' = SettleFrame(tx).call.spend
  BY <1>2 DEF SpendInFlight, SettleFrame, LastFrame
<1>4. RootsInv'
  BY <1>2 DEF IInv, RootsInv
<1>5. \A k \in Nullifiers : nonceSeq[k] \in Nat /\ noteSpent[k] \in Nat
  BY <1>1 DEF TypeOK
<1>6. \A k \in Nullifiers : nonceSeq[k] > 0 => nonceSeq'[k] > 0
  BY <1>2, <1>5 DEF ConsumeKeys
<1>7. SpentInv'
  BY <1>2, <1>6 DEF IInv, SpentInv
<1>8. CASE tx.sender # Pool
  <2>1. nonceSeq' = nonceSeq /\ ~SpendRunning'
    BY <1>2, <1>3, <1>8 DEF ConsumeKeys, SpendRunning
  <2>2. RunningInv'
    BY <2>1 DEF RunningInv
  <2>3. BurnInv'
    BY <1>2, <2>1 DEF IInv, BurnInv, Burned, SpendRunning
  <2>. QED  BY <1>1, <1>4, <1>7, <2>2, <2>3 DEF IInv
<1>9. CASE tx.sender = Pool
  <2> DEFINE s == SettleFrame(tx).call.spend
  <2>1. /\ DispatcherApproves(tx, 1) /\ DispatcherKeys(tx, s) /\ DispatcherRoot(tx, s)
    BY <1>2, <1>9 DEF SenderApproves, DispatcherApproves
  <2>2. \A k \in tx.keys : nonceSeq[k] = 0 /\ noteSpent[k] = 0
    <3>1. \A k \in tx.keys : nonceSeq[k] = 0
      BY <1>2, <1>9, <2>1 DEF NoncesCurrent, DispatcherKeys
    <3>. QED  BY <1>2, <1>5, <3>1 DEF IInv, SpentInv
  <2>3. \A k \in tx.keys : nonceSeq'[k] > 0
    BY <1>2, <1>9, <2>2 DEF ConsumeKeys
  <2>4. [slot |-> tx.refs[1].slot, root |-> s.root] \in ring
    BY <1>2, <2>1 DEF DispatcherRoot, RefValid
  <2>5. s.root \in Seq(Notes) /\ Extends(s.root, leaves)
    BY <1>1, <2>4 DEF IInv, RootsInv, TypeOK
  <2>6. Leaves(s.root) \subseteq Leaves(leaves)
    BY <1>1, <2>5, ExtendsLeaves DEF TypeOK
  <2>7. RunningInv'
    <3>1. DispatcherApproves(exec.tx, 1)'
      BY <1>3, <2>1
    <3>2. Leaves(SpendInFlight.root)' \subseteq Leaves(leaves)'
      BY <1>2, <1>3, <2>6
    <3>3. \A k \in exec'.tx.keys : noteSpent'[k] = 0 /\ nonceSeq'[k] > 0
      BY <1>2, <1>3, <2>2, <2>3
    <3>. QED  BY <3>1, <3>2, <3>3 DEF RunningInv
  <2>8. BurnInv'
    <3>1. SpendRunning'
      <4>1. exec'.payer # NoTx.payer
        BY <1>2, BuiltTx, AccountsAssumption DEF NoTx
      <4>. QED  BY <1>3, <1>9, <4>1 DEF SpendRunning, Idle
    <3>2. \A nf \in Nullifiers \ tx.keys : nonceSeq'[nf] = nonceSeq[nf]
      BY <1>2, <1>9 DEF ConsumeKeys
    <3>3. \A nf \in Burned : Len(leaves) >= Capacity - 1
      BY <1>2 DEF IInv, BurnInv, SpendRunning
    <3>. QED  BY <1>2, <1>3, <3>1, <3>2, <3>3 DEF BurnInv, Burned
  <2>. QED  BY <1>1, <1>4, <1>7, <2>7, <2>8 DEF IInv
<1>. QED  BY <1>8, <1>9

(* A settlement keeps it.                                                  *)
LEMMA InvSettle ==
  ASSUME IInv, SettleSuccess
  PROVE  IInv'
<1> DEFINE s == SpendInFlight
           tx == exec.tx
<1>1. TypeOK /\ TypeOK'
  BY TypeSettle DEF IInv
<1>2. /\ ~Idle /\ TreeHasRoom(s) /\ SettlementAccepts(tx, LastFrame(tx), exec.payer)
      /\ TransferOrWithdraw(SettleFrame(tx).call, exec.payer)
      /\ exec' = NoTx /\ UNCHANGED <<nonceSeq, slot>>
  BY DEF SettleSuccess, SettleSucceeds
<1>3. SettleFrame(tx).call.spend = s /\ SpendTypeOK(s)
  BY <1>1, <1>2 DEF SpendInFlight, TypeOK, ExecTypeOK
<1>4. /\ Settle(s, exec.payer)
      /\ noteSpent' = [n \in Nullifiers |->
                         noteSpent[n] + (IF n = s.nf1 THEN 1 ELSE 0)
                                      + (IF n = s.nf2 THEN 1 ELSE 0)]
  BY <1>2, <1>3 DEF TransferOrWithdraw
<1>5. SpendRunning
  BY <1>2 DEF SpendRunning, SettlementAccepts, SettlementCaller
<1>6. /\ DispatcherApproves(tx, 1) /\ Leaves(s.root) \subseteq Leaves(leaves)
      /\ \A k \in tx.keys : noteSpent[k] = 0 /\ nonceSeq[k] > 0
  BY <1>5 DEF IInv, RunningInv
<1>7. tx.keys = {s.nf1, s.nf2} /\ s.domain = PoolDomain /\ CircuitSatisfied(s)
  BY <1>3, <1>6 DEF DispatcherApproves, DispatcherKeys, VerifyFrameProof
<1>8. s.nf1 \in Nullifiers /\ s.nf2 \in Nullifiers /\ s.nf1 # s.nf2
  BY <1>3, <1>7 DEF SpendTypeOK, CircuitSatisfied
<1>9. /\ leaves' \in Seq(Notes) /\ Extends(leaves, leaves')
      /\ Leaves(leaves) \subseteq Leaves(leaves')
      /\ Len(leaves) \in Nat /\ Len(leaves') \in Nat /\ Len(leaves) <= Len(leaves')
  <2>1. leaves \in Seq(Notes) /\ leaves' = InsertOutputs(leaves, s)
    BY <1>1, <1>4 DEF TypeOK, Settle
  <2>2. leaves' \in Seq(Notes) /\ Extends(leaves, leaves')
    BY <1>3, <2>1, InsertOutputsType, InsertOutputsExtends
  <2>. QED  BY <2>1, <2>2, ExtendsLeaves DEF Extends
<1>10. RootsInv'
  <2>1. currentRoot' = leaves'
    BY <1>4 DEF IInv, RootsInv, Settle
  <2>2. PublishRoot(currentRoot')
    BY <1>4 DEF Settle
  <2>. QED  BY <1>1, <1>2, <1>9, <2>1, <2>2, RootsPublished DEF IInv
<1>11. ASSUME NEW nf \in {s.nf1, s.nf2}
       PROVE  /\ noteSpent'[nf] = 1 /\ nonceSeq'[nf] > 0 /\ nf.domain = PoolDomain
              /\ nf.cm.value # 0 => nf.cm \in Leaves(leaves')
  <2>1. noteSpent'[nf] = 1 /\ nonceSeq'[nf] > 0
    BY <1>2, <1>4, <1>6, <1>7, <1>8
  <2>2. nf = Nullifier(s.domain, nf.cm) /\ InputOpens(s.root, nf.cm)
    BY <1>7 DEF CircuitSatisfied
  <2>3. nf.domain = PoolDomain
    BY <1>7, <2>2 DEF Nullifier
  <2>. QED  BY <1>6, <1>9, <2>1, <2>2, <2>3 DEF InputOpens
<1>12. \A nf \in Nullifiers : nf \notin {s.nf1, s.nf2} => noteSpent'[nf] = noteSpent[nf]
  BY <1>1, <1>4 DEF TypeOK
<1>13. SpentInv'
  <2> SUFFICES ASSUME NEW nf \in Nullifiers, noteSpent'[nf] > 0
               PROVE  /\ noteSpent'[nf] = 1 /\ nonceSeq'[nf] > 0
                      /\ nf.domain = PoolDomain
                      /\ nf.cm.value # 0 => nf.cm \in Leaves(leaves')
    BY DEF SpentInv
  <2>1. CASE nf \in {s.nf1, s.nf2}
    BY <1>11, <2>1
  <2>2. CASE nf \notin {s.nf1, s.nf2}
    BY <1>2, <1>9, <1>12, <2>2 DEF IInv, SpentInv
  <2>. QED  BY <2>1, <2>2
<1>14. RunningInv'
  BY <1>2 DEF RunningInv, SpendRunning, Idle
<1>15. BurnInv'
  <2> SUFFICES ASSUME NEW nf \in Nullifiers, nonceSeq'[nf] > 0, noteSpent'[nf] = 0
               PROVE  Len(leaves') >= Capacity - 1
    BY DEF BurnInv, Burned
  <2>1. nf \notin {s.nf1, s.nf2}
    BY <1>11
  <2>2. nf \in Burned /\ nf \notin tx.keys
    BY <1>2, <1>7, <1>12, <2>1 DEF Burned
  <2>3. Len(leaves) >= Capacity - 1
    BY <2>2 DEF IInv, BurnInv
  <2>. QED  BY <1>9, <2>3, CapacityAssumption
<1>. QED  BY <1>1, <1>10, <1>13, <1>14, <1>15 DEF IInv

(* A reverted settlement of an approved spend found too little room.       *)
LEMMA InvRevert ==
  ASSUME IInv, SettleRevert
  PROVE  IInv'
<1>1. TypeOK /\ TypeOK'
  BY TypeRevert DEF IInv
<1>2. /\ ~Idle /\ ~SettleSucceeds /\ exec' = NoTx
      /\ UNCHANGED <<leaves, currentRoot, noteSpent, nonceSeq, ring, slot>>
  BY DEF SettleRevert, storage
<1>3. RootsInv' /\ SpentInv'
  BY <1>2 DEF IInv, RootsInv, SpentInv
<1>4. RunningInv'
  BY <1>2 DEF RunningInv, SpendRunning, Idle
<1>5. SpendRunning => Len(leaves) >= Capacity - 1
  <2> SUFFICES ASSUME SpendRunning PROVE Len(leaves) >= Capacity - 1
    OBVIOUS
  <2>1. exec.payer \in Accounts /\ SpendTypeOK(SpendInFlight) /\ leaves \in Seq(Notes)
    BY <1>1, <1>2 DEF TypeOK, ExecTypeOK
  <2>2. SettlementAccepts(exec.tx, LastFrame(exec.tx), exec.payer)
    BY <2>1, ApprovedSettles DEF IInv, RunningInv
  <2>3. ~(Len(InsertOutputs(leaves, SpendInFlight)) <= Capacity)
    BY <1>2, <2>2 DEF SettleSucceeds, TreeHasRoom
  <2>4. /\ InsertOutputs(leaves, SpendInFlight) \in Seq(Notes)
        /\ Len(InsertOutputs(leaves, SpendInFlight)) <= Len(leaves) + 2
    BY <2>1, InsertOutputsType
  <2>5. Len(leaves) \in Nat /\ Len(InsertOutputs(leaves, SpendInFlight)) \in Nat
    BY <2>1, <2>4
  <2>. QED  BY <2>3, <2>4, <2>5, CapacityAssumption
<1>6. BurnInv'
  BY <1>2, <1>5 DEF IInv, BurnInv, Burned
<1>. QED  BY <1>1, <1>3, <1>4, <1>6 DEF IInv

(* The remaining steps touch neither the tree nor a nullifier. *)
LEMMA InvElsewhere ==
  ASSUME IInv, TypeOK', Idle,
         UNCHANGED <<leaves, currentRoot, noteSpent, nonceSeq, ring, exec>>,
         slot' >= slot
  PROVE  IInv'
<1>1. RootsInv'
  <2>1. \A e \in ring : e.slot <= slot /\ e.slot \in Int /\ slot \in Int /\ slot' \in Int
    BY DEF IInv, RootsInv, TypeOK
  <2>2. \A e \in ring : e.slot <= slot'
    BY <2>1
  <2>. QED  BY <2>2 DEF IInv, RootsInv
<1>2. SpentInv'
  BY DEF IInv, SpentInv
<1>3. RunningInv' /\ BurnInv'
  BY DEF IInv, RunningInv, BurnInv, Burned, SpendRunning, Idle
<1>. QED  BY <1>1, <1>2, <1>3 DEF IInv

(* Every step keeps it.                                                    *)
LEMMA InvStep == IInv /\ [AnyStep]_vars => IInv'
<1> SUFFICES ASSUME IInv, [AnyStep]_vars PROVE IInv'
  OBVIOUS
<1>1. TypeOK /\ TypeOK'
  BY TypeStep DEF IInv
<1>2. CASE UNCHANGED vars
  BY <1>1, <1>2 DEF vars, storage, IInv, RootsInv, SpentInv, RunningInv, BurnInv, Burned,
                    SpendRunning, Idle, SpendInFlight, SettleFrame, LastFrame
<1>3. CASE AdvanceSlot
  <2>1. slot' >= slot
    BY <1>1, <1>3 DEF AdvanceSlot, TypeOK
  <2>. QED  BY <1>1, <1>3, <2>1, InvElsewhere DEF AdvanceSlot, storage
<1>4. ASSUME NEW who \in Accounts, ClaimWithdrawal(who) \/ ClaimFee(who)
      PROVE  IInv'
  <2>1. slot' >= slot
    BY <1>1, <1>4 DEF ClaimWithdrawal, ClaimFee, TypeOK
  <2>. QED  BY <1>1, <1>4, <2>1, InvElsewhere DEF ClaimWithdrawal, ClaimFee
<1>5. CASE AnyStep
  BY <1>3, <1>4, <1>5, InvShield, InvValidate, InvSettle, InvRevert DEF AnyStep
<1>. QED  BY <1>2, <1>5

(* So it always holds.                                                     *)
LEMMA Invariance == Spec => []IInv
BY InvInit, InvStep, NextIsAny, PTL DEF Spec

-----------------------------------------------------------------------------
(* What follows from the invariant *)

(* No sequence of transactions settles two spends of one note, under one   *)
(* domain or two, although _spend keeps no set of spent nullifiers.        *)
THEOREM NoteSpentOnce == Spec => []NoDoubleSpend
<1>1. IInv => NoDoubleSpend
  <2> SUFFICES ASSUME IInv, NEW nf1 \in Nullifiers, NEW nf2 \in Nullifiers,
                      nf1.cm = nf2.cm, noteSpent[nf1] > 0, noteSpent[nf2] > 0
               PROVE  nf1 = nf2 /\ noteSpent[nf1] = 1
    BY DEF NoDoubleSpend
  <2>1. noteSpent[nf1] = 1 /\ nf1.domain = PoolDomain /\ nf2.domain = PoolDomain
    BY DEF IInv, SpentInv
  <2>2. nf1 = nf2
    BY <2>1 DEF Nullifiers
  <2>. QED  BY <2>1, <2>2
<1>. QED  BY <1>1, Invariance, PTL

(* Whatever root a spend names and whoever published it, a note with value *)
(* that settlement spends was inserted by this pool.                       *)
THEOREM OnlyCommittedSpent == Spec => []SpentWasCommitted
<1>1. IInv => SpentWasCommitted
  BY DEF IInv, SpentInv, SpentWasCommitted
<1>. QED  BY <1>1, Invariance, PTL

(* Consumed nullifiers without a settlement: only near the full tree.      *)
THEOREM BurnsNeedFullTree == Spec => []BurnsOnlyNearCapacity
<1>1. IInv => BurnsOnlyNearCapacity
  BY DEF IInv, BurnInv, BurnsOnlyNearCapacity, SpendRunning
<1>. QED  BY <1>1, Invariance, PTL

(* The pool's roots, stored and published, are the roots of its tree now   *)
(* and at earlier points, and the newest published one is current.         *)
THEOREM RootsCurrent == Spec => []RootsFollowTree
<1>1. IInv => RootsFollowTree
  <2> SUFFICES ASSUME IInv, NEW e \in ring
               PROVE  e.root = SubSeq(leaves, 1, Len(e.root))
    BY DEF IInv, RootsInv, RootsFollowTree
  <2>1. /\ e.root \in Seq(Notes) /\ leaves \in Seq(Notes)
        /\ Len(e.root) <= Len(leaves)
        /\ \A i \in 1 .. Len(e.root) : leaves[i] = e.root[i]
    BY DEF IInv, TypeOK, RootsInv, Extends
  <2> DEFINE prefix == SubSeq(leaves, 1, Len(e.root))
  <2>2. /\ prefix \in Seq(Notes) /\ Len(prefix) = Len(e.root)
        /\ \A i \in 1 .. Len(e.root) : prefix[i] = leaves[i]
    BY <2>1
  <2> HIDE DEF prefix
  <2>3. e.root = prefix
    BY <2>1, <2>2, SeqEqual
  <2>. QED  BY <2>3 DEF prefix
<1>. QED  BY <1>1, Invariance, PTL

-----------------------------------------------------------------------------
(* Totals *)

(* A tree has finitely many leaves. *)
LEMMA LeavesFinite ==
  ASSUME NEW ls \in Seq(Notes)
  PROVE  IsFiniteSet(Leaves(ls)) /\ Leaves(ls) \subseteq Notes
<1> DEFINE D == 1 .. Len(ls)
           f == [i \in D |-> ls[i]]
<1>1. DOMAIN ls = D /\ Len(ls) \in Nat /\ \A i \in D : ls[i] \in Notes
  OBVIOUS
<1>2. Leaves(ls) = {f[i] : i \in D}
  BY <1>1 DEF Leaves
<1>3. IsFiniteSet(D)
  BY <1>1, FS_Interval
<1>4. f \in Surjection(D, Leaves(ls))
  BY <1>2 DEF Surjection
<1>5. IsFiniteSet(Leaves(ls))
  BY <1>3, <1>4, FS_Surjection
<1>. QED  BY <1>1, <1>2, <1>5

(* Appending a leaf adds it to the leaves.                                 *)
LEMMA LeavesAppended ==
  ASSUME NEW ls \in Seq(Notes), NEW cm \in Notes
  PROVE  Leaves(Append(ls, cm)) = Leaves(ls) \cup {cm}
<1> DEFINE ms == Append(ls, cm)
<1>1. /\ DOMAIN ms = 1 .. Len(ls) + 1 /\ DOMAIN ls = 1 .. Len(ls)
      /\ Len(ls) \in Nat
      /\ \A j \in 1 .. Len(ls) : ms[j] = ls[j]
      /\ ms[Len(ls) + 1] = cm
  OBVIOUS
<1> HIDE DEF ms
<1>2. Leaves(ms) = Leaves(ls) \cup {cm}
  <2>1. ASSUME NEW j \in DOMAIN ms PROVE ms[j] \in Leaves(ls) \cup {cm}
    BY <1>1 DEF Leaves
  <2>2. ASSUME NEW j \in DOMAIN ls PROVE ls[j] \in Leaves(ms)
    BY <1>1 DEF Leaves
  <2>3. cm \in Leaves(ms)
    BY <1>1 DEF Leaves
  <2>. QED  BY <2>1, <2>2, <2>3 DEF Leaves
<1>. QED  BY <1>2 DEF ms

(* The function that is summed over notes gives their values.              *)
LEMMA NoteValue == \A n \in Notes : [m \in Notes |-> m.value][n] = n.value /\ n.value \in Nat
BY ValuesAssumption DEF Notes

(* Notes are worth a natural.                                              *)
LEMMA ValueNat ==
  ASSUME NEW S \in SUBSET Notes, IsFiniteSet(S)
  PROVE  ValueOf(S) \in Nat
BY NoteValue, SumNat DEF ValueOf

(* One more note is worth at most its value, and one note fewer that or    *)
(* nothing.                                                                *)
LEMMA ValueAdded ==
  ASSUME NEW S \in SUBSET Notes, IsFiniteSet(S), NEW c \in Notes
  PROVE  ValueOf(S \cup {c}) <= c.value + ValueOf(S)
<1> DEFINE f == [m \in Notes |-> m.value]
<1>1. f[c] = c.value /\ \A x \in S \cup {c} : f[x] \in Nat
  BY NoteValue
<1>2. SumOver(f, S \cup {c}) <= f[c] + SumOver(f, S)
  <2> HIDE DEF f
  <2>. QED  BY <1>1, SumAtMost
<1>. QED  BY <1>1, <1>2 DEF ValueOf

(* Fewer notes are worth no more.                                          *)
LEMMA ValueGrown ==
  ASSUME NEW S \in SUBSET Notes, IsFiniteSet(S), NEW T \in SUBSET S
  PROVE  ValueOf(T) <= ValueOf(S)
<1> DEFINE f == [m \in Notes |-> m.value]
<1>1. \A x \in S : f[x] \in Nat
  BY NoteValue
<1>2. SumOver(f, T) <= SumOver(f, S)
  <2> HIDE DEF f
  <2>. QED  BY <1>1, SumSubset
<1>. QED  BY <1>2 DEF ValueOf

(* A note's value can be taken out of the sum, also when it is a dummy     *)
(* that is not among the notes.                                            *)
LEMMA ValueWithout ==
  ASSUME NEW S \in SUBSET Notes, IsFiniteSet(S), NEW c \in Notes,
         c.value # 0 => c \in S
  PROVE  ValueOf(S) = c.value + ValueOf(S \ {c})
<1> DEFINE f == [m \in Notes |-> m.value]
<1>1. f[c] = c.value /\ c.value \in Nat /\ \A x \in S : f[x] \in Nat
  BY NoteValue
<1>2. CASE c \in S
  <2>1. SumOver(f, S) = f[c] + SumOver(f, S \ {c})
    <3> HIDE DEF f
    <3>. QED  BY <1>1, <1>2, SumRemove
  <2>. QED  BY <1>1, <2>1 DEF ValueOf
<1>3. CASE c \notin S
  <2>1. S \ {c} = S /\ c.value = 0
    BY <1>3
  <2>2. ValueOf(S) \in Nat
    BY ValueNat
  <2>. QED  BY <2>1, <2>2
<1>. QED  BY <1>2, <1>3

(* What is owed is a natural.                                              *)
LEMMA OwedNat ==
  ASSUME NEW credit \in [Accounts -> Nat]
  PROVE  Owed(credit) \in Nat
BY SumNat, AccountsAssumption DEF Owed

(* Changing one credit changes what is owed by as much.                    *)
LEMMA OwedChanged ==
  ASSUME NEW credit \in [Accounts -> Nat], NEW who \in Accounts, NEW v \in Nat
  PROVE  Owed([credit EXCEPT ![who] = v]) = Owed(credit) - credit[who] + v
<1> DEFINE changed == [credit EXCEPT ![who] = v]
<1>1. /\ changed[who] = v
      /\ \A a \in Accounts : /\ credit[a] \in Int /\ changed[a] \in Int
                             /\ a # who => changed[a] = credit[a]
  OBVIOUS
<1> HIDE DEF changed
<1>2. SumOver(changed, Accounts) = SumOver(credit, Accounts) - credit[who] + changed[who]
  BY <1>1, SumChanged, AccountsAssumption
<1>. QED  BY <1>1, <1>2 DEF Owed, changed

(* A credit raises what is owed by its amount, or by nothing where it has  *)
(* no account.                                                             *)
LEMMA OwedCredited ==
  ASSUME NEW credit \in [Accounts -> Nat], NEW who, NEW amount \in Nat
  PROVE  /\ Owed(credit) <= Owed(Credit(credit, who, amount))
         /\ Owed(Credit(credit, who, amount)) <= Owed(credit) + amount
<1>1. Owed(credit) \in Nat
  BY OwedNat
<1>2. CASE who \in Accounts
  <2>1. credit[who] + amount \in Nat /\ credit[who] \in Nat
    BY <1>2
  <2>2. Owed([credit EXCEPT ![who] = credit[who] + amount])
        = Owed(credit) - credit[who] + (credit[who] + amount)
    BY <1>2, <2>1, OwedChanged
  <2>. QED  BY <1>1, <2>1, <2>2 DEF Credit
<1>3. CASE who \notin Accounts
  <2>1. Credit(credit, who, amount) = credit
    BY <1>3 DEF Credit
  <2>. QED  BY <1>1, <2>1
<1>. QED  BY <1>2, <1>3

(* Paying a credit out lowers what is owed by the credit. *)
LEMMA OwedCleared ==
  ASSUME NEW credit \in [Accounts -> Nat], NEW who \in Accounts
  PROVE  /\ Owed([credit EXCEPT ![who] = 0]) = Owed(credit) - credit[who]
         /\ credit[who] \in Nat /\ credit[who] <= Owed(credit)
<1>1. credit[who] \in Nat /\ Owed(credit) \in Nat
  BY OwedNat
<1>2. Owed([credit EXCEPT ![who] = 0]) = Owed(credit) - credit[who] + 0
  BY OwedChanged
<1>3. Owed([credit EXCEPT ![who] = 0]) \in Nat
  BY OwedNat
<1>. QED  BY <1>1, <1>2, <1>3

(* The notes that can be spent are finitely many.                          *)
LEMMA LiveFinite ==
  ASSUME leaves \in Seq(Notes)
  PROVE  /\ LiveNotes \in SUBSET Notes /\ IsFiniteSet(LiveNotes)
         /\ ValueOf(LiveNotes) \in Nat
<1>1. LiveNotes \subseteq Leaves(leaves)
  BY DEF LiveNotes
<1>2. LiveNotes \in SUBSET Notes /\ IsFiniteSet(LiveNotes)
  BY <1>1, LeavesFinite, FS_Subset
<1>. QED  BY <1>2, ValueNat

-----------------------------------------------------------------------------
(* Who pays, and with what *)

(* A transaction is paid for by the payer its request names, and has two   *)
(* frames exactly when that is its sender.                                 *)
LEMMA BuiltPayer ==
  ASSUME NEW r \in RequestRecords, NEW ref, NEW tx, tx = BuildTx(r, ref)
  PROVE  /\ tx.sender = r.sender /\ PayerOf(tx) = r.payer
         /\ r.payer = r.sender => Len(tx.frames) = 2
<1> DEFINE s == SpendOf(r, ref.root)
<1>2. tx.frames = BuildFrames(r, s) /\ tx.sender = r.sender
  BY DEF BuildTx
<1>3. CASE r.payer = r.sender
  <2>1. Len(tx.frames) = 2 /\ tx.frames[1].target = r.sender
    BY <1>2, <1>3 DEF BuildFrames, Frame
  <2>. QED  BY <1>2, <1>3, <2>1 DEF PayerOf, LastFrame
<1>4. CASE r.payer # r.sender
  <2>1. Len(tx.frames) = 3 /\ tx.frames[2].target = r.payer
    BY <1>2, <1>4 DEF BuildFrames, Frame
  <2>. QED  BY <1>2, <1>4, <2>1 DEF PayerOf, LastFrame
<1>. QED  BY <1>3, <1>4

(* When the pool or the paymaster fronts the gas, the transaction is a     *)
(* spend of the pool and its fee covers the maximum cost: the dispatcher   *)
(* checks that where it pays itself, the paymaster where it does.          *)
LEMMA ApprovedPayer ==
  ASSUME NEW r \in RequestRecords, NEW ref, NEW tx, tx = BuildTx(r, ref),
         SenderApproves(tx), PayFrameApproves(tx), PayerOf(tx) \in {Pool, Paymaster}
  PROVE  tx.sender = Pool /\ SettleFrame(tx).call.spend.fee >= tx.maxCost
<1>1. CASE PayerOf(tx) = Paymaster
  <2>1. PaymasterApproves(tx, 2, Pool)
    BY <1>1 DEF PayFrameApproves
  <2>. QED  BY <2>1 DEF PaymasterApproves, PaymasterFee, PaymasterSettleFrame,
                        SettleFrame, LastFrame
<1>2. CASE PayerOf(tx) = Pool
  <2>1. tx.sender = Pool
    BY <1>2, AccountsAssumption, PayersAssumption DEF PayFrameApproves
  <2>2. Len(tx.frames) = 2 /\ DispatcherApproves(tx, 1)
    BY <1>2, <2>1, BuiltPayer DEF SenderApproves
  <2>. QED  BY <2>1, <2>2 DEF DispatcherApproves, DispatcherFee
<1>. QED  BY <1>1, <1>2

(* The input notes of a spend that frame 0 approves are two different      *)
(* notes, and what is worth something among them is live.                  *)
LEMMA ApprovedInputs ==
  ASSUME TypeOK, RootsInv, NEW r \in RequestRecords, NEW ref, NEW tx, tx = BuildTx(r, ref),
         NoncesCurrent(tx), RefValid(tx.refs[1]), DispatcherApproves(tx, 1),
         NEW s, s = SettleFrame(tx).call.spend
  PROVE  /\ CircuitSatisfied(s)
         /\ s.nf1.cm \in Notes /\ s.nf2.cm \in Notes /\ s.nf1.cm # s.nf2.cm
         /\ tx.keys = {Nullifier(PoolDomain, s.nf1.cm), Nullifier(PoolDomain, s.nf2.cm)}
         /\ s.nf1.cm.value # 0 => s.nf1.cm \in LiveNotes
         /\ s.nf2.cm.value # 0 => s.nf2.cm \in LiveNotes
<1>1. /\ tx.sender = Pool /\ DispatcherKeys(tx, s) /\ DispatcherRoot(tx, s)
      /\ VerifyFrameProof(s) /\ SpendTypeOK(s)
  BY BuiltTx DEF DispatcherApproves
<1>2. CircuitSatisfied(s) /\ s.domain = PoolDomain
  BY <1>1 DEF VerifyFrameProof
<1>3. s.nf1.cm \in Notes /\ s.nf2.cm \in Notes
  BY <1>1 DEF SpendTypeOK, Nullifiers
<1>4. /\ s.nf1 = Nullifier(PoolDomain, s.nf1.cm) /\ s.nf2 = Nullifier(PoolDomain, s.nf2.cm)
      /\ InputOpens(s.root, s.nf1.cm) /\ InputOpens(s.root, s.nf2.cm)
      /\ s.nf1 # s.nf2
  BY <1>2 DEF CircuitSatisfied
<1>5. s.nf1.cm # s.nf2.cm
  BY <1>4
<1>6. tx.keys = {s.nf1, s.nf2} /\ nonceSeq[s.nf1] = 0 /\ nonceSeq[s.nf2] = 0
  BY <1>1 DEF DispatcherKeys, NoncesCurrent
<1>7. Leaves(s.root) \subseteq Leaves(leaves)
  <2>1. [slot |-> tx.refs[1].slot, root |-> s.root] \in ring
    BY <1>1 DEF DispatcherRoot, RefValid
  <2>2. s.root \in Seq(Notes) /\ Extends(s.root, leaves)
    BY <2>1 DEF RootsInv, TypeOK
  <2>. QED  BY <2>2, ExtendsLeaves DEF TypeOK
<1>8. ASSUME NEW nf \in {s.nf1, s.nf2}, nf.cm.value # 0
      PROVE  nf.cm \in LiveNotes
  BY <1>4, <1>6, <1>7, <1>8 DEF InputOpens, LiveNotes
<1>. QED  BY <1>2, <1>3, <1>4, <1>5, <1>6, <1>8

(* Taking both inputs away takes their values away. *)
LEMMA InputsWorth ==
  ASSUME NEW S \in SUBSET Notes, IsFiniteSet(S),
         NEW c1 \in Notes, NEW c2 \in Notes, c1 # c2,
         c1.value # 0 => c1 \in S, c2.value # 0 => c2 \in S
  PROVE  /\ ValueOf(S) = c1.value + c2.value + ValueOf(S \ {c1, c2})
         /\ ValueOf(S) \in Nat /\ ValueOf(S \ {c1, c2}) \in Nat
         /\ c1.value \in Nat /\ c2.value \in Nat
<1> DEFINE T == S \ {c1}
<1>1. /\ T \in SUBSET Notes /\ IsFiniteSet(T) /\ T \ {c2} = S \ {c1, c2}
      /\ c2.value # 0 => c2 \in T
  BY FS_RemoveElement
<1>2. ValueOf(S) = c1.value + ValueOf(T)
  BY ValueWithout
<1>3. ValueOf(T) = c2.value + ValueOf(T \ {c2})
  <2> HIDE DEF T
  <2>. QED  BY <1>1, ValueWithout
<1>4. IsFiniteSet(T \ {c2}) /\ T \ {c2} \in SUBSET Notes
  BY <1>1, FS_RemoveElement
<1>5. /\ ValueOf(S) \in Nat /\ ValueOf(T \ {c2}) \in Nat
      /\ c1.value \in Nat /\ c2.value \in Nat
  BY <1>4, ValueNat, NoteValue
<1>6. ValueOf(S) = c1.value + c2.value + ValueOf(T \ {c2})
  <2> HIDE DEF T
  <2>. QED  BY <1>2, <1>3, <1>5
<1>. QED  BY <1>1, <1>5, <1>6, Zenon

-----------------------------------------------------------------------------
(* What the money rests on: the fee covers what the pool or the paymaster  *)
(* has fronted; a note that is worth something has been consumed only if   *)
(* it was in the tree, so that no deposit is dead on arrival; the pool     *)
(* holds no more than its deposits can have brought; and the paymaster is  *)
(* out of pocket only for the transaction that runs, unless nullifiers     *)
(* have been burned.                                                       *)

PayerInv ==
  ~Idle /\ exec.payer \in {Pool, Paymaster} =>
    exec.tx.sender = Pool /\ SpendInFlight.fee >= exec.tx.maxCost

ConsumedInv ==
  \A n \in Notes :
    nonceSeq[Nullifier(PoolDomain, n)] # 0 /\ n.value # 0 => n \in Leaves(leaves)

HeldInv == balance[Pool] + Prepaid <= Len(leaves) * MaxValue

Stuck == {nf \in Burned : ~(SpendRunning /\ nf \in exec.tx.keys)}

Fronted == IF ~Idle /\ exec.payer = Paymaster THEN exec.tx.maxCost ELSE 0

PaymasterInv ==
  Stuck = {} => balance[Paymaster] + feeCredit[Paymaster] + Fronted >= InitialFunds

MoneyInv == PayerInv /\ ConsumedInv /\ HeldInv /\ PaymasterInv

(* The money invariant holds at the start.                                 *)
LEMMA MoneyInit == Init => MoneyInv
<1> SUFFICES ASSUME Init PROVE MoneyInv
  OBVIOUS
<1>1. Idle /\ ~SpendRunning /\ Prepaid = 0 /\ Fronted = 0
  BY DEF Init, Idle, SpendRunning, Prepaid, Fronted
<1>2. PayerInv /\ ConsumedInv
  BY <1>1, AccountsAssumption DEF Init, PayerInv, ConsumedInv, Nullifier, Nullifiers
<1>3. HeldInv
  BY <1>1, AccountsAssumption, FieldAssumption DEF Init, HeldInv
<1>4. PaymasterInv
  BY <1>1, AccountsAssumption, RunAssumption DEF Init, PaymasterInv
<1>. QED  BY <1>2, <1>3, <1>4 DEF MoneyInv

-----------------------------------------------------------------------------
(* The steps of the pool are steps of the ledger *)

(* One more leaf is room for one more deposit. *)
LEMMA RoomForDeposit ==
  ASSUME NEW n \in Nat, NEW m \in Nat, NEW k \in Nat, n < k,
         NEW held \in Int, held <= n * m, NEW v \in Nat, v < m
  PROVE  held + v <= (n + 1) * m /\ held + v <= k * m
<1>1. (n + 1) * m = n * m + m /\ n * m \in Nat
  OBVIOUS
<1>2. (n + 1) * m <= k * m
  BY SMT
<1>. QED  BY <1>1, <1>2

(* A deposit keeps it, and is a deposit of the ledger.                     *)
LEMMA ShieldMoney ==
  ASSUME TypeOK, TypeOK', MoneyInv, NEW i \in Inners, NEW v \in Values, Shield(i, v)
  PROVE  MoneyInv' /\ Ledger!Next
<1> DEFINE cm == [inner |-> i, value |-> v]
<1>1. /\ Idle /\ v # 0 /\ v < MaxValue /\ cm \notin Leaves(leaves)
      /\ Len(leaves) < Capacity /\ leaves' = Append(leaves, cm)
      /\ balance' = Credit(balance, Pool, v)
      /\ UNCHANGED <<withdrawalCredit, feeCredit, noteSpent, nonceSeq, slot, exec>>
  BY DEF Shield
<1>2. cm \in Notes /\ cm.value = v /\ v \in Nat
  BY ValuesAssumption DEF Notes
<1>3. /\ balance'[Pool] = balance[Pool] + v /\ balance[Pool] \in Int
      /\ balance'[Paymaster] = balance[Paymaster]
  BY <1>1, AccountsAssumption DEF Credit, TypeOK
<1>4. Leaves(leaves') = Leaves(leaves) \cup {cm} /\ Len(leaves') = Len(leaves) + 1
      /\ Len(leaves) \in Nat
  <2>1. leaves \in Seq(Notes)
    BY DEF TypeOK
  <2>2. Len(leaves') = Len(leaves) + 1 /\ Len(leaves) \in Nat
    BY <1>1, <1>2, <2>1
  <2>. QED  BY <1>1, <1>2, <2>1, <2>2, LeavesAppended
<1>5. LiveNotes' = LiveNotes \cup {cm} /\ cm \notin LiveNotes
  <2>1. nonceSeq[Nullifier(PoolDomain, cm)] = 0
    BY <1>1, <1>2 DEF MoneyInv, ConsumedInv
  <2>. QED  BY <1>1, <1>4, <2>1 DEF LiveNotes
<1>6. ValueOf(LiveNotes') = ValueOf(LiveNotes) + v /\ ValueOf(LiveNotes) \in Nat
  <2>0. /\ LiveNotes \in SUBSET Notes /\ IsFiniteSet(LiveNotes)
        /\ ValueOf(LiveNotes) \in Nat
    BY LiveFinite DEF TypeOK
  <2>1. /\ LiveNotes' \in SUBSET Notes /\ IsFiniteSet(LiveNotes')
        /\ LiveNotes' \ {cm} = LiveNotes /\ cm \in LiveNotes'
    BY <1>2, <1>5, <2>0, FS_AddElement
  <2>2. ValueOf(LiveNotes') = cm.value + ValueOf(LiveNotes' \ {cm})
    BY <1>2, <2>1, ValueWithout
  <2>3. ValueOf(LiveNotes') = v + ValueOf(LiveNotes)
    BY <1>2, <2>1, <2>2, Zenon
  <2>. QED  BY <1>2, <2>0, <2>3
<1>7. /\ Idle' /\ ~SpendRunning /\ ~SpendRunning' /\ Prepaid = 0 /\ Prepaid' = 0
      /\ InFlight = 0 /\ InFlight' = 0 /\ Fronted' = Fronted /\ Stuck' = Stuck
  BY <1>1 DEF Idle, SpendRunning, Prepaid, InFlight, Fronted, Stuck, Burned
<1>8. /\ balance[Pool] + v <= (Len(leaves) + 1) * MaxValue
      /\ balance[Pool] + v <= Capacity * MaxValue
  <2>1. balance[Pool] <= Len(leaves) * MaxValue
    BY <1>3, <1>7 DEF MoneyInv, HeldInv
  <2>. QED
    BY <1>1, <1>2, <1>3, <1>4, <2>1, RoomForDeposit, CapacityAssumption, FieldAssumption
<1>9. PayerInv' /\ ConsumedInv'
  BY <1>1, <1>4, <1>7 DEF MoneyInv, PayerInv, ConsumedInv
<1>10. HeldInv'
  <2>1. balance'[Pool] + Prepaid' = balance[Pool] + v
    BY <1>2, <1>3, <1>7
  <2>2. Len(leaves') * MaxValue = (Len(leaves) + 1) * MaxValue
    BY <1>4
  <2>3. balance'[Pool] + Prepaid' <= Len(leaves') * MaxValue
    BY <1>8, <2>1, <2>2, Zenon
  <2>. QED  BY <2>3 DEF HeldInv
<1>11. PaymasterInv'
  BY <1>1, <1>3, <1>7 DEF MoneyInv, PaymasterInv
<1>12. v \in 0 .. Capacity * MaxValue - balance[Pool]
  BY <1>2, <1>3, <1>8, CapacityAssumption, FieldAssumption
<1>13. Ledger!Deposit(v)
  BY <1>1, <1>3, <1>6, <1>7 DEF Ledger!Deposit
<1>. QED  BY <1>9, <1>10, <1>11, <1>12, <1>13 DEF MoneyInv, Ledger!Next

(* An approved spend takes its inputs out of the live notes, and their     *)
(* value pays for the gas the pool fronts.  Anybody else's transaction     *)
(* leaves the pool's money alone.                                          *)
LEMMA ValidateMoney ==
  ASSUME IInv, IInv', MoneyInv, NEW r \in RequestRecords, NEW ref, NEW tx,
         tx = BuildTx(r, ref), Validate(tx)
  PROVE  MoneyInv' /\ [Ledger!Next]_Ledger!ledger
<1> DEFINE s == SettleFrame(tx).call.spend
           p == PayerOf(tx)
           gas == IF p = Pool THEN tx.maxCost ELSE 0
<1>1. /\ Idle /\ NoncesCurrent(tx) /\ SenderApproves(tx) /\ PayFrameApproves(tx)
      /\ balance' = [balance EXCEPT ![p] = @ - tx.maxCost]
      /\ ConsumeKeys(tx) /\ exec' = [payer |-> p, tx |-> tx]
      /\ UNCHANGED <<leaves, currentRoot, withdrawalCredit, feeCredit, noteSpent, ring, slot>>
  BY DEF Validate, storage
<1>2. /\ p \in Accounts /\ tx.maxCost \in Nat \ {0} /\ RefValid(tx.refs[1])
      /\ TypeOK /\ TypeOK' /\ RootsInv /\ SpendTypeOK(s)
  BY BuiltTx DEF Validate, IInv
<1>3. exec'.tx = tx /\ exec'.payer = p /\ SpendInFlight' = s /\ ~Idle'
  <2>1. exec'.payer # NoTx.payer
    BY <1>1, <1>2, AccountsAssumption DEF NoTx
  <2>. QED  BY <1>1, <2>1 DEF SpendInFlight, SettleFrame, LastFrame, Idle
<1>4. /\ ~SpendRunning /\ InFlight = 0 /\ Prepaid = 0 /\ Fronted = 0 /\ Stuck = Burned
      /\ SpendRunning' <=> tx.sender = Pool
  BY <1>1, <1>3 DEF SpendRunning, InFlight, Prepaid, Fronted, Stuck
<1>5. /\ balance[Pool] \in Int /\ balance[Paymaster] \in Int
      /\ balance'[Pool] = balance[Pool] - gas
      /\ balance'[Paymaster] = balance[Paymaster] - (IF p = Paymaster THEN tx.maxCost ELSE 0)
  BY <1>1, <1>2, AccountsAssumption DEF TypeOK
<1>6. p \in {Pool, Paymaster} => tx.sender = Pool /\ s.fee >= tx.maxCost
  BY <1>1, <1>2, ApprovedPayer
<1>7. PayerInv'
  BY <1>3, <1>6 DEF PayerInv
<1>8. Prepaid' = gas
  BY <1>3, <1>4, <1>6 DEF Prepaid
<1>9. HeldInv'
  <2>1. balance[Pool] <= Len(leaves) * MaxValue
    BY <1>4, <1>5 DEF MoneyInv, HeldInv
  <2>2. balance'[Pool] + Prepaid' = balance[Pool]
    BY <1>2, <1>5, <1>8
  <2>. QED  BY <1>1, <2>1, <2>2, Zenon DEF HeldInv
<1>10. PaymasterInv'
  <2>1. Fronted' = IF p = Paymaster THEN tx.maxCost ELSE 0
    BY <1>3 DEF Fronted
  <2>2. Stuck \subseteq Stuck'
    <3> SUFFICES ASSUME NEW nf \in Burned
                 PROVE  nf \in Burned' /\ (tx.sender = Pool => nf \notin tx.keys)
      BY <1>3, <1>4 DEF Stuck
    <3>1. nonceSeq[nf] \in Nat /\ nonceSeq[nf] > 0 /\ noteSpent[nf] = 0 /\ nf \in Nullifiers
      BY <1>2 DEF Burned, TypeOK
    <3>2. nonceSeq'[nf] > 0
      BY <1>1, <3>1 DEF ConsumeKeys
    <3>3. tx.sender = Pool => nf \notin tx.keys
      BY <1>1, <3>1 DEF SenderApproves, DispatcherApproves, DispatcherKeys, NoncesCurrent
    <3>. QED  BY <1>1, <3>1, <3>2, <3>3 DEF Burned
  <2>3. feeCredit[Paymaster] \in Nat /\ InitialFunds \in Nat
    BY <1>2, AccountsAssumption, RunAssumption DEF TypeOK
  <2>4. Stuck' = {} => balance[Paymaster] + feeCredit[Paymaster] >= InitialFunds
    BY <1>4, <1>5, <2>2, <2>3 DEF MoneyInv, PaymasterInv
  <2>5. balance'[Paymaster] + feeCredit'[Paymaster] + Fronted'
        = balance[Paymaster] + feeCredit[Paymaster]
    BY <1>1, <1>2, <1>5, <2>1, <2>3
  <2>. QED  BY <2>4, <2>5 DEF PaymasterInv
<1>11. CASE tx.sender # Pool
  <2>1. nonceSeq' = nonceSeq /\ p # Pool
    BY <1>1, <1>6, <1>11 DEF ConsumeKeys
  <2>2. LiveNotes' = LiveNotes /\ InFlight' = 0 /\ Prepaid' = 0 /\ balance'[Pool] = balance[Pool]
    BY <1>1, <1>4, <1>5, <1>8, <1>11, <2>1 DEF LiveNotes, InFlight
  <2>3. ConsumedInv'
    BY <1>1, <2>1 DEF MoneyInv, ConsumedInv
  <2>4. UNCHANGED Ledger!ledger
    BY <1>1, <1>4, <2>2 DEF Ledger!ledger
  <2>. QED  BY <1>7, <1>9, <1>10, <2>3, <2>4 DEF MoneyInv
<1>12. CASE tx.sender = Pool
  <2> DEFINE c1 == s.nf1.cm
             c2 == s.nf2.cm
  <2>1. /\ CircuitSatisfied(s) /\ c1 \in Notes /\ c2 \in Notes /\ c1 # c2
        /\ tx.keys = {Nullifier(PoolDomain, c1), Nullifier(PoolDomain, c2)}
        /\ c1.value # 0 => c1 \in LiveNotes
        /\ c2.value # 0 => c2 \in LiveNotes
    BY <1>1, <1>2, <1>12, ApprovedInputs DEF SenderApproves
  <2>2. \A k \in Nullifiers :
          nonceSeq'[k] = IF k \in tx.keys THEN nonceSeq[k] + 1 ELSE nonceSeq[k]
    BY <1>1, <1>12 DEF ConsumeKeys
  <2>3. \A n \in Notes : /\ Nullifier(PoolDomain, n) \in Nullifiers
                         /\ Nullifier(PoolDomain, n) \in tx.keys <=> n \in {c1, c2}
    BY <2>1, AccountsAssumption DEF Nullifier, Nullifiers
  <2>4. \A n \in Notes : nonceSeq'[Nullifier(PoolDomain, n)] = 0
                         <=> nonceSeq[Nullifier(PoolDomain, n)] = 0 /\ n \notin {c1, c2}
    <3> HIDE DEF c1, c2
    <3> TAKE n \in Notes
    <3>1. nonceSeq[Nullifier(PoolDomain, n)] \in Nat
      BY <1>2, <2>3 DEF TypeOK
    <3>. QED  BY <2>2, <2>3, <3>1
  <2>5. LiveNotes \in SUBSET Notes /\ IsFiniteSet(LiveNotes)
    BY <1>2, LiveFinite DEF TypeOK
  <2>6. LiveNotes' = LiveNotes \ {c1, c2}
    <3>1. Leaves(leaves) \subseteq Notes
      BY <1>2, LeavesFinite DEF TypeOK
    <3>. QED  BY <1>1, <2>4, <3>1 DEF LiveNotes
  <2>7. ConsumedInv'
    BY <1>1, <2>1, <2>4 DEF MoneyInv, ConsumedInv, LiveNotes
  <2>8. /\ ValueOf(LiveNotes) = c1.value + c2.value + ValueOf(LiveNotes')
        /\ ValueOf(LiveNotes) \in Nat /\ ValueOf(LiveNotes') \in Nat
        /\ c1.value \in Nat /\ c2.value \in Nat
    <3>1. /\ ValueOf(LiveNotes) = c1.value + c2.value + ValueOf(LiveNotes \ {c1, c2})
          /\ ValueOf(LiveNotes) \in Nat /\ ValueOf(LiveNotes \ {c1, c2}) \in Nat
          /\ c1.value \in Nat /\ c2.value \in Nat
      <4> HIDE DEF c1, c2
      <4>. QED  BY <2>1, <2>5, InputsWorth
    <3>. QED  BY <2>6, <3>1, Zenon
  <2>9. /\ c1.value + c2.value = s.outCm1.value + s.outCm2.value + s.publicAmount + s.fee
        /\ s.outCm1.value \in Nat /\ s.outCm2.value \in Nat
        /\ s.publicAmount \in Nat /\ s.fee \in Nat
    BY <1>2, <2>1, ConservesExactly, NoteValue DEF SpendTypeOK
  <2>10. gas \in Nat /\ gas <= c1.value + c2.value
    BY <1>2, <1>6, <2>8, <2>9
  <2>11. InFlight' = c1.value + c2.value - gas
    BY <1>3, <1>4, <1>8, <1>12 DEF InFlight
  <2>12. Ledger!Authorize(c1.value + c2.value, gas)
    BY <1>1, <1>4, <1>5, <1>8, <2>8, <2>10, <2>11 DEF Ledger!Authorize
  <2>13. c1.value + c2.value \in 0 .. ValueOf(LiveNotes) /\ gas \in 0 .. c1.value + c2.value
    BY <2>8, <2>10
  <2>14. Ledger!Next
    <3> HIDE DEF gas, c1, c2
    <3>. QED  BY <2>12, <2>13 DEF Ledger!Next
  <2>. QED  BY <1>7, <1>9, <1>10, <2>7, <2>14 DEF MoneyInv
<1>. QED  BY <1>11, <1>12

(* The tree grows, and by nothing but the two outputs. *)
LEMMA LeavesInserted ==
  ASSUME NEW ls \in Seq(Notes), NEW s, SpendTypeOK(s)
  PROVE  Leaves(InsertOutputs(ls, s)) \subseteq Leaves(ls) \cup {s.outCm1, s.outCm2}
<1>1. ASSUME NEW ms \in Seq(Notes), NEW cm \in Notes
      PROVE  Leaves(InsertIfNew(ms, cm)) \subseteq Leaves(ms) \cup {cm}
  <2>1. CASE cm \in Leaves(ms)
    BY <2>1 DEF InsertIfNew
  <2>2. CASE cm \notin Leaves(ms)
    <3>1. InsertIfNew(ms, cm) = Append(ms, cm)
      BY <2>2 DEF InsertIfNew
    <3>. QED  BY <3>1, LeavesAppended
  <2>. QED  BY <2>1, <2>2
<1>2. s.outCm1 \in Notes /\ s.outCm2 \in Notes
  BY DEF SpendTypeOK
<1>3. InsertIfNew(ls, s.outCm1) \in Seq(Notes)
  BY <1>2, InsertIfNewType
<1>. QED  BY <1>1, <1>2, <1>3 DEF InsertOutputs

(* What an outputs' insertion adds to the live notes is worth at most the  *)
(* two outputs; an output that is in the tree already adds nothing.        *)
LEMMA LiveInserted ==
  ASSUME leaves \in Seq(Notes), NEW s, SpendTypeOK(s), leaves' = InsertOutputs(leaves, s),
         nonceSeq' = nonceSeq
  PROVE  /\ ValueOf(LiveNotes) \in Nat /\ ValueOf(LiveNotes') \in Nat
         /\ ValueOf(LiveNotes) <= ValueOf(LiveNotes')
         /\ ValueOf(LiveNotes') <= ValueOf(LiveNotes) + s.outCm1.value + s.outCm2.value
<1> DEFINE o1 == s.outCm1
           o2 == s.outCm2
           S == LiveNotes \cup {o1}
<1>1. o1 \in Notes /\ o2 \in Notes /\ o1.value \in Nat /\ o2.value \in Nat
  BY NoteValue DEF SpendTypeOK
<1>2. LiveNotes \subseteq LiveNotes' /\ LiveNotes' \subseteq S \cup {o2}
  <2>1. Leaves(leaves) \subseteq Leaves(leaves')
    BY InsertOutputsType
  <2>2. Leaves(leaves') \subseteq Leaves(leaves) \cup {o1, o2}
    BY LeavesInserted
  <2>. QED  BY <2>1, <2>2 DEF LiveNotes
<1>3. /\ LiveNotes \in SUBSET Notes /\ IsFiniteSet(LiveNotes)
      /\ S \in SUBSET Notes /\ IsFiniteSet(S)
      /\ S \cup {o2} \in SUBSET Notes /\ IsFiniteSet(S \cup {o2})
  BY <1>1, LiveFinite, FS_AddElement
<1>4. LiveNotes' \in SUBSET Notes /\ IsFiniteSet(LiveNotes')
  BY <1>2, <1>3, FS_Subset
<1>5. ValueOf(LiveNotes) \in Nat /\ ValueOf(LiveNotes') \in Nat /\ ValueOf(S) \in Nat
      /\ ValueOf(S \cup {o2}) \in Nat
  <2> HIDE DEF S
  <2>. QED  BY <1>3, <1>4, ValueNat
<1>6. ValueOf(LiveNotes) <= ValueOf(LiveNotes') /\ ValueOf(LiveNotes') <= ValueOf(S \cup {o2})
  <2> HIDE DEF S
  <2>. QED  BY <1>2, <1>3, <1>4, ValueGrown
<1>7. ValueOf(S \cup {o2}) <= o2.value + ValueOf(S)
  <2> HIDE DEF S
  <2>. QED  BY <1>1, <1>3, ValueAdded
<1>8. ValueOf(S) <= o1.value + ValueOf(LiveNotes)
  BY <1>1, <1>3, ValueAdded
<1> HIDE DEF S
<1>. QED  BY <1>1, <1>5, <1>6, <1>7, <1>8

(* The refund goes to the payer and never exceeds what was fronted. *)
LEMMA RefundMoney ==
  ASSUME TypeOK, ~Idle, Refund, PayerInv
  PROVE  \E refund \in 0 .. exec.tx.maxCost - 1 :
           /\ exec.payer = Pool => balance'[Pool] = balance[Pool] + refund
           /\ exec.payer # Pool => balance'[Pool] = balance[Pool]
           /\ exec.payer = Paymaster => balance'[Paymaster] = balance[Paymaster] + refund
           /\ exec.payer # Paymaster => balance'[Paymaster] = balance[Paymaster]
<1>1. exec.tx.maxCost \in Nat \ {0} /\ exec.payer \in Accounts
  BY DEF TypeOK, ExecTypeOK
<1>2. PICK charged \in 1 .. exec.tx.maxCost :
        balance' = [balance EXCEPT ![exec.payer] = @ + (exec.tx.maxCost - charged)]
  BY DEF Refund
<1>3. exec.tx.maxCost - charged \in 0 .. exec.tx.maxCost - 1
  BY <1>1
<1>. QED  BY <1>1, <1>2, <1>3, AccountsAssumption DEF TypeOK

(* What is known of the spend that runs: its inputs are worth its outputs, *)
(* the public amount and the fee, and its keys are its nullifiers.         *)
LEMMA RunningSpend ==
  ASSUME IInv, SpendRunning, NEW s, s = SpendInFlight
  PROVE  /\ SpendTypeOK(s) /\ exec.tx.keys = {s.nf1, s.nf2}
         /\ s.nf1.cm.value + s.nf2.cm.value
            = s.outCm1.value + s.outCm2.value + s.publicAmount + s.fee
         /\ s.nf1.cm.value \in Nat /\ s.nf2.cm.value \in Nat
         /\ s.outCm1.value \in Nat /\ s.outCm2.value \in Nat
         /\ s.publicAmount \in Nat /\ s.fee \in Nat
<1>1. SpendTypeOK(s)
  BY DEF IInv, TypeOK, ExecTypeOK, SpendRunning
<1>2. exec.tx.keys = {s.nf1, s.nf2} /\ CircuitSatisfied(s)
  BY DEF IInv, RunningInv, DispatcherApproves, DispatcherKeys, VerifyFrameProof, SpendInFlight
<1>3. /\ s.nf1.cm \in Notes /\ s.nf2.cm \in Notes /\ s.outCm1 \in Notes /\ s.outCm2 \in Notes
      /\ s.publicAmount \in Nat /\ s.fee \in Nat
  BY <1>1 DEF SpendTypeOK, Nullifiers
<1>. QED  BY <1>1, <1>2, <1>3, ConservesExactly, NoteValue

(* Multiplication is monotonic.                                            *)
LEMMA MoreRoom ==
  ASSUME NEW n \in Nat, NEW k \in Nat, NEW m \in Nat, n <= k
  PROVE  n * m <= k * m /\ n * m \in Nat /\ k * m \in Nat
OBVIOUS

(* Settlement turns no more than the spend's reservation into notes and    *)
(* credits: a duplicate output is worth nothing to it, and the fee becomes *)
(* a credit exactly when the pool has not spent it on gas.                 *)
LEMMA SettleMoney ==
  ASSUME IInv, IInv', MoneyInv, SettleSuccess
  PROVE  MoneyInv' /\ Ledger!Next
<1> DEFINE s == SpendInFlight
           c == SettleFrame(exec.tx).call
           mc == exec.tx.maxCost
<1>1. /\ ~Idle /\ SettlementAccepts(exec.tx, LastFrame(exec.tx), exec.payer)
      /\ TransferOrWithdraw(c, exec.payer) /\ Refund
      /\ exec' = NoTx /\ nonceSeq' = nonceSeq
  BY DEF SettleSuccess, SettleSucceeds
<1>2. /\ TypeOK /\ TypeOK' /\ mc \in Nat \ {0} /\ c.spend = s
      /\ SpendRunning /\ Idle' /\ ~SpendRunning'
  BY <1>1 DEF IInv, TypeOK, ExecTypeOK, SpendRunning, Idle, SettlementAccepts,
              SettlementCaller, SpendInFlight
<1>3. /\ SpendTypeOK(s) /\ exec.tx.keys = {s.nf1, s.nf2}
      /\ s.nf1.cm.value + s.nf2.cm.value
         = s.outCm1.value + s.outCm2.value + s.publicAmount + s.fee
      /\ s.nf1.cm.value \in Nat /\ s.nf2.cm.value \in Nat
      /\ s.outCm1.value \in Nat /\ s.outCm2.value \in Nat
      /\ s.publicAmount \in Nat /\ s.fee \in Nat
  BY <1>2, RunningSpend
<1> HIDE DEF s, mc
<1>4. /\ leaves' = InsertOutputs(leaves, s)
      /\ feeCredit' = IF s.fee # 0 /\ exec.payer # Pool
                      THEN Credit(feeCredit, exec.payer, s.fee) ELSE feeCredit
      /\ withdrawalCredit' = IF c.op = "withdraw"
                             THEN Credit(withdrawalCredit, c.recipient, s.publicAmount)
                             ELSE withdrawalCredit
      /\ noteSpent' = [n \in Nullifiers |->
                         noteSpent[n] + (IF n = s.nf1 THEN 1 ELSE 0)
                                      + (IF n = s.nf2 THEN 1 ELSE 0)]
  BY <1>1, <1>2 DEF TransferOrWithdraw, Settle
<1>5. /\ ValueOf(LiveNotes) \in Nat /\ ValueOf(LiveNotes') \in Nat
      /\ ValueOf(LiveNotes) <= ValueOf(LiveNotes')
      /\ ValueOf(LiveNotes') <= ValueOf(LiveNotes) + s.outCm1.value + s.outCm2.value
  BY <1>1, <1>2, <1>3, <1>4, LiveInserted DEF TypeOK
<1>6. /\ Owed(feeCredit) \in Nat /\ Owed(feeCredit') \in Nat
      /\ Owed(feeCredit) <= Owed(feeCredit')
      /\ Owed(feeCredit') <= Owed(feeCredit) + (IF exec.payer # Pool THEN s.fee ELSE 0)
  <2>1. /\ feeCredit \in [Accounts -> Nat] /\ feeCredit' \in [Accounts -> Nat]
        /\ Owed(feeCredit) \in Nat /\ Owed(feeCredit') \in Nat
    BY <1>2, OwedNat DEF TypeOK
  <2>2. CASE s.fee # 0 /\ exec.payer # Pool
    BY <1>3, <1>4, <2>1, <2>2, OwedCredited
  <2>3. CASE ~(s.fee # 0 /\ exec.payer # Pool)
    BY <1>3, <1>4, <2>1, <2>3
  <2>. QED  BY <2>2, <2>3
<1>7. /\ Owed(withdrawalCredit) \in Nat /\ Owed(withdrawalCredit') \in Nat
      /\ Owed(withdrawalCredit) <= Owed(withdrawalCredit')
      /\ Owed(withdrawalCredit') <= Owed(withdrawalCredit) + s.publicAmount
  <2>1. /\ withdrawalCredit \in [Accounts -> Nat] /\ withdrawalCredit' \in [Accounts -> Nat]
        /\ Owed(withdrawalCredit) \in Nat /\ Owed(withdrawalCredit') \in Nat
    BY <1>2, OwedNat DEF TypeOK
  <2>2. CASE c.op = "withdraw"
    BY <1>3, <1>4, <2>1, <2>2, OwedCredited
  <2>3. CASE c.op # "withdraw"
    BY <1>3, <1>4, <2>1, <2>3
  <2>. QED  BY <2>2, <2>3
<1>8. PICK refund \in 0 .. mc - 1 :
        /\ exec.payer = Pool => balance'[Pool] = balance[Pool] + refund
        /\ exec.payer # Pool => balance'[Pool] = balance[Pool]
        /\ exec.payer = Paymaster => balance'[Paymaster] = balance[Paymaster] + refund
        /\ exec.payer # Paymaster => balance'[Paymaster] = balance[Paymaster]
  BY <1>1, <1>2, RefundMoney DEF MoneyInv, mc
<1>9. /\ Prepaid = IF exec.payer = Pool THEN mc ELSE 0
      /\ InFlight = s.nf1.cm.value + s.nf2.cm.value - Prepaid
      /\ InFlight' = 0 /\ Prepaid' = 0
  BY <1>2 DEF Prepaid, InFlight, s, mc
<1>10. exec.payer \in {Pool, Paymaster} => s.fee >= mc
  BY <1>1 DEF MoneyInv, PayerInv, s, mc
<1>11. balance[Pool] \in Int /\ balance[Paymaster] \in Int
  BY <1>2, AccountsAssumption DEF TypeOK
<1> DEFINE toNotes == ValueOf(LiveNotes') - ValueOf(LiveNotes)
           toCredit == (Owed(withdrawalCredit') - Owed(withdrawalCredit))
                       + (Owed(feeCredit') - Owed(feeCredit))
           toPool == IF exec.payer = Pool THEN refund ELSE 0
<1>12. /\ toNotes \in Nat /\ toNotes <= s.outCm1.value + s.outCm2.value
       /\ toCredit \in Nat
       /\ toCredit <= s.publicAmount + (IF exec.payer = Pool THEN 0 ELSE s.fee)
       /\ toPool \in 0 .. Prepaid /\ balance'[Pool] = balance[Pool] + toPool
  BY <1>2, <1>3, <1>5, <1>6, <1>7, <1>8, <1>9, <1>11
<1>13. toNotes + toCredit <= InFlight /\ InFlight \in Nat
  <2> HIDE DEF toNotes, toCredit, toPool
  <2>1. CASE exec.payer = Pool
    BY <1>2, <1>3, <1>9, <1>10, <1>12, <2>1
  <2>2. CASE exec.payer # Pool
    BY <1>2, <1>3, <1>9, <1>12, <2>2
  <2>. QED  BY <2>1, <2>2
<1>14. /\ ValueOf(LiveNotes)' = ValueOf(LiveNotes) + toNotes
       /\ (Owed(withdrawalCredit) + Owed(feeCredit))'
          = Owed(withdrawalCredit) + Owed(feeCredit) + toCredit
  BY <1>5, <1>6, <1>7
<1>15. Ledger!Next
  <2> HIDE DEF toNotes, toCredit, toPool
  <2>1. toNotes \in 0 .. InFlight /\ toCredit \in 0 .. InFlight
    BY <1>12, <1>13
  <2>2. Ledger!Finish(toNotes, toCredit, toPool)
    BY <1>9, <1>12, <1>13, <1>14 DEF Ledger!Finish
  <2>. QED  BY <1>12, <2>1, <2>2 DEF Ledger!Next
<1>16. PayerInv'
  BY <1>2 DEF PayerInv
<1>17. Leaves(leaves) \subseteq Leaves(leaves') /\ Len(leaves) \in Nat /\ Len(leaves') \in Nat
       /\ Len(leaves) <= Len(leaves')
  <2>1. leaves \in Seq(Notes) /\ leaves' \in Seq(Notes)
    BY <1>2 DEF TypeOK
  <2>2. Leaves(leaves) \subseteq Leaves(leaves') /\ Extends(leaves, leaves')
    BY <1>3, <1>4, <2>1, InsertOutputsType, InsertOutputsExtends
  <2>. QED  BY <2>1, <2>2 DEF Extends
<1>18. ConsumedInv'
  BY <1>1, <1>17 DEF MoneyInv, ConsumedInv
<1>19. HeldInv'
  <2>1. balance'[Pool] + Prepaid' <= balance[Pool] + Prepaid /\ Prepaid \in Nat
    BY <1>2, <1>9, <1>11, <1>12
  <2>2. balance[Pool] + Prepaid <= Len(leaves) * MaxValue
    BY DEF MoneyInv, HeldInv
  <2>3. Len(leaves) * MaxValue <= Len(leaves') * MaxValue
        /\ Len(leaves) * MaxValue \in Nat /\ Len(leaves') * MaxValue \in Nat
    BY <1>17, MoreRoom, FieldAssumption
  <2>4. balance'[Pool] + Prepaid' \in Int
    BY <1>9, <1>11, <1>12
  <2>5. balance'[Pool] + Prepaid' <= Len(leaves') * MaxValue
    BY <1>11, <2>1, <2>2, <2>3, <2>4
  <2>. QED  BY <2>5 DEF HeldInv
<1>20. PaymasterInv'
  <2>1. ASSUME NEW nf \in Stuck PROVE nf \in Stuck'
    <3>1. nf \in Nullifiers /\ nf \notin {s.nf1, s.nf2} /\ nonceSeq[nf] > 0 /\ noteSpent[nf] = 0
      BY <1>2, <1>3 DEF Stuck, Burned
    <3>2. noteSpent'[nf] = 0
      BY <1>4, <3>1
    <3>. QED  BY <1>1, <1>2, <3>1, <3>2 DEF Stuck, Burned
  <2>2. /\ feeCredit[Paymaster] \in Nat /\ InitialFunds \in Nat
        /\ feeCredit'[Paymaster] \in Nat /\ Fronted' = 0
    BY <1>2, AccountsAssumption, RunAssumption DEF TypeOK, Fronted
  <2>3. CASE exec.payer = Paymaster
    <3>1. Fronted = mc /\ s.fee >= mc /\ s.fee # 0
      BY <1>1, <1>2, <1>3, <1>10, <2>3 DEF Fronted, mc
    <3>2. feeCredit'[Paymaster] = feeCredit[Paymaster] + s.fee
      BY <1>2, <1>4, <2>3, <3>1, AccountsAssumption DEF Credit, TypeOK
    <3>. QED  BY <1>2, <1>3, <1>8, <1>11, <2>1, <2>2, <2>3, <3>1, <3>2
              DEF MoneyInv, PaymasterInv
  <2>4. CASE exec.payer # Paymaster
    <3>1. Fronted = 0 /\ feeCredit'[Paymaster] = feeCredit[Paymaster]
      BY <1>2, <1>4, <2>4, AccountsAssumption DEF Fronted, Credit, TypeOK
    <3>. QED  BY <1>8, <2>1, <2>2, <2>4, <3>1 DEF MoneyInv, PaymasterInv
  <2>. QED  BY <2>3, <2>4
<1>. QED  BY <1>15, <1>16, <1>18, <1>19, <1>20 DEF MoneyInv

(* A revert leaves the reservation to nobody: the notes are burned, and    *)
(* what the pool had fronted is covered by them.                           *)
LEMMA RevertMoney ==
  ASSUME IInv, IInv', MoneyInv, SettleRevert
  PROVE  MoneyInv' /\ [Ledger!Next]_Ledger!ledger
<1> DEFINE s == SpendInFlight
           mc == exec.tx.maxCost
<1>1. /\ ~Idle /\ Refund /\ exec' = NoTx
      /\ UNCHANGED <<leaves, currentRoot, withdrawalCredit, feeCredit, noteSpent, nonceSeq>>
  BY DEF SettleRevert, storage
<1>2. /\ TypeOK /\ TypeOK' /\ mc \in Nat \ {0} /\ Idle' /\ ~SpendRunning'
  BY <1>1 DEF IInv, TypeOK, ExecTypeOK, SpendRunning, Idle
<1>3. PICK refund \in 0 .. mc - 1 :
        /\ exec.payer = Pool => balance'[Pool] = balance[Pool] + refund
        /\ exec.payer # Pool => balance'[Pool] = balance[Pool]
        /\ exec.payer = Paymaster => balance'[Paymaster] = balance[Paymaster] + refund
        /\ exec.payer # Paymaster => balance'[Paymaster] = balance[Paymaster]
  BY <1>1, <1>2, RefundMoney DEF MoneyInv
<1>4. /\ LiveNotes' = LiveNotes /\ InFlight' = 0 /\ Prepaid' = 0 /\ Fronted' = 0
      /\ Stuck' = Burned' /\ Burned' = Burned
  BY <1>1, <1>2 DEF LiveNotes, InFlight, Prepaid, Fronted, Stuck, Burned
<1>5. PayerInv' /\ ConsumedInv'
  BY <1>1, <1>2 DEF MoneyInv, PayerInv, ConsumedInv
<1>6. balance[Pool] \in Int /\ balance[Paymaster] \in Int
  BY <1>2, AccountsAssumption DEF TypeOK
<1> DEFINE toPool == IF exec.payer = Pool THEN refund ELSE 0
<1>7. /\ Prepaid = IF SpendRunning /\ exec.payer = Pool THEN mc ELSE 0
      /\ exec.payer \in {Pool, Paymaster} => SpendRunning /\ s.fee >= mc
  BY <1>1 DEF Prepaid, MoneyInv, PayerInv, SpendRunning
<1>8. toPool \in 0 .. Prepaid /\ balance'[Pool] = balance[Pool] + toPool
  BY <1>2, <1>3, <1>6, <1>7
<1>9. HeldInv'
  <2>1. Len(leaves) \in Nat /\ Len(leaves) * MaxValue \in Nat /\ Prepaid \in Nat
    BY <1>2, <1>7, MoreRoom, FieldAssumption DEF TypeOK
  <2> DEFINE bound == Len(leaves) * MaxValue
  <2>2. balance[Pool] + Prepaid <= bound
    BY DEF MoneyInv, HeldInv
  <2> HIDE DEF bound, toPool
  <2>3. balance'[Pool] <= balance[Pool] + Prepaid /\ balance'[Pool] \in Int
    BY <1>6, <1>8, <2>1
  <2>4. balance'[Pool] + Prepaid' <= bound
    <3>1. balance[Pool] + Prepaid \in Int /\ bound \in Int
      BY <1>6, <2>1 DEF bound
    <3>. QED  BY <1>4, <2>2, <2>3, <3>1
  <2>. QED  BY <1>1, <2>4 DEF HeldInv, bound
<1>10. PaymasterInv'
  <2>1. CASE SpendRunning
    <3>1. exec.tx.keys = {s.nf1, s.nf2} /\ SpendTypeOK(s)
      BY <2>1, RunningSpend
    <3>2. s.nf1 \in Burned
      BY <1>2, <2>1, <3>1 DEF IInv, RunningInv, Burned, SpendTypeOK
    <3>. QED  BY <1>4, <3>2 DEF PaymasterInv
  <2>2. CASE ~SpendRunning
    <3>1. exec.payer # Paymaster /\ Fronted = 0 /\ Stuck = Burned
      BY <1>7, <2>2 DEF Fronted, Stuck
    <3>. QED  BY <1>1, <1>3, <1>4, <3>1 DEF MoneyInv, PaymasterInv
  <2>. QED  BY <2>1, <2>2
<1>11. [Ledger!Next]_Ledger!ledger
  <2>1. CASE SpendRunning
    <3>1. InFlight \in Nat
      <4>1. /\ s.nf1.cm.value + s.nf2.cm.value
               = s.outCm1.value + s.outCm2.value + s.publicAmount + s.fee
            /\ s.nf1.cm.value \in Nat /\ s.nf2.cm.value \in Nat
            /\ s.outCm1.value \in Nat /\ s.outCm2.value \in Nat
            /\ s.publicAmount \in Nat /\ s.fee \in Nat
        BY <2>1, RunningSpend
      <4>2. InFlight = s.nf1.cm.value + s.nf2.cm.value - Prepaid
        BY <2>1 DEF InFlight
      <4> HIDE DEF s
      <4>. QED  BY <1>2, <1>7, <4>1, <4>2
    <3>2. /\ ValueOf(LiveNotes)' = ValueOf(LiveNotes) + 0
          /\ (Owed(withdrawalCredit) + Owed(feeCredit))'
             = Owed(withdrawalCredit) + Owed(feeCredit) + 0
      <4>1. ValueOf(LiveNotes) \in Nat /\ Owed(withdrawalCredit) \in Nat /\ Owed(feeCredit) \in Nat
        BY <1>2, LiveFinite, OwedNat DEF TypeOK
      <4>. QED  BY <1>1, <1>4, <4>1
    <3> HIDE DEF toPool
    <3>3. Ledger!Finish(0, 0, toPool)
      BY <1>4, <1>8, <3>1, <3>2 DEF Ledger!Finish
    <3>4. 0 \in 0 .. InFlight
      BY <3>1
    <3>. QED  BY <1>8, <3>3, <3>4 DEF Ledger!Next
  <2>2. CASE ~SpendRunning
    <3>1. InFlight = 0 /\ Prepaid = 0 /\ balance'[Pool] = balance[Pool]
      BY <1>3, <1>7, <2>2 DEF InFlight
    <3>2. UNCHANGED Ledger!ledger
      BY <1>1, <1>4, <3>1 DEF Ledger!ledger
    <3>. QED  BY <3>2
  <2>. QED  BY <2>1, <2>2
<1>. QED  BY <1>5, <1>9, <1>10, <1>11 DEF MoneyInv

(* A claim pays out exactly the credit it clears. *)
LEMMA ClaimMoney ==
  ASSUME TypeOK, TypeOK', MoneyInv,
         NEW who \in Accounts, ClaimWithdrawal(who) \/ ClaimFee(who)
  PROVE  MoneyInv' /\ Ledger!Next
<1>1. /\ Idle /\ who # Pool
      /\ UNCHANGED <<leaves, noteSpent, nonceSeq, exec>>
  BY DEF ClaimWithdrawal, ClaimFee
<1>2. /\ LiveNotes' = LiveNotes /\ InFlight = 0 /\ InFlight' = 0
      /\ Prepaid = 0 /\ Prepaid' = 0 /\ Fronted = 0 /\ Fronted' = 0 /\ Stuck' = Stuck
      /\ Idle'
  BY <1>1 DEF LiveNotes, InFlight, Prepaid, Fronted, Stuck, Burned, SpendRunning, Idle
<1>3. /\ withdrawalCredit \in [Accounts -> Nat] /\ feeCredit \in [Accounts -> Nat]
      /\ balance[Pool] \in Int /\ balance[Paymaster] \in Int
      /\ balance[who] \in Int /\ Pool # Paymaster
      /\ Owed(withdrawalCredit) \in Nat /\ Owed(feeCredit) \in Nat
      /\ feeCredit[Paymaster] \in Nat /\ InitialFunds \in Nat
      /\ feeCredit'[Paymaster] \in Nat /\ balance'[Paymaster] \in Int
  BY OwedNat, AccountsAssumption, RunAssumption DEF TypeOK
<1>4. PICK amount \in Nat :
        /\ amount <= Owed(withdrawalCredit) + Owed(feeCredit)
        /\ (Owed(withdrawalCredit) + Owed(feeCredit))'
           = Owed(withdrawalCredit) + Owed(feeCredit) - amount
        /\ balance'[Pool] = balance[Pool] - amount
        /\ balance'[Paymaster] + feeCredit'[Paymaster]
           >= balance[Paymaster] + feeCredit[Paymaster]
  <2>1. CASE ClaimWithdrawal(who)
    <3> DEFINE amount == withdrawalCredit[who]
    <3>1. /\ withdrawalCredit' = [withdrawalCredit EXCEPT ![who] = 0]
          /\ feeCredit' = feeCredit
          /\ balance'[Pool] = balance[Pool] - amount
          /\ who = Paymaster => balance'[Paymaster] = balance[Paymaster] + amount
          /\ who # Paymaster => balance'[Paymaster] = balance[Paymaster]
      BY <1>1, <1>3, <2>1, AccountsAssumption DEF ClaimWithdrawal, TypeOK
    <3>2. /\ Owed(withdrawalCredit') = Owed(withdrawalCredit) - amount
          /\ amount \in Nat /\ amount <= Owed(withdrawalCredit)
      BY <1>3, <3>1, OwedCleared
    <3> HIDE DEF amount
    <3>. QED  BY <1>3, <3>1, <3>2
  <2>2. CASE ClaimFee(who)
    <3> DEFINE amount == feeCredit[who]
    <3>1. /\ feeCredit' = [feeCredit EXCEPT ![who] = 0]
          /\ withdrawalCredit' = withdrawalCredit
          /\ balance'[Pool] = balance[Pool] - amount
          /\ who = Paymaster => /\ balance'[Paymaster] = balance[Paymaster] + amount
                                /\ amount = feeCredit[Paymaster]
                                /\ feeCredit'[Paymaster] = 0
          /\ who # Paymaster => /\ balance'[Paymaster] = balance[Paymaster]
                                /\ feeCredit'[Paymaster] = feeCredit[Paymaster]
      BY <1>1, <1>3, <2>2, AccountsAssumption DEF ClaimFee, TypeOK
    <3>2. /\ Owed(feeCredit') = Owed(feeCredit) - amount
          /\ amount \in Nat /\ amount <= Owed(feeCredit)
      BY <1>3, <3>1, OwedCleared
    <3> HIDE DEF amount
    <3>. QED  BY <1>3, <3>1, <3>2
  <2>. QED  BY <2>1, <2>2
<1>5. Ledger!PayOut(amount) /\ amount \in 0 .. Owed(withdrawalCredit) + Owed(feeCredit)
  BY <1>2, <1>3, <1>4 DEF Ledger!PayOut
<1>6. PayerInv' /\ ConsumedInv'
  BY <1>1, <1>2 DEF MoneyInv, PayerInv, ConsumedInv
<1>7. HeldInv'
  <2> DEFINE bound == Len(leaves) * MaxValue
  <2>1. bound \in Nat
    BY MoreRoom, FieldAssumption DEF TypeOK
  <2> HIDE DEF bound
  <2>3. balance[Pool] + Prepaid <= bound
    BY DEF MoneyInv, HeldInv, bound
  <2>2. balance'[Pool] + Prepaid' <= bound
    BY <1>2, <1>3, <1>4, <2>1, <2>3
  <2>. QED  BY <1>1, <2>2 DEF HeldInv, bound
<1>8. PaymasterInv'
  BY <1>2, <1>3, <1>4 DEF MoneyInv, PaymasterInv
<1>. QED  BY <1>5, <1>6, <1>7, <1>8 DEF MoneyInv, Ledger!Next

(* Every step keeps it, and is a step of the ledger or nothing to it.      *)
LEMMA MoneyStep ==
  IInv /\ IInv' /\ MoneyInv /\ [AnyStep]_vars => MoneyInv' /\ [Ledger!Next]_Ledger!ledger
<1> SUFFICES ASSUME IInv, IInv', MoneyInv, [AnyStep]_vars
             PROVE  MoneyInv' /\ [Ledger!Next]_Ledger!ledger
  OBVIOUS
<1>1. TypeOK /\ TypeOK'
  BY DEF IInv
<1>2. CASE UNCHANGED <<leaves, withdrawalCredit, feeCredit, noteSpent, nonceSeq, balance, exec>>
  <2>1. /\ LiveNotes' = LiveNotes /\ InFlight' = InFlight /\ Prepaid' = Prepaid
        /\ Fronted' = Fronted /\ Stuck' = Stuck
    BY <1>2 DEF LiveNotes, InFlight, Prepaid, Fronted, Stuck, Burned, SpendRunning,
                Idle, SpendInFlight, SettleFrame, LastFrame
  <2>2. PayerInv' /\ ConsumedInv' /\ HeldInv' /\ PaymasterInv'
    BY <1>2, <2>1 DEF MoneyInv, PayerInv, ConsumedInv, HeldInv, PaymasterInv, Idle,
                      SpendInFlight, SettleFrame, LastFrame
  <2>3. UNCHANGED Ledger!ledger
    BY <1>2, <2>1 DEF Ledger!ledger
  <2>. QED  BY <2>2, <2>3 DEF MoneyInv
<1>3. CASE UNCHANGED vars \/ AdvanceSlot
  BY <1>2, <1>3 DEF vars, storage, AdvanceSlot
<1>4. CASE AnyStep
  BY <1>1, <1>3, <1>4, ShieldMoney, ValidateMoney, SettleMoney, RevertMoney, ClaimMoney
     DEF AnyStep
<1>. QED  BY <1>3, <1>4

(* So both invariants always hold.                                         *)
LEMMA MoneyInvariance == Spec => [](IInv /\ MoneyInv)
<1>1. Init => IInv /\ MoneyInv
  BY InvInit, MoneyInit
<1>2. IInv /\ MoneyInv /\ [Next]_vars => IInv' /\ MoneyInv'
  BY InvStep, MoneyStep, NextIsAny
<1>. QED  BY <1>1, <1>2, PTL DEF Spec

(* An empty pool is an empty ledger. *)
LEMMA LedgerInit == Init => Ledger!Init
<1> SUFFICES ASSUME Init PROVE Ledger!Init
  OBVIOUS
<1>1. balance[Pool] = 0 /\ InFlight = 0 /\ Prepaid = 0
  BY AccountsAssumption DEF Init, InFlight, Prepaid, SpendRunning, Idle
<1>2. LiveNotes = {} /\ ValueOf(LiveNotes) = 0
  <2>1. LiveNotes = {}
    BY DEF Init, LiveNotes, Leaves
  <2>. QED  BY <2>1, SumEmpty DEF ValueOf
<1>3. Owed([a \in Accounts |-> 0]) = 0
  BY SumZero, AccountsAssumption DEF Owed
<1>. QED  BY <1>1, <1>2, <1>3 DEF Init, Ledger!Init

(* Whatever is deposited, approved, settled, reverted and claimed, in any  *)
(* order, the pool moves ETH, note value and credits as the ledger does:   *)
(* no duplicate output, burn, refund or self-payment steps outside it.     *)
THEOREM PoolRefinesLedger == Spec => ImplementsLedger
<1>1. Init => Ledger!Init
  BY LedgerInit
<1>2. IInv /\ MoneyInv /\ IInv' /\ [Next]_vars => [Ledger!Next]_Ledger!ledger
  BY MoneyStep, NextIsAny
<1>. QED
  BY <1>1, <1>2, MoneyInvariance, PTL DEF Spec, ImplementsLedger, Ledger!Spec

(* Solvency of the ledger is inductive together with its types: every step *)
(* adds as much to what is held as to what is owed, or takes from both.    *)
LedgerInv == Ledger!TypeOK /\ Ledger!Covered

(* Every step of the ledger keeps its invariant. *)
LEMMA LedgerStep == LedgerInv /\ [Ledger!Next]_Ledger!ledger => LedgerInv'
<1> DEFINE supply == Capacity * MaxValue
           held == balance[Pool]
           shielded == ValueOf(LiveNotes)
           credited == Owed(withdrawalCredit) + Owed(feeCredit)
           reserved == InFlight
           prepaid == Prepaid
<1> SUFFICES ASSUME LedgerInv, [Ledger!Next]_Ledger!ledger
             PROVE  LedgerInv'
  OBVIOUS
<1>1. /\ held \in Nat /\ shielded \in Nat /\ credited \in Nat
      /\ reserved \in Nat /\ prepaid \in Nat /\ held >= shielded + credited + reserved
  BY DEF LedgerInv, Ledger!TypeOK, Ledger!Covered
<1>2. supply \in Nat
  BY CapacityAssumption, FieldAssumption
<1>3. SUFFICES /\ held' \in Nat /\ shielded' \in Nat /\ credited' \in Nat
               /\ reserved' \in Nat /\ prepaid' \in Nat
               /\ held' >= shielded' + credited' + reserved'
  BY DEF LedgerInv, Ledger!TypeOK, Ledger!Covered
<1>4. ASSUME NEW amount \in 0 .. supply - held, Ledger!Deposit(amount)
      PROVE  /\ held' = held + amount /\ shielded' = shielded + amount
             /\ credited' = credited /\ reserved' = reserved /\ prepaid' = prepaid
  BY <1>4 DEF Ledger!Deposit
<1>5. ASSUME NEW amount \in 0 .. credited, Ledger!PayOut(amount)
      PROVE  /\ held' = held - amount /\ credited' = credited - amount
             /\ shielded' = shielded /\ reserved' = reserved /\ prepaid' = prepaid
  BY <1>5 DEF Ledger!PayOut
<1>6. ASSUME NEW amount \in 0 .. shielded, NEW gas \in 0 .. amount,
             Ledger!Authorize(amount, gas)
      PROVE  /\ reserved = 0 /\ held' = held - gas /\ shielded' = shielded - amount
             /\ reserved' = amount - gas /\ prepaid' = gas /\ credited' = credited
  BY <1>6 DEF Ledger!Authorize
<1>7. ASSUME NEW toNotes \in 0 .. reserved, NEW toCredit \in 0 .. reserved,
             NEW refund \in 0 .. prepaid, Ledger!Finish(toNotes, toCredit, refund)
      PROVE  /\ toNotes + toCredit <= reserved /\ held' = held + refund
             /\ shielded' = shielded + toNotes /\ credited' = credited + toCredit
             /\ reserved' = 0 /\ prepaid' = 0
  BY <1>7 DEF Ledger!Finish
<1>8. CASE UNCHANGED Ledger!ledger
  <2>1. /\ held' = held /\ shielded' = shielded /\ credited' = credited
        /\ reserved' = reserved /\ prepaid' = prepaid
    BY <1>8 DEF Ledger!ledger
  <2> HIDE DEF held, shielded, credited, reserved, prepaid
  <2>. QED  BY <1>1, <2>1
<1>9. CASE Ledger!Next
  <2>1. \/ \E amount \in 0 .. supply - held : Ledger!Deposit(amount)
        \/ \E amount \in 0 .. shielded : \E gas \in 0 .. amount : Ledger!Authorize(amount, gas)
        \/ \E toNotes, toCredit \in 0 .. reserved, refund \in 0 .. prepaid :
             Ledger!Finish(toNotes, toCredit, refund)
        \/ \E amount \in 0 .. credited : Ledger!PayOut(amount)
    BY <1>9 DEF Ledger!Next
  <2> HIDE DEF supply, held, shielded, credited, reserved, prepaid
  <2>2. CASE \E amount \in 0 .. supply - held : Ledger!Deposit(amount)
    BY <1>1, <1>2, <1>4, <2>2
  <2>3. CASE \E amount \in 0 .. shielded : \E gas \in 0 .. amount : Ledger!Authorize(amount, gas)
    BY <1>1, <1>6, <2>3
  <2>4. CASE \E toNotes, toCredit \in 0 .. reserved, refund \in 0 .. prepaid :
               Ledger!Finish(toNotes, toCredit, refund)
    BY <1>1, <1>7, <2>4
  <2>5. CASE \E amount \in 0 .. credited : Ledger!PayOut(amount)
    BY <1>1, <1>5, <2>5
  <2>. QED  BY <2>1, <2>2, <2>3, <2>4, <2>5
<1>. QED  BY <1>8, <1>9

(* What the ledger holds covers what it owes, whatever is deposited,       *)
(* spent, burned and claimed; of the pool it takes the names of the five   *)
(* totals and the supply, and nothing else.                                *)
THEOREM LedgerSolvent == Ledger!Spec => [](Ledger!TypeOK /\ Ledger!Covered)
<1>1. Ledger!Init => LedgerInv
  BY DEF Ledger!Init, LedgerInv, Ledger!TypeOK, Ledger!Covered
<1>2. LedgerInv => Ledger!TypeOK /\ Ledger!Covered
  BY DEF LedgerInv
<1>. QED  BY <1>1, <1>2, LedgerStep, PTL DEF Ledger!Spec

(* A ledger that is covered is a solvent pool. *)
LEMMA CoveredSolvent == IInv /\ Ledger!Covered => Solvent
<1> SUFFICES ASSUME IInv, Ledger!Covered PROVE Solvent
  OBVIOUS
<1>1. /\ ValueOf(LiveNotes) \in Nat /\ Owed(withdrawalCredit) \in Nat
      /\ Owed(feeCredit) \in Nat
  BY LiveFinite, OwedNat DEF IInv, TypeOK
<1>2. InFlight \in Int /\ balance[Pool] \in Int
  <2>1. balance[Pool] \in Int
    BY AccountsAssumption DEF IInv, TypeOK
  <2>2. CASE SpendRunning
    <3> DEFINE v1 == SpendInFlight.nf1.cm.value
               v2 == SpendInFlight.nf2.cm.value
    <3>1. v1 \in Nat /\ v2 \in Nat
      BY <2>2, RunningSpend
    <3>2. Prepaid \in Nat
      BY <2>2 DEF Prepaid, IInv, TypeOK, ExecTypeOK, SpendRunning
    <3>3. InFlight = v1 + v2 - Prepaid
      BY <2>2 DEF InFlight
    <3> HIDE DEF v1, v2
    <3>. QED  BY <2>1, <3>1, <3>2, <3>3
  <2>3. CASE ~SpendRunning
    BY <2>1, <2>3 DEF InFlight
  <2>. QED  BY <2>2, <2>3
<1>. QED  BY <1>1, <1>2 DEF Ledger!Covered, Solvent

(* The pool's ETH covers every unspent note, every credit and the spend in *)
(* flight, always.  That is what the ledger promises, and the pool         *)
(* implements it.                                                          *)
THEOREM PoolSolvent == Spec => []Solvent
<1>1. Ledger!Spec => [](Ledger!TypeOK /\ Ledger!Covered)
  BY LedgerSolvent
<1>. QED
  BY <1>1, CoveredSolvent, PoolRefinesLedger, MoneyInvariance, PTL DEF ImplementsLedger

(* All of it together, kept by any step of the pool.                       *)
PoolInv == IInv /\ MoneyInv /\ LedgerInv

(* It holds at the start.                                                  *)
LEMMA PoolInvInit == Init => PoolInv
BY InvInit, MoneyInit, LedgerInit
   DEF PoolInv, LedgerInv, Ledger!Init, Ledger!TypeOK, Ledger!Covered

(* Every step keeps it.                                                    *)
LEMMA PoolInvStep == PoolInv /\ [AnyStep]_vars => PoolInv'
BY InvStep, MoneyStep, LedgerStep DEF PoolInv

(* What is reserved for the spend that runs is no debt: the gas the pool   *)
(* has fronted for it comes out of its inputs.                             *)
LEMMA InFlightNat ==
  ASSUME IInv, PayerInv
  PROVE  InFlight \in Nat
<1>1. CASE ~SpendRunning
  BY <1>1 DEF InFlight
<1>2. CASE SpendRunning
  <2> DEFINE s == SpendInFlight
  <2>1. /\ s.nf1.cm.value + s.nf2.cm.value
           = s.outCm1.value + s.outCm2.value + s.publicAmount + s.fee
        /\ s.nf1.cm.value \in Nat /\ s.nf2.cm.value \in Nat
        /\ s.outCm1.value \in Nat /\ s.outCm2.value \in Nat
        /\ s.publicAmount \in Nat /\ s.fee \in Nat
    BY <1>2, RunningSpend
  <2>2. exec.tx.maxCost \in Nat /\ (exec.payer = Pool => s.fee >= exec.tx.maxCost)
    BY <1>2 DEF SpendRunning, PayerInv, IInv, TypeOK, ExecTypeOK
  <2>3. Prepaid \in Nat /\ Prepaid <= s.fee
    BY <1>2, <2>1, <2>2 DEF Prepaid
  <2>4. InFlight = s.nf1.cm.value + s.nf2.cm.value - Prepaid
    BY <1>2 DEF InFlight
  <2> HIDE DEF s
  <2>. QED  BY <2>1, <2>3, <2>4
<1>. QED  BY <1>1, <1>2

(* A self-paying spend that frame 0 would approve can be paid for, while   *)
(* another one runs as well as between two.                                *)
LEMMA SelfPayEnough ==
  ASSUME IInv, MoneyInv, Solvent,
         NEW r \in RequestRecords, NEW ref, NEW tx, tx = BuildTx(r, ref),
         r.sender = Pool, r.payer = Pool, NoncesCurrent(tx), RefValid(tx.refs[1]),
         DispatcherApproves(tx, 1)
  PROVE  balance[Pool] >= tx.maxCost
<1> DEFINE s == SettleFrame(tx).call.spend
<1>1. /\ TypeOK /\ RootsInv /\ SpendTypeOK(s) /\ tx.maxCost \in Nat
  BY BuiltTx DEF IInv
<1>2. s.fee >= tx.maxCost
  BY <1>1, BuiltPayer DEF DispatcherApproves, DispatcherFee
<1>3. /\ CircuitSatisfied(s)
      /\ s.nf1.cm \in Notes /\ s.nf2.cm \in Notes /\ s.nf1.cm # s.nf2.cm
      /\ s.nf1.cm.value # 0 => s.nf1.cm \in LiveNotes
      /\ s.nf2.cm.value # 0 => s.nf2.cm \in LiveNotes
  BY <1>1, ApprovedInputs
<1> HIDE DEF s
<1>4. /\ LiveNotes \in SUBSET Notes /\ IsFiniteSet(LiveNotes)
      /\ ValueOf(LiveNotes) \in Nat
  BY <1>1, LiveFinite DEF TypeOK
<1>5. /\ s.nf1.cm.value \in Nat /\ s.nf2.cm.value \in Nat
      /\ ValueOf(LiveNotes) >= s.nf1.cm.value + s.nf2.cm.value
  <2> DEFINE c1 == s.nf1.cm
             c2 == s.nf2.cm
  <2> HIDE DEF c1, c2
  <2>1. c1 \in Notes /\ c2 \in Notes /\ c1 # c2
        /\ (c1.value # 0 => c1 \in LiveNotes) /\ (c2.value # 0 => c2 \in LiveNotes)
    BY <1>3 DEF c1, c2
  <2>2. /\ ValueOf(LiveNotes) = c1.value + c2.value + ValueOf(LiveNotes \ {c1, c2})
        /\ ValueOf(LiveNotes \ {c1, c2}) \in Nat
        /\ c1.value \in Nat /\ c2.value \in Nat
    BY <1>4, <2>1, InputsWorth
  <2>3. ValueOf(LiveNotes) >= c1.value + c2.value
    BY <2>2
  <2>. QED  BY <2>2, <2>3 DEF c1, c2
<1>6. /\ s.nf1.cm.value + s.nf2.cm.value
         = s.outCm1.value + s.outCm2.value + s.publicAmount + s.fee
      /\ s.outCm1.value \in Nat /\ s.outCm2.value \in Nat
      /\ s.publicAmount \in Nat /\ s.fee \in Nat
  BY <1>1, <1>3, ConservesExactly, NoteValue DEF SpendTypeOK
<1>7. Owed(withdrawalCredit) \in Nat /\ Owed(feeCredit) \in Nat /\ balance[Pool] \in Int
  BY <1>1, OwedNat, AccountsAssumption DEF TypeOK
<1>8. balance[Pool] >= ValueOf(LiveNotes) + Owed(withdrawalCredit) + Owed(feeCredit)
  <2>1. InFlight \in Nat
    BY InFlightNat DEF MoneyInv
  <2>. QED  BY <1>4, <1>7, <2>1 DEF Solvent
<1>. QED  BY <1>1, <1>2, <1>4, <1>5, <1>6, <1>7, <1>8

(* A self-paying spend that frame 0 approves can always be paid for: its   *)
(* inputs are among the notes that the pool's ETH covers, and its fee,     *)
(* which they cover, covers the maximum cost.                              *)
THEOREM SelfPayAlwaysCovered == Spec => []SelfPayCovered
<1>1. IInv /\ MoneyInv /\ Solvent => SelfPayCovered
  <2> SUFFICES ASSUME IInv, MoneyInv, Solvent, Idle,
                      NEW r \in Requests, r.sender = Pool, r.payer = Pool,
                      NEW tx \in TxsOf(r), NoncesCurrent(tx), RefValid(tx.refs[1]),
                      DispatcherApproves(tx, 1)
               PROVE  balance[Pool] >= tx.maxCost
    BY DEF SelfPayCovered
  <2>1. PICK ref : tx = BuildTx(r, ref)
    BY DEF TxsOf
  <2>. QED  BY <2>1, RequestsAssumption, SelfPayEnough
<1>. QED  BY <1>1, PoolSolvent, MoneyInvariance, PTL

(* A paymaster that sponsors spends is never out of pocket at the end of a *)
(* transaction, unless a settlement has burned nullifiers.                 *)
THEOREM PaymasterNeverLoses == Spec => []PaymasterWhole
<1>1. IInv /\ MoneyInv => PaymasterWhole
  <2> SUFFICES ASSUME IInv, MoneyInv, Idle, Burned = {}
               PROVE  balance[Paymaster] + feeCredit[Paymaster] >= InitialFunds
    BY DEF PaymasterWhole
  <2>1. Stuck = {} /\ Fronted = 0
    BY DEF Stuck, Fronted
  <2>2. balance[Paymaster] \in Int /\ feeCredit[Paymaster] \in Int
    BY AccountsAssumption DEF IInv, TypeOK
  <2>. QED  BY <2>1, <2>2 DEF MoneyInv, PaymasterInv
<1>. QED  BY <1>1, MoneyInvariance, PTL

-----------------------------------------------------------------------------
(* The split pool: one settlement per consumption, whatever POOL_SENDER    *)
(* approves and whatever stands between its frame and the pool; and what a *)
(* SharedPoolSender approves settles.                                      *)

(* The envelopes *)

(* Aiming the SENDER frame elsewhere changes nothing else of an envelope.  *)
LEMMA ReferenceTxTypes ==
  ASSUME NEW r \in RequestRecords, NEW tx \in ReferenceTxs(r)
  PROVE  /\ SpendTypeOK(SettleFrame(tx).call.spend)
         /\ PayerOf(tx) \in Accounts
         /\ tx.keys \subseteq Nullifiers /\ tx.nonceSeq \in Nat
         /\ tx.maxCost \in Nat /\ 1 \in DOMAIN tx.refs
<1>1. ASSUME NEW t \in TxsOf(r) PROVE t.nonceSeq \in Nat /\ t = BuildTx(r, t.refs[1])
  BY <1>1 DEF TxsOf, BuildTx, RequestRecords
<1>2. CASE tx \in TxsOf(r)
  BY <1>1, <1>2, TxTypes
<1>3. ASSUME NEW t \in TxsOf(r), tx = Redirected(t)
      PROVE  /\ SpendTypeOK(SettleFrame(tx).call.spend)
             /\ PayerOf(tx) \in Accounts
             /\ tx.keys \subseteq Nullifiers /\ tx.nonceSeq \in Nat
             /\ tx.maxCost \in Nat /\ 1 \in DOMAIN tx.refs
  <2> DEFINE s == SpendOf(r, t.refs[1].root)
  <2>1. t.frames = BuildFrames(r, s)
    BY <1>1 DEF BuildTx
  <2>2. /\ Len(tx.frames) = Len(t.frames) /\ Len(t.frames) \in {2, 3}
        /\ SettleFrame(tx).call = SettleFrame(t).call
        /\ PayerOf(tx) = PayerOf(t)
    <3> DEFINE n == Len(t.frames)
               f == [i \in DOMAIN t.frames |->
                       IF i = LastFrame(t) THEN AimedAtSender(t.frames[i])
                                           ELSE t.frames[i]]
    <3>1. n \in {2, 3} /\ DOMAIN t.frames = 1 .. n
      <4>1. CASE Len(t.frames) = 2
        BY <4>1, <2>1 DEF BuildFrames
      <4>2. CASE Len(t.frames) = 3
        BY <4>2, <2>1 DEF BuildFrames
      <4>3. Len(t.frames) \in {2, 3}
        BY <2>1, SMT DEF BuildFrames
      <4> QED
        BY <4>1, <4>2, <4>3
    <3>2. t.frames[n] = Frame(Pool, SENDER, 0, 10000000, 0, SettleCall(r, s))
      BY <2>1 DEF BuildFrames
    <3>3. tx.frames = f
      BY <1>1, <1>3 DEF Redirected, BuildTx
    <3>4. DOMAIN f = 1 .. n /\ Len(f) = n
      BY <3>1
    <3>5. f[n] = AimedAtSender(t.frames[n]) /\ f[n - 1] = t.frames[n - 1]
      <4>1. LastFrame(t) = n
        BY DEF LastFrame
      <4>2. n \in 1 .. n /\ n - 1 \in 1 .. n /\ n - 1 # n
        <5> HIDE DEF n
        <5> QED
          BY <3>1
      <4> QED
        BY <3>1, <4>1, <4>2
    <3>6. f[n].call = t.frames[n].call
      BY <3>2, <3>5 DEF Frame, AimedAtSender
    <3> QED
      BY <3>1, <3>3, <3>4, <3>5, <3>6 DEF SettleFrame, LastFrame, PayerOf
  <2>3. /\ tx.keys = t.keys /\ tx.nonceSeq = t.nonceSeq
        /\ tx.maxCost = t.maxCost /\ tx.refs = t.refs
    BY <1>1, <1>3 DEF Redirected, BuildTx
  <2> QED
    BY <1>1, <2>2, <2>3, TxTypes
<1> QED
  BY <1>2, <1>3 DEF ReferenceTxs

(* What a SharedPoolSender approves passes every guard of settlement.      *)
LEMMA SharedSenderSettles ==
  ASSUME NEW tx, NEW payer \in Accounts, SharedSenderApproves(tx, 1)
  PROVE  ReferenceAccepts(tx, LastFrame(tx), payer)
<1> DEFINE c == tx.frames[3].call
           s == c.spend
<1>1. /\ tx.sender = PoolSender /\ Len(tx.frames) = 3
      /\ DispatcherSettleFrame(tx.frames[3])
      /\ DispatcherKeys(tx, s) /\ DispatcherRoot(tx, s) /\ VerifyFrameProof(s)
  BY DEF SharedSenderApproves
<1>2. SettlementShape(c)
  BY <1>1, AccountsAssumption DEF SettlementShape, DispatcherSettleFrame
<1>3. ReferenceCaller(tx)
  BY <1>1 DEF ReferenceCaller
<1>4. ReferenceBindings(EnvelopeProbe(tx, 3, payer), s)
  BY <1>1 DEF ReferenceBindings, SettlementBindings, EnvelopeProbe,
     DispatcherSettleFrame, DispatcherKeys, DispatcherRoot
<1>5. VerifyProof(s)
  BY <1>1 DEF VerifyProof, VerifyFrameProof, ValidateSpend
<1> QED
  BY <1>1, <1>2, <1>3, <1>4, <1>5 DEF ReferenceAccepts, LastFrame

-----------------------------------------------------------------------------
(* The invariant *)

RefTypes ==
  /\ leaves \in Seq(Notes)
  /\ noteSpent \in [Nullifiers -> Nat]
  /\ nonceSeq \in [Nullifiers -> Nat]
  /\ ~Idle => /\ exec.payer \in Accounts
              /\ exec.tx.keys \subseteq Nullifiers /\ exec.tx.nonceSeq \in Nat
              /\ SpendTypeOK(SpendInFlight)

SenderRunning == ~Idle /\ exec.tx.sender = PoolSender

RefConsumedInv ==
  \A nf \in Nullifiers : noteSpent[nf] <= nonceSeq[nf] /\ noteSpent[nf] <= 1

(* The keys of a running transaction stand one above its sequence, and the *)
(* notes have been spent no more often than that sequence says.            *)
RefRunningInv ==
  SenderRunning =>
    /\ \A k \in exec.tx.keys : /\ nonceSeq[k] = exec.tx.nonceSeq + 1
                               /\ noteSpent[k] <= exec.tx.nonceSeq
    /\ proofAuthorized => SharedSenderApproves(exec.tx, 1)

RefBurnInv ==
  proofAuthorized =>
    \A nf \in Burned : \/ SenderRunning /\ nf \in exec.tx.keys
                       \/ Len(leaves) >= Capacity - 1

RefInv == RefTypes /\ RefConsumedInv /\ RefRunningInv /\ RefBurnInv

(* The split pool's invariant holds at the start.                          *)
LEMMA RefInit == ReferenceInit => RefInv
BY DEF ReferenceInit, Init, RefInv, RefTypes, RefConsumedInv, RefRunningInv,
   RefBurnInv, SenderRunning, Burned, Idle

(* a step that leaves nonces, events and the running transaction alone,    *)
(* and of the tree takes nothing back                                      *)
LEMMA RefElsewhere ==
  ASSUME RefInv, UNCHANGED <<noteSpent, nonceSeq, exec, proofAuthorized>>,
         leaves' \in Seq(Notes), Len(leaves') >= Len(leaves)
  PROVE  RefInv'
<1>1. /\ Idle' = Idle /\ SenderRunning' = SenderRunning /\ Burned' = Burned
      /\ SpendInFlight' = SpendInFlight
  BY DEF Idle, SenderRunning, Burned, SpendInFlight
<1>2. RefTypes' /\ RefConsumedInv' /\ RefRunningInv'
  BY <1>1 DEF RefInv, RefTypes, RefConsumedInv, RefRunningInv
<1>3. RefBurnInv'
  BY <1>1, CapacityAssumption DEF RefInv, RefTypes, RefBurnInv
<1> QED
  BY <1>2, <1>3 DEF RefInv

(* A deposit keeps it.                                                     *)
LEMMA RefShield ==
  ASSUME RefInv, NEW i \in Inners, NEW v \in ShieldValues, Shield(i, v),
         UNCHANGED proofAuthorized
  PROVE  RefInv'
<1>1. [inner |-> i, value |-> v] \in Notes
  BY DepositsAssumption DEF Notes
<1>2. leaves' \in Seq(Notes) /\ Len(leaves') >= Len(leaves)
  BY <1>1 DEF Shield, RefInv, RefTypes
<1> QED
  BY <1>2, RefElsewhere DEF Shield

(* Whatever POOL_SENDER approves, approval keeps it.                       *)
LEMMA RefValidate ==
  ASSUME RefInv, NEW r \in RequestRecords, NEW tx \in ReferenceTxs(r),
         ReferenceValidate(tx), UNCHANGED proofAuthorized
  PROVE  RefInv'
<1> USE DEF RefInv
<1>1. /\ SpendTypeOK(SettleFrame(tx).call.spend)
      /\ PayerOf(tx) \in Accounts
      /\ tx.keys \subseteq Nullifiers /\ tx.nonceSeq \in Nat
  BY ReferenceTxTypes
<1>2. /\ Idle /\ exec' = [payer |-> PayerOf(tx), tx |-> tx]
      /\ leaves' = leaves /\ noteSpent' = noteSpent
      /\ ReferenceNoncesCurrent(tx) /\ ReferenceSenderApproves(tx)
      /\ ReferenceConsumeKeys(tx)
  BY DEF ReferenceValidate, storage
<1>3. exec'.tx = tx /\ exec'.payer = PayerOf(tx)
  BY <1>2
<1>4. SpendInFlight' = SettleFrame(tx).call.spend
  BY <1>3 DEF SpendInFlight, SettleFrame, LastFrame
<1>5. nonceSeq' \in [Nullifiers -> Nat]
      /\ \A k \in Nullifiers :
           nonceSeq'[k] = IF tx.sender = PoolSender /\ k \in tx.keys
                          THEN nonceSeq[k] + 1 ELSE nonceSeq[k]
  BY <1>2 DEF ReferenceConsumeKeys, RefTypes
<1>6. RefTypes'
  <2>1. SpendTypeOK(SpendInFlight')
    BY <1>1, <1>4
  <2>2. /\ leaves' \in Seq(Notes) /\ noteSpent' \in [Nullifiers -> Nat]
        /\ exec'.payer \in Accounts
        /\ exec'.tx.keys \subseteq Nullifiers /\ exec'.tx.nonceSeq \in Nat
    BY <1>1, <1>2, <1>3 DEF RefTypes
  <2> QED
    BY <1>5, <2>1, <2>2 DEF RefTypes, SpendTypeOK
<1>7. RefConsumedInv'
  <2>1. ASSUME NEW k \in Nullifiers
        PROVE  noteSpent[k] <= nonceSeq'[k] /\ noteSpent[k] <= 1
    <3>1. /\ noteSpent[k] \in Nat /\ nonceSeq[k] \in Nat
          /\ nonceSeq'[k] = nonceSeq[k] \/ nonceSeq'[k] = nonceSeq[k] + 1
      BY <1>5 DEF RefTypes
    <3>2. noteSpent[k] <= nonceSeq[k] /\ noteSpent[k] <= 1
      BY DEF RefConsumedInv
    <3> QED
      BY <3>1, <3>2
  <2> QED
    BY <1>2, <2>1 DEF RefConsumedInv
<1>8. RefRunningInv'
  <2> SUFFICES ASSUME tx.sender = PoolSender
               PROVE  /\ \A k \in tx.keys : /\ nonceSeq'[k] = tx.nonceSeq + 1
                                            /\ noteSpent'[k] <= tx.nonceSeq
                      /\ proofAuthorized => SharedSenderApproves(tx, 1)
    BY <1>3 DEF RefRunningInv, SenderRunning, SharedSenderApproves,
       SharedSenderFrames, DispatcherSettleFrame, DispatcherKeys, DispatcherRoot,
       VerifyFrameProof
  <2>1. \A k \in tx.keys : nonceSeq[k] = tx.nonceSeq
    BY <1>2 DEF ReferenceNoncesCurrent
  <2>2. \A k \in tx.keys : /\ nonceSeq'[k] = tx.nonceSeq + 1
                           /\ noteSpent'[k] <= tx.nonceSeq
    BY <1>1, <1>2, <1>5, <2>1 DEF RefConsumedInv
  <2>3. proofAuthorized => SharedSenderApproves(tx, 1)
    BY <1>2 DEF ReferenceSenderApproves
  <2> QED
    BY <2>2, <2>3
<1>9. RefBurnInv'
  <2> SUFFICES ASSUME proofAuthorized, NEW nf \in Nullifiers,
                      nonceSeq'[nf] > 0, noteSpent'[nf] = 0
               PROVE  \/ SenderRunning' /\ nf \in tx.keys
                      \/ Len(leaves) >= Capacity - 1
    BY <1>2, <1>3 DEF RefBurnInv, Burned
  <2>1. CASE tx.sender = PoolSender /\ nf \in tx.keys
    <3>1. ~Idle'
      BY <1>1, <1>3, AccountsAssumption DEF Idle, NoTx
    <3> QED
      BY <1>3, <2>1, <3>1 DEF SenderRunning
  <2>2. CASE ~(tx.sender = PoolSender /\ nf \in tx.keys)
    <3>1. nf \in Burned
      BY <1>2, <1>5, <2>2 DEF Burned
    <3> QED
      BY <1>2, <3>1 DEF RefBurnInv, SenderRunning
  <2> QED
    BY <2>1, <2>2
<1> QED
  BY <1>6, <1>7, <1>8, <1>9

(* Settlement accepts only the sequence 0 and a frame that calls the pool  *)
(* itself, so that it ends the transaction and finds its notes unspent.    *)
LEMMA RefSettle ==
  ASSUME RefInv, ReferenceSettleSuccess, UNCHANGED proofAuthorized
  PROVE  RefInv'
<1> USE DEF RefInv
<1> DEFINE s == SpendInFlight
           tx == exec.tx
<1>1. /\ ~Idle /\ nonceSeq' = nonceSeq
      /\ ReferenceAccepts(tx, LastFrame(tx), exec.payer)
      /\ TransferOrWithdraw(SettleFrame(tx).call, exec.payer)
  BY DEF ReferenceSettleSuccess, ReferenceSettles
<1>2. /\ tx.sender = PoolSender
      /\ SettlementBindings(EnvelopeProbe(tx, LastFrame(tx), exec.payer), s)
  BY <1>1 DEF ReferenceAccepts, ReferenceCaller, ReferenceBindings,
     SpendInFlight, SettleFrame
<1>3. /\ SettleFrame(tx).target = Pool
      /\ tx.nonceSeq = 0 /\ tx.keys = {s.nf1, s.nf2} /\ Cardinality(tx.keys) = 2
  BY <1>2 DEF SettlementBindings, EnvelopeProbe, SettleFrame
<1>4. exec' = NoTx /\ Idle'
  BY <1>3 DEF ReferenceSettleSuccess, Idle
<1>5. s.nf1 # s.nf2 /\ s.nf1 \in Nullifiers /\ s.nf2 \in Nullifiers
  <2>1. s.nf1 = s.nf2 => tx.keys = {s.nf1}
    BY <1>3
  <2>2. Cardinality({s.nf1}) = 1
    BY FS_Singleton, Zenon
  <2>3. s.nf1 # s.nf2
    BY <1>3, <2>1, <2>2
  <2> QED
    BY <1>1, <2>3 DEF RefTypes, SpendTypeOK
<1>6. /\ noteSpent[s.nf1] = 0 /\ noteSpent[s.nf2] = 0
      /\ nonceSeq[s.nf1] = 1 /\ nonceSeq[s.nf2] = 1
  <2>1. SenderRunning
    BY <1>1, <1>2 DEF SenderRunning
  <2> QED
    BY <1>3, <1>5, <2>1 DEF RefRunningInv, RefTypes
<1>7. /\ noteSpent' \in [Nullifiers -> Nat]
      /\ \A n \in Nullifiers :
           noteSpent'[n] = IF n \in {s.nf1, s.nf2} THEN 1 ELSE noteSpent[n]
  <2>1. noteSpent' = [n \in Nullifiers |->
                        noteSpent[n] + (IF n = s.nf1 THEN 1 ELSE 0)
                                     + (IF n = s.nf2 THEN 1 ELSE 0)]
    BY <1>1 DEF TransferOrWithdraw, SpendInFlight
  <2> QED
    BY <1>5, <1>6, <2>1 DEF RefTypes
<1>8. leaves' \in Seq(Notes) /\ Len(leaves') >= Len(leaves)
  <2>1. leaves' = InsertOutputs(leaves, s)
    BY <1>1 DEF TransferOrWithdraw, Settle, SpendInFlight
  <2>2. InsertOutputs(leaves, s) \in Seq(Notes) /\ Extends(leaves, InsertOutputs(leaves, s))
    BY <1>1, InsertOutputsType, InsertOutputsExtends DEF RefTypes
  <2> QED
    BY <2>1, <2>2 DEF Extends
<1>9. RefTypes'
  BY <1>1, <1>4, <1>7, <1>8 DEF RefTypes
<1>10. RefConsumedInv'
  <2>1. ASSUME NEW n \in Nullifiers
        PROVE  noteSpent'[n] <= nonceSeq[n] /\ noteSpent'[n] <= 1
    <3>1. CASE n \in {s.nf1, s.nf2}
      BY <1>6, <1>7, <3>1
    <3>2. CASE n \notin {s.nf1, s.nf2}
      BY <1>7, <3>2 DEF RefConsumedInv
    <3> QED
      BY <3>1, <3>2
  <2> QED
    BY <1>1, <2>1 DEF RefConsumedInv
<1>11. RefRunningInv'
  BY <1>4 DEF RefRunningInv, SenderRunning
<1>12. RefBurnInv'
  <2> SUFFICES ASSUME proofAuthorized, NEW nf \in Nullifiers,
                      nonceSeq[nf] > 0, noteSpent'[nf] = 0
               PROVE  Len(leaves') >= Capacity - 1
    BY <1>1 DEF RefBurnInv, Burned
  <2>1. nf \notin tx.keys /\ nf \in Burned
    BY <1>3, <1>7 DEF Burned
  <2> QED
    BY <1>8, <2>1, CapacityAssumption DEF RefBurnInv, RefTypes
<1> QED
  BY <1>9, <1>10, <1>11, <1>12

(* A reverting settlement keeps it.                                        *)
LEMMA RefRevert ==
  ASSUME RefInv, ReferenceSettleRevert, UNCHANGED proofAuthorized
  PROVE  RefInv'
<1> USE DEF RefInv
<1>1. /\ ~Idle /\ ~ReferenceSettles /\ exec' = NoTx /\ Idle'
      /\ leaves' = leaves /\ noteSpent' = noteSpent /\ nonceSeq' = nonceSeq
  BY DEF ReferenceSettleRevert, storage, Idle
<1>2. RefTypes' /\ RefConsumedInv' /\ RefRunningInv'
  BY <1>1 DEF RefTypes, RefConsumedInv, RefRunningInv, SenderRunning
<1>3. RefBurnInv'
  <2> SUFFICES ASSUME proofAuthorized, NEW nf \in Burned
               PROVE  Len(leaves) >= Capacity - 1
    BY <1>1 DEF RefBurnInv, Burned
  <2>1. CASE SenderRunning /\ nf \in exec.tx.keys
    <3>1. SharedSenderApproves(exec.tx, 1)
      BY <2>1 DEF RefRunningInv
    <3>2. ReferenceAccepts(exec.tx, LastFrame(exec.tx), exec.payer)
      BY <1>1, <3>1, SharedSenderSettles DEF RefTypes
    <3>3. ~(Len(InsertOutputs(leaves, SpendInFlight)) <= Capacity)
      BY <1>1, <3>2 DEF ReferenceSettles, TreeHasRoom
    <3>4. /\ InsertOutputs(leaves, SpendInFlight) \in Seq(Notes)
          /\ Len(InsertOutputs(leaves, SpendInFlight)) <= Len(leaves) + 2
      BY <1>1, InsertOutputsType DEF RefTypes
    <3> QED
      BY <3>3, <3>4, CapacityAssumption DEF RefTypes
  <2>2. CASE ~(SenderRunning /\ nf \in exec.tx.keys)
    BY <2>2 DEF RefBurnInv
  <2> QED
    BY <2>1, <2>2
<1> QED
  BY <1>2, <1>3

(* Every step keeps it.                                                    *)
LEMMA RefStep == RefInv /\ [ReferenceNext]_refVars => RefInv'
<1> SUFFICES ASSUME RefInv, [ReferenceNext]_refVars PROVE RefInv'
  OBVIOUS
<1>1. ASSUME NEW i \in Inners, NEW v \in ShieldValues, Shield(i, v),
             UNCHANGED proofAuthorized
      PROVE  RefInv'
  BY <1>1, RefShield
<1>2. ASSUME NEW r \in ReferenceRequests, NEW tx \in ReferenceTxs(r),
             ReferenceValidate(tx), UNCHANGED proofAuthorized
      PROVE  RefInv'
  <2>1. r \in RequestRecords
    BY RequestsAssumption, SignedAssumption DEF ReferenceRequests
  <2> QED
    BY <1>2, <2>1, RefValidate
<1>3. CASE ReferenceSettleSuccess /\ UNCHANGED proofAuthorized
  BY <1>3, RefSettle
<1>4. CASE ReferenceSettleRevert /\ UNCHANGED proofAuthorized
  BY <1>4, RefRevert
<1>5. CASE UNCHANGED <<leaves, noteSpent, nonceSeq, exec, proofAuthorized>>
  BY <1>5, RefElsewhere DEF RefInv, RefTypes
<1>6. CASE AdvanceSlot /\ UNCHANGED proofAuthorized
  BY <1>5, <1>6 DEF AdvanceSlot, storage
<1>7. ASSUME NEW who \in Accounts, ClaimWithdrawal(who) \/ ClaimFee(who),
             UNCHANGED proofAuthorized
      PROVE  RefInv'
  BY <1>5, <1>7 DEF ClaimWithdrawal, ClaimFee
<1>8. CASE UNCHANGED refVars
  BY <1>5, <1>8 DEF refVars, vars, storage
<1> QED
  BY <1>1, <1>2, <1>3, <1>4, <1>6, <1>7, <1>8 DEF ReferenceNext

(* So it always holds.                                                     *)
LEMMA RefInvariance == ReferenceSpec => []RefInv
BY RefInit, RefStep, PTL DEF ReferenceSpec

(* One consumption of a pair of keys pays for one settlement, whatever the *)
(* holder of POOL_SENDER signs and whatever code its frame runs first.     *)
THEOREM OneSettlementPerConsumption == ReferenceSpec => []SettledOncePerConsumption
<1>1. RefInv => SettledOncePerConsumption
  BY DEF RefInv, RefConsumedInv, SettledOncePerConsumption
<1> QED
  BY <1>1, RefInvariance, PTL

(* What a SharedPoolSender approves is burned only by a tree with fewer    *)
(* than two leaves free, for any requests and capacity.                    *)
THEOREM SharedSenderBurnsNeedFullTree ==
  ReferenceSpec => []SharedSenderBurnsOnlyNearCapacity
<1>1. RefInv => SharedSenderBurnsOnlyNearCapacity
  BY DEF RefInv, RefBurnInv, SharedSenderBurnsOnlyNearCapacity,
     BurnsOnlyNearCapacity, SenderRunning
<1> QED
  BY <1>1, RefInvariance, PTL

-----------------------------------------------------------------------------
(* Money.  What settlement would still accept of the running transaction   *)
(* is worth its inputs, which were live when their keys were consumed; and *)
(* the pool of this architecture never pays for gas.                       *)

RefMoneyTypes ==
  /\ withdrawalCredit \in [Accounts -> Nat] /\ feeCredit \in [Accounts -> Nat]
  /\ balance \in [Accounts -> Int]
  /\ ~Idle => exec.tx.maxCost \in Nat /\ exec.payer # Pool

RefRootsInv ==
  /\ currentRoot = leaves
  /\ \A e \in ring : Leaves(e.root) \subseteq Leaves(leaves)

Acceptable == ~Idle /\ ReferenceAccepts(exec.tx, LastFrame(exec.tx), exec.payer)

Reserved == IF Acceptable
            THEN SpendInFlight.nf1.cm.value + SpendInFlight.nf2.cm.value ELSE 0

RefCoveredInv ==
  balance[Pool] >= ValueOf(LiveNotes) + Owed(withdrawalCredit) + Owed(feeCredit) + Reserved

RefMoneyInv == RefMoneyTypes /\ RefRootsInv /\ RefCoveredInv

(* The split pool's money invariant holds at the start.                    *)
LEMMA RefMoneyInit == ReferenceInit => RefMoneyInv
<1> SUFFICES ASSUME ReferenceInit PROVE RefMoneyInv
  OBVIOUS
<1>1. Init /\ Idle
  BY DEF ReferenceInit, Init, Idle
<1>2. RefMoneyTypes /\ balance[Pool] = 0
  BY <1>1, RunAssumption, AccountsAssumption DEF Init, RefMoneyTypes
<1>3. RefRootsInv
  BY <1>1 DEF Init, RefRootsInv
<1>4. Reserved = 0 /\ LiveNotes = {}
  BY <1>1 DEF Init, Reserved, Acceptable, LiveNotes, Leaves
<1>5. ValueOf(LiveNotes) = 0 /\ Owed(withdrawalCredit) = 0 /\ Owed(feeCredit) = 0
  <2>1. Owed([a \in Accounts |-> 0]) = 0
    BY SumZero, AccountsAssumption DEF Owed
  <2>. QED  BY <1>1, <1>4, <2>1, SumEmpty DEF Init, ValueOf
<1> QED
  BY <1>2, <1>3, <1>4, <1>5 DEF RefMoneyInv, RefCoveredInv

(* The totals it speaks of are numbers.                                    *)
LEMMA RefTotals ==
  ASSUME RefInv, RefMoneyInv
  PROVE  /\ LiveNotes \in SUBSET Notes /\ IsFiniteSet(LiveNotes)
         /\ ValueOf(LiveNotes) \in Nat
         /\ Owed(withdrawalCredit) \in Nat /\ Owed(feeCredit) \in Nat
         /\ balance[Pool] \in Int
BY LiveFinite, OwedNat, AccountsAssumption
   DEF RefInv, RefTypes, RefMoneyInv, RefMoneyTypes

(* What settlement accepts conserves value and is keyed by its inputs.     *)
LEMMA AcceptedSpend ==
  ASSUME NEW tx, NEW payer, NEW s, s = SettleFrame(tx).call.spend, SpendTypeOK(s),
         ReferenceAccepts(tx, LastFrame(tx), payer)
  PROVE  /\ tx.sender = PoolSender /\ tx.nonceSeq = 0
         /\ tx.keys = {Nullifier(PoolDomain, s.nf1.cm), Nullifier(PoolDomain, s.nf2.cm)}
         /\ s.nf1.cm \in Notes /\ s.nf2.cm \in Notes /\ s.nf1.cm # s.nf2.cm
         /\ InputOpens(s.root, s.nf1.cm) /\ InputOpens(s.root, s.nf2.cm)
         /\ tx.refs[1].source = Pool /\ tx.refs[1].root = s.root
         /\ s.nf1.cm.value + s.nf2.cm.value
            = s.outCm1.value + s.outCm2.value + s.publicAmount + s.fee
         /\ s.nf1.cm.value \in Nat /\ s.nf2.cm.value \in Nat
         /\ s.outCm1.value \in Nat /\ s.outCm2.value \in Nat
         /\ s.publicAmount \in Nat /\ s.fee \in Nat
<1>1. /\ tx.sender = PoolSender /\ CircuitSatisfied(s) /\ s.domain = PoolDomain
      /\ SettlementBindings(EnvelopeProbe(tx, LastFrame(tx), payer), s)
  BY DEF ReferenceAccepts, ReferenceCaller, ReferenceBindings, VerifyProof,
     ValidateSpend, SettleFrame
<1>2. /\ tx.nonceSeq = 0 /\ tx.keys = {s.nf1, s.nf2}
      /\ tx.refs[1].source = Pool /\ tx.refs[1].root = s.root
  BY <1>1 DEF SettlementBindings, EnvelopeProbe
<1>3. /\ s.nf1 = Nullifier(PoolDomain, s.nf1.cm) /\ s.nf2 = Nullifier(PoolDomain, s.nf2.cm)
      /\ InputOpens(s.root, s.nf1.cm) /\ InputOpens(s.root, s.nf2.cm)
      /\ s.nf1 # s.nf2
  BY <1>1 DEF CircuitSatisfied
<1>4. /\ s.nf1.cm \in Notes /\ s.nf2.cm \in Notes /\ s.outCm1 \in Notes /\ s.outCm2 \in Notes
      /\ s.publicAmount \in Nat /\ s.fee \in Nat
  BY DEF SpendTypeOK, Nullifiers
<1>5. s.nf1.cm # s.nf2.cm
  BY <1>3
<1> QED
  BY <1>1, <1>2, <1>3, <1>4, <1>5, ConservesExactly, NoteValue

(* What a running spend may still pay out is a natural.                    *)
LEMMA ReservedNat == RefInv => Reserved \in Nat
<1> SUFFICES ASSUME RefInv, Acceptable PROVE Reserved \in Nat
  BY DEF Reserved
<1> DEFINE s == SpendInFlight
<1>1. s = SettleFrame(exec.tx).call.spend /\ SpendTypeOK(s)
  BY DEF SpendInFlight, RefInv, RefTypes, Acceptable
<1>2. s.nf1.cm.value \in Nat /\ s.nf2.cm.value \in Nat
  BY <1>1, AcceptedSpend DEF Acceptable
<1>3. Reserved = s.nf1.cm.value + s.nf2.cm.value
  BY DEF Reserved
<1> HIDE DEF s
<1> QED
  BY <1>2, <1>3

(* Publishing the new root keeps every published root within the tree.     *)
LEMMA RefRootsPublished ==
  ASSUME RefRootsInv, Leaves(leaves) \subseteq Leaves(leaves'),
         currentRoot' = leaves', PublishRoot(currentRoot')
  PROVE  RefRootsInv'
BY DEF RefRootsInv, PublishRoot

(* A deposit keeps the money invariant.                                    *)
LEMMA RefShieldMoney ==
  ASSUME RefInv, RefMoneyInv, NEW i \in Inners, NEW v \in ShieldValues, Shield(i, v)
  PROVE  RefMoneyInv'
<1> DEFINE cm == [inner |-> i, value |-> v]
<1>1. /\ Idle /\ leaves' = Append(leaves, cm) /\ currentRoot' = leaves'
      /\ PublishRoot(currentRoot') /\ balance' = Credit(balance, Pool, v)
      /\ UNCHANGED <<withdrawalCredit, feeCredit, noteSpent, nonceSeq, slot, exec>>
  BY DEF Shield
<1>2. cm \in Notes /\ cm.value = v /\ v \in Nat
  BY DepositsAssumption, ValuesAssumption DEF Notes
<1>3. balance'[Pool] = balance[Pool] + v /\ balance' \in [Accounts -> Int]
  BY <1>1, <1>2, AccountsAssumption DEF Credit, RefMoneyInv, RefMoneyTypes
<1>4. leaves \in Seq(Notes)
  BY DEF RefInv, RefTypes
<1>5. Leaves(leaves') = Leaves(leaves) \cup {cm}
  BY <1>1, <1>2, <1>4, LeavesAppended
<1>6. RefMoneyTypes'
  BY <1>1, <1>3 DEF RefMoneyInv, RefMoneyTypes, Idle
<1>7. RefRootsInv'
  BY <1>1, <1>5, RefRootsPublished DEF RefMoneyInv
<1>8. ValueOf(LiveNotes') \in Nat /\ ValueOf(LiveNotes') <= v + ValueOf(LiveNotes)
  <2>1. LiveNotes' \subseteq LiveNotes \cup {cm}
    BY <1>1, <1>5 DEF LiveNotes
  <2>2. LiveNotes \cup {cm} \in SUBSET Notes /\ IsFiniteSet(LiveNotes \cup {cm})
    BY <1>2, RefTotals, FS_AddElement
  <2>3. LiveNotes' \in SUBSET Notes /\ IsFiniteSet(LiveNotes')
    BY <2>1, <2>2, FS_Subset
  <2>4. ValueOf(LiveNotes') <= ValueOf(LiveNotes \cup {cm})
    BY <2>1, <2>2, ValueGrown
  <2>5. ValueOf(LiveNotes \cup {cm}) <= cm.value + ValueOf(LiveNotes)
    <3> HIDE DEF cm
    <3> QED
      BY <1>2, RefTotals, ValueAdded
  <2>6. ValueOf(LiveNotes') \in Nat /\ ValueOf(LiveNotes \cup {cm}) \in Nat
        /\ ValueOf(LiveNotes) \in Nat
    BY <2>2, <2>3, RefTotals, ValueNat
  <2> HIDE DEF cm
  <2> QED
    BY <1>2, <2>4, <2>5, <2>6
<1>9. Reserved = 0 /\ Reserved' = 0
  BY <1>1 DEF Reserved, Acceptable, Idle
<1>10. RefCoveredInv'
  BY <1>1, <1>2, <1>3, <1>8, <1>9, RefTotals DEF RefMoneyInv, RefCoveredInv
<1> QED
  BY <1>6, <1>7, <1>10 DEF RefMoneyInv

(* Consuming the keys of what settlement would accept takes its inputs out *)
(* of the live notes.                                                      *)
LEMMA RefValidateMoney ==
  ASSUME RefInv, RefInv', RefMoneyInv, NEW r \in RequestRecords,
         NEW tx \in ReferenceTxs(r), ReferenceValidate(tx)
  PROVE  RefMoneyInv'
<1> DEFINE s == SettleFrame(tx).call.spend
           p == PayerOf(tx)
<1>1. /\ Idle /\ ReferenceNoncesCurrent(tx)
      /\ ReferenceSenderApproves(tx) /\ ReferencePayFrameApproves(tx)
      /\ balance' = [balance EXCEPT ![p] = @ - tx.maxCost]
      /\ ReferenceConsumeKeys(tx) /\ exec' = [payer |-> p, tx |-> tx]
      /\ UNCHANGED <<leaves, currentRoot, withdrawalCredit, feeCredit, noteSpent, ring, slot>>
  BY DEF ReferenceValidate, storage
<1>2. /\ SpendTypeOK(s) /\ p \in Accounts /\ tx.maxCost \in Nat
      /\ RefValid(tx.refs[1])
  BY ReferenceTxTypes DEF ReferenceValidate
<1>3. exec'.tx = tx /\ exec'.payer = p /\ SpendInFlight' = s
  BY <1>1 DEF SpendInFlight, SettleFrame, LastFrame
<1>4. p # Pool
  BY <1>1, AccountsAssumption, PayersAssumption
     DEF ReferencePayFrameApproves, ReferenceSenderApproves
<1>5. balance'[Pool] = balance[Pool] /\ balance' \in [Accounts -> Int]
  BY <1>1, <1>2, <1>4, AccountsAssumption DEF RefMoneyInv, RefMoneyTypes
<1>6. RefMoneyTypes' /\ RefRootsInv'
  BY <1>1, <1>2, <1>3, <1>4, <1>5 DEF RefMoneyInv, RefMoneyTypes, RefRootsInv
<1>7. /\ \A k \in Nullifiers :
           nonceSeq'[k] = IF tx.sender = PoolSender /\ k \in tx.keys
                          THEN nonceSeq[k] + 1 ELSE nonceSeq[k]
      /\ \A k \in Nullifiers : nonceSeq[k] \in Nat
  BY <1>1 DEF ReferenceConsumeKeys, RefInv, RefTypes
<1>8. LiveNotes' \subseteq LiveNotes
  <2>1. ASSUME NEW n \in LiveNotes' PROVE n \in LiveNotes
    <3>1. n \in Leaves(leaves) /\ n \in Notes /\ nonceSeq'[Nullifier(PoolDomain, n)] = 0
      BY <1>1, <2>1, LeavesFinite DEF LiveNotes, RefInv, RefTypes
    <3>2. nonceSeq[Nullifier(PoolDomain, n)] = 0
      BY <1>7, <3>1, AccountsAssumption DEF Nullifier, Nullifiers
    <3> QED
      BY <3>1, <3>2 DEF LiveNotes
  <2> QED
    BY <2>1
<1>9. ValueOf(LiveNotes) >= ValueOf(LiveNotes') + Reserved' /\ ValueOf(LiveNotes') \in Nat
      /\ Reserved' \in Nat
  <2>1. LiveNotes' \in SUBSET Notes /\ IsFiniteSet(LiveNotes') /\ ValueOf(LiveNotes') \in Nat
    BY <1>8, RefTotals, FS_Subset, ValueNat
  <2>2. CASE ~ReferenceAccepts(tx, LastFrame(tx), p)
    <3>1. Reserved' = 0
      BY <1>3, <2>2 DEF Reserved, Acceptable
    <3>2. ValueOf(LiveNotes') <= ValueOf(LiveNotes)
      BY <1>8, RefTotals, ValueGrown
    <3> QED
      BY <2>1, <3>1, <3>2, RefTotals
  <2>3. CASE ReferenceAccepts(tx, LastFrame(tx), p)
    <3> DEFINE c1 == s.nf1.cm
               c2 == s.nf2.cm
    <3>1. /\ tx.sender = PoolSender /\ tx.nonceSeq = 0
          /\ tx.keys = {Nullifier(PoolDomain, c1), Nullifier(PoolDomain, c2)}
          /\ c1 \in Notes /\ c2 \in Notes /\ c1 # c2
          /\ InputOpens(s.root, c1) /\ InputOpens(s.root, c2)
          /\ tx.refs[1].source = Pool /\ tx.refs[1].root = s.root
          /\ c1.value \in Nat /\ c2.value \in Nat
      BY <1>2, <2>3, AcceptedSpend
    <3>2. Leaves(s.root) \subseteq Leaves(leaves)
      BY <1>2, <3>1 DEF RefValid, RefMoneyInv, RefRootsInv
    <3>3. /\ nonceSeq[Nullifier(PoolDomain, c1)] = 0
          /\ nonceSeq[Nullifier(PoolDomain, c2)] = 0
      BY <1>1, <3>1 DEF ReferenceNoncesCurrent
    <3>4. (c1.value # 0 => c1 \in LiveNotes) /\ (c2.value # 0 => c2 \in LiveNotes)
      BY <3>1, <3>2, <3>3 DEF InputOpens, LiveNotes
    <3>5. c1 \notin LiveNotes' /\ c2 \notin LiveNotes'
      <4>1. /\ Nullifier(PoolDomain, c1) \in Nullifiers
            /\ Nullifier(PoolDomain, c2) \in Nullifiers
        BY <3>1, AccountsAssumption DEF Nullifier, Nullifiers
      <4>2. /\ nonceSeq'[Nullifier(PoolDomain, c1)] # 0
            /\ nonceSeq'[Nullifier(PoolDomain, c2)] # 0
        BY <1>7, <3>1, <3>3, <4>1
      <4> QED
        BY <4>2, AccountsAssumption DEF LiveNotes
    <3>6. Reserved' \in {c1.value + c2.value, 0}
      BY <1>3 DEF Reserved
    <3> HIDE DEF c1, c2
    <3>7. /\ ValueOf(LiveNotes) = c1.value + c2.value + ValueOf(LiveNotes \ {c1, c2})
          /\ ValueOf(LiveNotes \ {c1, c2}) \in Nat /\ ValueOf(LiveNotes) \in Nat
      BY <3>1, <3>4, RefTotals, InputsWorth
    <3>8. ValueOf(LiveNotes') <= ValueOf(LiveNotes \ {c1, c2})
      <4>1. /\ LiveNotes \ {c1, c2} \in SUBSET Notes /\ IsFiniteSet(LiveNotes \ {c1, c2})
            /\ LiveNotes' \subseteq LiveNotes \ {c1, c2}
        BY <1>8, <3>5, RefTotals, FS_Subset
      <4> QED
        BY <4>1, ValueGrown
    <3> QED
      BY <2>1, <3>1, <3>6, <3>7, <3>8
  <2> QED
    BY <2>2, <2>3
<1>10. Reserved = 0
  BY <1>1 DEF Reserved, Acceptable
<1>11. RefCoveredInv'
  BY <1>1, <1>5, <1>9, <1>10, RefTotals DEF RefMoneyInv, RefCoveredInv
<1> QED
  BY <1>6, <1>11 DEF RefMoneyInv

(* Settlement pays out of the inputs whose proof it has checked itself.    *)
LEMMA RefSettleMoney ==
  ASSUME RefInv, RefInv', RefMoneyInv, ReferenceSettleSuccess
  PROVE  RefMoneyInv'
<1> DEFINE s == SpendInFlight
           c == SettleFrame(exec.tx).call
           payer == exec.payer
<1>1. /\ ~Idle /\ ReferenceAccepts(exec.tx, LastFrame(exec.tx), payer)
      /\ TransferOrWithdraw(c, payer) /\ nonceSeq' = nonceSeq
      /\ SpendTypeOK(s) /\ c.spend = s /\ payer # Pool
  BY DEF ReferenceSettleSuccess, ReferenceSettles, RefInv, RefTypes, RefMoneyInv,
     RefMoneyTypes, SpendInFlight
<1>2. exec' = NoTx /\ Refund /\ Idle'
  <2>1. SettleFrame(exec.tx).target = Pool
    BY <1>1 DEF ReferenceAccepts, ReferenceBindings, SettlementBindings, EnvelopeProbe,
       SettleFrame
  <2> QED
    BY <2>1 DEF ReferenceSettleSuccess, Idle
<1>3. /\ s.nf1.cm.value + s.nf2.cm.value
         = s.outCm1.value + s.outCm2.value + s.publicAmount + s.fee
      /\ s.nf1.cm.value \in Nat /\ s.nf2.cm.value \in Nat
      /\ s.outCm1.value \in Nat /\ s.outCm2.value \in Nat
      /\ s.publicAmount \in Nat /\ s.fee \in Nat
  BY <1>1, AcceptedSpend DEF SpendInFlight
<1>4. Reserved = s.nf1.cm.value + s.nf2.cm.value /\ Reserved' = 0
  BY <1>1, <1>2 DEF Reserved, Acceptable
<1> HIDE DEF s
<1>5. /\ leaves' = InsertOutputs(leaves, s)
      /\ currentRoot' = (IF leaves' # leaves THEN leaves' ELSE currentRoot)
      /\ PublishRoot(currentRoot')
      /\ feeCredit' = IF s.fee # 0 /\ payer # Pool
                      THEN Credit(feeCredit, payer, s.fee) ELSE feeCredit
      /\ withdrawalCredit' = IF c.op = "withdraw"
                             THEN Credit(withdrawalCredit, c.recipient, s.publicAmount)
                             ELSE withdrawalCredit
  BY <1>1 DEF TransferOrWithdraw, Settle
<1>6. /\ ValueOf(LiveNotes') \in Nat
      /\ ValueOf(LiveNotes') <= ValueOf(LiveNotes) + s.outCm1.value + s.outCm2.value
  BY <1>1, <1>5, LiveInserted DEF RefInv, RefTypes
<1>7. /\ feeCredit' \in [Accounts -> Nat]
      /\ Owed(feeCredit') \in Nat /\ Owed(feeCredit') <= Owed(feeCredit) + s.fee
  <2>1. feeCredit \in [Accounts -> Nat] /\ feeCredit' \in [Accounts -> Nat]
    BY <1>3, <1>5, CreditType DEF RefMoneyInv, RefMoneyTypes
  <2>2. Owed(feeCredit) \in Nat /\ Owed(feeCredit') \in Nat
    BY <2>1, OwedNat
  <2> QED
    BY <1>3, <1>5, <2>1, <2>2, OwedCredited
<1>8. /\ withdrawalCredit' \in [Accounts -> Nat]
      /\ Owed(withdrawalCredit') \in Nat
      /\ Owed(withdrawalCredit') <= Owed(withdrawalCredit) + s.publicAmount
  <2>1. withdrawalCredit \in [Accounts -> Nat] /\ withdrawalCredit' \in [Accounts -> Nat]
    BY <1>3, <1>5, CreditType DEF RefMoneyInv, RefMoneyTypes
  <2>2. Owed(withdrawalCredit) \in Nat /\ Owed(withdrawalCredit') \in Nat
    BY <2>1, OwedNat
  <2> QED
    BY <1>3, <1>5, <2>1, <2>2, OwedCredited
<1>9. balance'[Pool] = balance[Pool] /\ balance' \in [Accounts -> Int]
  <2>1. PICK charged \in 1 .. exec.tx.maxCost :
          balance' = [balance EXCEPT ![payer] = @ + (exec.tx.maxCost - charged)]
    BY <1>2 DEF Refund
  <2>2. payer \in Accounts /\ exec.tx.maxCost \in Nat /\ balance \in [Accounts -> Int]
    BY <1>1 DEF RefInv, RefTypes, RefMoneyInv, RefMoneyTypes
  <2> QED
    BY <1>1, <2>1, <2>2, AccountsAssumption
<1>10. RefMoneyTypes'
  BY <1>2, <1>7, <1>8, <1>9 DEF RefMoneyTypes
<1>11. RefRootsInv'
  <2>1. currentRoot' = leaves' /\ PublishRoot(currentRoot')
    BY <1>5 DEF RefMoneyInv, RefRootsInv
  <2>2. Leaves(leaves) \subseteq Leaves(leaves')
    BY <1>1, <1>5, InsertOutputsType DEF RefInv, RefTypes
  <2> QED
    BY <2>1, <2>2, RefRootsPublished DEF RefMoneyInv
<1>12. RefCoveredInv'
  BY <1>3, <1>4, <1>6, <1>7, <1>8, <1>9, RefTotals DEF RefMoneyInv, RefCoveredInv
<1> QED
  BY <1>10, <1>11, <1>12 DEF RefMoneyInv

(* A settlement that reverts moves no money of the pool.                   *)
LEMMA RefRevertMoney ==
  ASSUME RefInv, RefMoneyInv, ReferenceSettleRevert
  PROVE  RefMoneyInv'
<1>1. /\ ~Idle /\ Refund /\ exec' = NoTx /\ Idle'
      /\ UNCHANGED <<leaves, currentRoot, withdrawalCredit, feeCredit, noteSpent,
                     nonceSeq, ring>>
  BY DEF ReferenceSettleRevert, storage, Idle
<1>2. balance'[Pool] = balance[Pool] /\ balance' \in [Accounts -> Int]
  <2>1. PICK charged \in 1 .. exec.tx.maxCost :
          balance' = [balance EXCEPT ![exec.payer] = @ + (exec.tx.maxCost - charged)]
    BY <1>1 DEF Refund
  <2>2. /\ exec.payer \in Accounts /\ exec.payer # Pool /\ exec.tx.maxCost \in Nat
        /\ balance \in [Accounts -> Int]
    BY <1>1 DEF RefInv, RefTypes, RefMoneyInv, RefMoneyTypes
  <2> QED
    BY <2>1, <2>2, AccountsAssumption
<1>3. RefMoneyTypes' /\ RefRootsInv'
  BY <1>1, <1>2 DEF RefMoneyInv, RefMoneyTypes, RefRootsInv
<1>4. Reserved \in Nat /\ Reserved' = 0
  BY <1>1, ReservedNat DEF Reserved, Acceptable
<1>5. LiveNotes' = LiveNotes
  BY <1>1 DEF LiveNotes
<1>6. RefCoveredInv'
  BY <1>1, <1>2, <1>4, <1>5, RefTotals DEF RefMoneyInv, RefCoveredInv
<1> QED
  BY <1>3, <1>6 DEF RefMoneyInv

(* A claim pays out exactly the credit it clears.                          *)
LEMMA RefClaimMoney ==
  ASSUME RefInv, RefMoneyInv,
         NEW who \in Accounts, ClaimWithdrawal(who) \/ ClaimFee(who)
  PROVE  RefMoneyInv'
<1>1. /\ Idle /\ who # Pool
      /\ UNCHANGED <<leaves, currentRoot, noteSpent, nonceSeq, ring, exec>>
  BY DEF ClaimWithdrawal, ClaimFee
<1>2. /\ withdrawalCredit \in [Accounts -> Nat] /\ feeCredit \in [Accounts -> Nat]
      /\ balance \in [Accounts -> Int]
  BY DEF RefMoneyInv, RefMoneyTypes
<1>3. LiveNotes' = LiveNotes /\ Reserved = 0 /\ Reserved' = 0 /\ Idle'
  BY <1>1 DEF LiveNotes, Reserved, Acceptable, Idle
<1>4. PICK amount \in Nat :
        /\ withdrawalCredit' \in [Accounts -> Nat] /\ feeCredit' \in [Accounts -> Nat]
        /\ balance' \in [Accounts -> Int]
        /\ Owed(withdrawalCredit') + Owed(feeCredit')
           = Owed(withdrawalCredit) + Owed(feeCredit) - amount
        /\ balance'[Pool] = balance[Pool] - amount
  <2>1. CASE ClaimWithdrawal(who)
    <3> DEFINE amount == withdrawalCredit[who]
    <3>1. /\ withdrawalCredit' = [withdrawalCredit EXCEPT ![who] = 0]
          /\ feeCredit' = feeCredit
          /\ balance'[Pool] = balance[Pool] - amount
          /\ balance' \in [Accounts -> Int]
      BY <1>1, <1>2, <2>1, AccountsAssumption DEF ClaimWithdrawal
    <3>2. /\ Owed(withdrawalCredit') = Owed(withdrawalCredit) - amount
          /\ amount \in Nat
      BY <1>2, <3>1, OwedCleared
    <3>3. withdrawalCredit' \in [Accounts -> Nat]
      BY <1>2, <3>1
    <3> HIDE DEF amount
    <3> QED
      BY <1>2, <3>1, <3>2, <3>3, RefTotals
  <2>2. CASE ClaimFee(who)
    <3> DEFINE amount == feeCredit[who]
    <3>1. /\ feeCredit' = [feeCredit EXCEPT ![who] = 0]
          /\ withdrawalCredit' = withdrawalCredit
          /\ balance'[Pool] = balance[Pool] - amount
          /\ balance' \in [Accounts -> Int]
      BY <1>1, <1>2, <2>2, AccountsAssumption DEF ClaimFee
    <3>2. /\ Owed(feeCredit') = Owed(feeCredit) - amount
          /\ amount \in Nat
      BY <1>2, <3>1, OwedCleared
    <3>3. feeCredit' \in [Accounts -> Nat]
      BY <1>2, <3>1
    <3> HIDE DEF amount
    <3> QED
      BY <1>2, <3>1, <3>2, <3>3, RefTotals
  <2> QED
    BY <2>1, <2>2
<1>5. RefMoneyTypes' /\ RefRootsInv'
  BY <1>1, <1>3, <1>4 DEF RefMoneyInv, RefMoneyTypes, RefRootsInv
<1>6. RefCoveredInv'
  <2>1. Owed(withdrawalCredit') \in Nat /\ Owed(feeCredit') \in Nat
    BY <1>4, OwedNat
  <2> QED
    BY <1>3, <1>4, <2>1, RefTotals DEF RefMoneyInv, RefCoveredInv
<1> QED
  BY <1>5, <1>6 DEF RefMoneyInv

(* Every step keeps it.                                                    *)
LEMMA RefMoneyStep ==
  RefInv /\ RefInv' /\ RefMoneyInv /\ [ReferenceNext]_refVars => RefMoneyInv'
<1> SUFFICES ASSUME RefInv, RefInv', RefMoneyInv, [ReferenceNext]_refVars
             PROVE  RefMoneyInv'
  OBVIOUS
<1>1. CASE UNCHANGED <<leaves, currentRoot, withdrawalCredit, feeCredit, noteSpent,
                       nonceSeq, ring, balance, exec>>
  <2>1. /\ LiveNotes' = LiveNotes /\ Reserved' = Reserved /\ Idle' = Idle
    BY <1>1 DEF LiveNotes, Reserved, Acceptable, Idle, SpendInFlight, SettleFrame,
                LastFrame
  <2> QED
    BY <1>1, <2>1 DEF RefMoneyInv, RefMoneyTypes, RefRootsInv, RefCoveredInv
<1>2. CASE AdvanceSlot \/ UNCHANGED refVars
  BY <1>1, <1>2 DEF AdvanceSlot, refVars, vars, storage
<1>3. ASSUME NEW r \in ReferenceRequests, NEW tx \in ReferenceTxs(r), ReferenceValidate(tx)
      PROVE  RefMoneyInv'
  <2>1. r \in RequestRecords
    BY RequestsAssumption, SignedAssumption DEF ReferenceRequests
  <2> QED
    BY <1>3, <2>1, RefValidateMoney
<1>4. ASSUME NEW who \in Accounts, ClaimWithdrawal(who) \/ ClaimFee(who)
      PROVE  RefMoneyInv'
  BY <1>4, RefClaimMoney
<1> QED
  BY <1>2, <1>3, <1>4, RefShieldMoney, RefSettleMoney, RefRevertMoney DEF ReferenceNext

(* So it always holds.                                                     *)
LEMMA RefMoneyInvariance == ReferenceSpec => [](RefInv /\ RefMoneyInv)
<1>1. ReferenceInit => RefInv /\ RefMoneyInv
  BY RefInit, RefMoneyInit
<1>2. RefInv /\ RefMoneyInv /\ [ReferenceNext]_refVars => RefInv' /\ RefMoneyInv'
  BY RefStep, RefMoneyStep
<1> QED
  BY <1>1, <1>2, PTL DEF ReferenceSpec

(* Whatever the holder of POOL_SENDER signs and whatever code its frame    *)
(* runs, the pool's ETH covers every unspent note and every credit: the    *)
(* check of the proof at settlement is what the notes rest on.             *)
THEOREM CoveredByItsOwnCheck == ReferenceSpec => []CoveredWhateverApproved
<1>1. RefInv /\ RefMoneyInv => CoveredWhateverApproved
  <2> SUFFICES ASSUME RefInv, RefMoneyInv PROVE CoveredWhateverApproved
    OBVIOUS
  <2> QED
    BY ReservedNat, RefTotals DEF RefMoneyInv, RefCoveredInv, CoveredWhateverApproved
<1> QED
  BY <1>1, RefMoneyInvariance, PTL

=============================================================================
