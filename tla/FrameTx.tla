------------------------------ MODULE FrameTx -------------------------------
(***************************************************************************)
(* The frame-transaction envelope and the three pieces of code that read   *)
(* it through the introspection opcodes: the dispatcher's frame-0          *)
(* authorisation (ShieldedPoolDispatcher.yul), the optional paymaster      *)
(* (ProofPaymaster.yul) and settlement (ShieldedPoolLogic.sol, through     *)
(* EnvelopeProbe.yul).                                                     *)
(*                                                                         *)
(* Frames are numbered from 1 here and from 0 in the code.  The protocol   *)
(* requires the nonce keys of a transaction to be strictly increasing, so  *)
(* the key list is a set, and "nonceKey(0) == lo and nonceKey(1) == hi"    *)
(* with two keys says that the set is {nf1, nf2} and has two elements.     *)
(* A call whose selector and length do not match one of the entry points   *)
(* has the op "other".                                                     *)
(***************************************************************************)
EXTENDS SpendCircuit

CONSTANTS
  Accounts,    (* addresses that hold or receive ETH, the pool included *)
  Pool,        (* the dispatcher's address: tx.sender of every spend    *)
  Paymaster,   (* a deployed ProofPaymaster bound to the pool           *)
  PoolDomain,  (* domainFor(chainid, sourceId) of this deployment       *)
  NoAccount    (* the zero address; as a ctx, the zero word             *)

ASSUME AccountsAssumption ==
  /\ Pool \in Accounts /\ Paymaster \in Accounts /\ Pool # Paymaster
  /\ NoAccount \notin Accounts
  /\ PoolDomain \in Domains
  /\ IsFiniteSet(Accounts)      \* an address is 20 bytes

VERIFY == 1
SENDER == 2

NoCall == [op |-> "empty"]

Frame(target, mode, flags, gas, value, call) ==
  [target |-> target, mode |-> mode, flags |-> flags, gas |-> gas,
   value |-> value, call |-> call]

LastFrame(tx) == Len(tx.frames)
SettleFrame(tx) == tx.frames[LastFrame(tx)]

-----------------------------------------------------------------------------
(* The dispatcher: verifyFrameApprove, executed in frame i *)

VerifyFrameProof(s) ==
  /\ s.domain = PoolDomain
  /\ s.publicAmount < MaxValue /\ s.fee < MaxValue
  /\ CircuitSatisfied(s)

(* frame 0 (and the payment frame's mode, flags, gas and value, but not    *)
(* its target or its data)                                                 *)
DispatcherVerifyFrames(f, selfPay) ==
  /\ f[1].target = Pool /\ f[1].mode = VERIFY
  /\ f[1].call = NoCall /\ f[1].value = 0
  /\ selfPay => f[1].flags = 3 /\ f[1].gas = 350000
  /\ ~selfPay => /\ f[1].flags = 2 /\ f[1].gas = 300000
                 /\ f[2].mode = VERIFY /\ f[2].flags = 1
                 /\ f[2].gas = 100000 /\ f[2].value = 0

(* for the mutation runs: the amounts not held against the entry point *)
DispatcherSettleAnyEntry(f) ==
  /\ f.target = Pool /\ f.mode = SENDER /\ f.flags = 0
  /\ f.gas = 10000000 /\ f.value = 0

DispatcherSettleFrame(f) ==
  /\ f.target = Pool /\ f.mode = SENDER /\ f.flags = 0
  /\ f.gas = 10000000 /\ f.value = 0
  /\ \/ /\ f.call.op = "transfer"
        /\ f.call.spend.publicAmount = 0
        /\ f.call.spend.ctx = NoAccount
     \/ /\ f.call.op = "withdraw"
        /\ f.call.spend.publicAmount # 0
        /\ f.call.recipient # NoAccount
        /\ f.call.spend.ctx = f.call.recipient

(* for the mutation runs: any nonce sequence taken *)
DispatcherKeysAnySequence(tx, s) ==
  /\ Cardinality(tx.keys) = 2
  /\ tx.keys = {s.nf1, s.nf2}

(* for the mutation runs: the keys counted but not compared *)
DispatcherKeysCounted(tx, s) ==
  /\ tx.nonceSeq = 0
  /\ Cardinality(tx.keys) = 2
  /\ s.nf1 # s.nf2

DispatcherKeys(tx, s) ==
  /\ tx.nonceSeq = 0
  /\ Cardinality(tx.keys) = 2
  /\ tx.keys = {s.nf1, s.nf2}

DispatcherRoot(tx, s) ==
  /\ Len(tx.refs) = 1
  /\ tx.refs[1].source = Pool
  /\ tx.refs[1].root = s.root

(* for the mutation runs: FeeBelowMaxCost never raised *)
DispatcherFeeUnchecked(tx, s, selfPay) == selfPay => s.fee >= 0

DispatcherFee(tx, s, selfPay) == selfPay => s.fee >= tx.maxCost

DispatcherApproves(tx, i) ==
  /\ tx.sender = Pool
  /\ Len(tx.frames) \in {2, 3}
  /\ i = 1 /\ tx.signatures = 1 /\ ~tx.blobs
  /\ DispatcherVerifyFrames(tx.frames, Len(tx.frames) = 2)
  /\ DispatcherSettleFrame(SettleFrame(tx))
  /\ LET s == SettleFrame(tx).call.spend
     IN  /\ DispatcherKeys(tx, s)
         /\ DispatcherRoot(tx, s)
         /\ VerifyFrameProof(s)
         /\ DispatcherFee(tx, s, Len(tx.frames) = 2)

-----------------------------------------------------------------------------
(* The paymaster, deployed for a poolSender: executed in frame i with the  *)
(* call of that frame                                                      *)

PaymasterSettleFrame(f, s) ==
  /\ f.target = Pool /\ f.mode = SENDER /\ f.flags = 0
  /\ f.gas = 10000000 /\ f.value = 0
  /\ f.call.op \in {"transfer", "withdraw"}
  /\ f.call.spend = s                        \* byte-equal Spend tuples

(* for the mutation runs: any positive fee taken for enough *)
PaymasterFeePositive(tx, s) == s.fee > 0

PaymasterFee(tx, s) == s.fee >= tx.maxCost

PaymasterApproves(tx, i, poolSender) ==
  /\ Len(tx.frames) = 3 /\ i = 2
  /\ LET f == tx.frames
         s == f[2].call.spend
     IN  /\ f[2].call.op = "verifyProofOnly"
         /\ tx.sender = poolSender
         /\ PaymasterFee(tx, s)
         /\ Cardinality(tx.keys) = 2 /\ tx.nonceSeq = 0
         /\ tx.keys = {s.nf1, s.nf2}
         /\ Len(tx.refs) = 1
         /\ tx.refs[1].source = Pool /\ tx.refs[1].root = s.root
         /\ tx.signatures = 1 /\ ~tx.blobs
         /\ f[1].target = poolSender /\ f[1].mode = VERIFY /\ f[1].flags = 2
         /\ f[1].call = NoCall /\ f[1].gas = 300000 /\ f[1].value = 0
         /\ f[2].target = Paymaster /\ f[2].mode = VERIFY /\ f[2].flags = 1
         /\ f[2].gas = 100000 /\ f[2].value = 0
         /\ PaymasterSettleFrame(f[3], s)

-----------------------------------------------------------------------------
(* Settlement: transfer or withdraw up to and including _spend, executed   *)
(* in frame i with caller tx.sender and the payer TXPARAM(0x11) names.     *)

(* the words EnvelopeProbe returns, its two key words read as the key set *)
EnvelopeProbe(tx, i, payer) ==
  [frames |-> Len(tx.frames), frameIndex |-> i,
   keyCount |-> Cardinality(tx.keys), nonceSeq |-> tx.nonceSeq, keys |-> tx.keys,
   refCount |-> Len(tx.refs), refSource |-> tx.refs[1].source, refRoot |-> tx.refs[1].root,
   settleTarget |-> tx.frames[i].target, payerWord |-> payer]

ValidateSpend(s) ==
  /\ s.domain = PoolDomain
  /\ s.publicAmount < MaxValue /\ s.fee < MaxValue

SettlementShape(c) ==
  \/ c.op = "transfer" /\ c.spend.publicAmount = 0 /\ c.spend.ctx = NoAccount
  \/ /\ c.op = "withdraw"
     /\ c.spend.publicAmount # 0 /\ c.spend.ctx # NoAccount
     /\ c.spend.ctx = c.recipient

(* for the mutation runs: NotPoolSender raised for the zero sender only *)
SettlementCallerNonzero(tx) == tx.sender # NoAccount

SettlementCaller(tx) == tx.sender = Pool     \* msg.sender == address(this)

(* the probe's words against the call's Spend tuple *)
SettlementBindings(p, s) ==
  /\ \/ p.frames = 2 /\ p.frameIndex = 2
     \/ p.frames = 3 /\ p.frameIndex = 3
  /\ p.settleTarget = Pool
  /\ p.keyCount = 2 /\ p.nonceSeq = 0 /\ p.keys = {s.nf1, s.nf2}
  /\ p.refCount = 1 /\ p.refSource = Pool /\ p.refRoot = s.root
  /\ p.payerWord \in Accounts

SettlementAccepts(tx, i, payer) ==
  LET c == tx.frames[i].call
  IN  /\ SettlementShape(c)
      /\ SettlementCaller(tx)
      /\ SettlementBindings(EnvelopeProbe(tx, i, payer), c.spend)
      /\ ValidateSpend(c.spend)

=============================================================================
