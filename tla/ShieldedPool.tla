---------------------------- MODULE ShieldedPool ----------------------------
(***************************************************************************)
(* The production pool on its chain: the dispatcher at the pool's address, *)
(* the settlement implementation it delegates to, and the parts of the     *)
(* protocol they rely on (keyed nonces, recent roots, APPROVE and the      *)
(* payer's debit and refund).                                              *)
(*                                                                         *)
(* Block execution is sequential and a frame transaction's frames run back *)
(* to back.  The VERIFY prefix is all or nothing: one failing VERIFY frame *)
(* invalidates the transaction with a full rollback, so it is one step     *)
(* (Validate).  The SENDER frame is a step of its own, because reverting   *)
(* it rolls back the settlement only: the nonces stay consumed and the gas *)
(* stays paid.  exec holds the transaction between the two.  Nobody signs  *)
(* for the pool, so any transaction somebody can build may be included at  *)
(* any time and any number of times; that is the mempool.                  *)
(***************************************************************************)
EXTENDS FrameTx, Sums

CONSTANTS
  Patron,         (* a payer whose own code approves any transaction       *)
  Outsider,       (* an account that sends frame transactions of its own   *)
  Requests,       (* what the wallets and submitters of a model may build  *)
  ShieldValues,   (* the deposits in play                                  *)
  Capacity,       (* leaves in a full tree, 2^DEPTH                        *)
  RingSize,       (* entries of the recent-root ring, 8192                 *)
  MaxSlot,        (* bound on the slots of a run                           *)
  InitialFunds    (* the payers' ETH before the first transaction          *)

RequestRecords ==
  [sender : Accounts, payer : Accounts, domain : Domains,
   in1 : Notes, in2 : Notes, out1 : Notes, out2 : Notes,
   publicAmount : Nat, fee : Nat, recipient : Accounts \cup {NoAccount},
   rootOf : {"pool", "forged"}, keys : SUBSET Nullifiers,
   nonceSeq : Nat, maxCost : Nat \ {0}]

ASSUME RequestsAssumption == Requests \subseteq RequestRecords
ASSUME DepositsAssumption == ShieldValues \subseteq Values
ASSUME CapacityAssumption == Capacity \in Nat /\ RingSize \in Nat \ {0}
ASSUME RunAssumption == MaxSlot \in Nat /\ InitialFunds \in Nat
ASSUME PayersAssumption ==
  /\ Patron \in Accounts \ {Pool, Paymaster}
  /\ Outsider \in Accounts \ {Pool, Paymaster, Patron}

VARIABLES
  leaves,            (* the tree: filledSubtrees and nextIndex             *)
  currentRoot,       (* currentRoot                                        *)
  withdrawalCredit,  (* withdrawalCredit                                   *)
  feeCredit,         (* feeCredit                                          *)
  noteSpent,         (* NoteSpent events emitted, per nullifier            *)
  nonceSeq,          (* protocol: sequence of the key (pool, nullifier)    *)
  ring,              (* protocol: the pool's recent-root entries           *)
  slot,              (* protocol: the current consensus slot               *)
  balance,           (* protocol: ETH per account                          *)
  exec               (* protocol: the transaction between its VERIFY       *)
                     (* prefix and its SENDER frame                        *)

storage == <<leaves, currentRoot, withdrawalCredit, feeCredit, noteSpent>>
vars == <<storage, nonceSeq, ring, slot, balance, exec>>

NoTx == [payer |-> NoAccount]
Idle == exec = NoTx

-----------------------------------------------------------------------------
(* Wallet and submitter: the envelopes that can be built *)

(* A request leaves open which published root its spend is proved against. *)
(* rootOf = "pool" takes the root of the declared reference; "forged" is a *)
(* root made up from the inputs themselves and published under a source of *)
(* the builder's own.                                                      *)
SpendOf(r, root) ==
  [root |-> root, domain |-> r.domain,
   nf1 |-> Nullifier(r.domain, r.in1), nf2 |-> Nullifier(r.domain, r.in2),
   outCm1 |-> r.out1, outCm2 |-> r.out2,
   publicAmount |-> r.publicAmount, fee |-> r.fee, ctx |-> r.recipient]

SettleCall(r, s) ==
  IF r.publicAmount = 0
  THEN [op |-> "transfer", spend |-> s]
  ELSE [op |-> "withdraw", spend |-> s, recipient |-> r.recipient]

BuildFrames(r, s) ==
  LET settle == Frame(Pool, SENDER, 0, 10000000, 0, SettleCall(r, s))
  IN  IF r.payer = r.sender
      THEN <<Frame(r.sender, VERIFY, 3, 350000, 0, NoCall), settle>>
      ELSE <<Frame(r.sender, VERIFY, 2, 300000, 0, NoCall),
             Frame(r.payer, VERIFY, 1, 100000, 0,
                   [op |-> "verifyProofOnly", spend |-> s]),
             settle>>

BuildTx(r, ref) ==
  LET s == SpendOf(r, ref.root)
  IN  [sender |-> r.sender, frames |-> BuildFrames(r, s),
       keys |-> IF r.keys = {} THEN {s.nf1, s.nf2} ELSE r.keys,
       nonceSeq |-> r.nonceSeq, refs |-> <<ref>>,
       signatures |-> 1, blobs |-> FALSE, maxCost |-> r.maxCost]

PoolRef(e) == [source |-> Pool, slot |-> e.slot, root |-> e.root]
ForgedRef(r) == [source |-> Outsider, slot |-> 0, root |-> <<r.in1, r.in2>>]

TxsOf(r) ==
  LET declarable == {PoolRef(e) : e \in ring} \cup {ForgedRef(r)}
  IN  {BuildTx(r, ref) :
         ref \in {f \in declarable : (f.source = Pool) = (r.rootOf = "pool")}}

-----------------------------------------------------------------------------
(* Protocol: admission, payment, recent roots *)

(* A reference is good when its entry is committed, in the window and not  *)
(* of the current slot.  An Outsider can always have published under its   *)
(* own source.                                                             *)
RefValid(ref) ==
  ref.source = Pool =>
    /\ [slot |-> ref.slot, root |-> ref.root] \in ring
    /\ ref.slot < slot /\ slot - ref.slot < RingSize

NoncesCurrent(tx) ==
  tx.sender = Pool => \A k \in tx.keys : nonceSeq[k] = tx.nonceSeq

ConsumeKeys(tx) ==
  nonceSeq' = IF tx.sender # Pool THEN nonceSeq
              ELSE [k \in Nullifiers |->
                      IF k \in tx.keys THEN nonceSeq[k] + 1 ELSE nonceSeq[k]]

(* The entry of a slot overwrites the one RingSize slots before it, and an *)
(* earlier one of the same slot.                                           *)
PublishRoot(root) ==
  ring' = {e \in ring : e.slot % RingSize # slot % RingSize}
          \cup {[slot |-> slot, root |-> root]}

PayerOf(tx) == tx.frames[LastFrame(tx) - 1].target

(* payment approval by the payer's own code, after the sender's            *)
PayFrameApproves(tx) ==
  IF PayerOf(tx) = Paymaster THEN PaymasterApproves(tx, 2, Pool)
                             ELSE PayerOf(tx) \in {Patron, tx.sender}

(* for the mutation runs: the root compared with the pool's current one *)
SenderApprovesCurrentRoot(tx) ==
  tx.sender = Pool => DispatcherApproves(tx, 1) /\ tx.refs[1].root = currentRoot

SenderApproves(tx) == tx.sender = Pool => DispatcherApproves(tx, 1)

-----------------------------------------------------------------------------
(* Settlement *)

InsertIfNew(ls, cm) == IF cm \in Leaves(ls) THEN ls ELSE Append(ls, cm)

InsertOutputs(ls, s) == InsertIfNew(InsertIfNew(ls, s.outCm1), s.outCm2)

Credit(credit, who, amount) == [credit EXCEPT ![who] = @ + amount]

SpendInFlight == SettleFrame(exec.tx).call.spend

(* for the mutation runs: the TreeFull check forgotten *)
TreeAlwaysHasRoom(s) == s = SpendInFlight

TreeHasRoom(s) == Len(InsertOutputs(leaves, s)) <= Capacity

(* for the mutation runs: the root published before the outputs are in it *)
SettlePublishingFirst(s, payer) ==
  /\ leaves' = InsertOutputs(leaves, s)
  /\ currentRoot' = leaves'
  /\ PublishRoot(currentRoot)
  /\ feeCredit' = IF s.fee # 0 /\ payer # Pool
                  THEN Credit(feeCredit, payer, s.fee) ELSE feeCredit

(* for the mutation runs: the fee credited to the pool when it is the payer *)
SettleCreditingPool(s, payer) ==
  /\ leaves' = InsertOutputs(leaves, s)
  /\ currentRoot' = IF leaves' # leaves THEN leaves' ELSE currentRoot
  /\ PublishRoot(currentRoot')
  /\ feeCredit' = Credit(feeCredit, payer, s.fee)

Settle(s, payer) ==
  /\ leaves' = InsertOutputs(leaves, s)
  /\ currentRoot' = IF leaves' # leaves THEN leaves' ELSE currentRoot
  /\ PublishRoot(currentRoot')
  /\ feeCredit' = IF s.fee # 0 /\ payer # Pool
                  THEN Credit(feeCredit, payer, s.fee) ELSE feeCredit

TransferOrWithdraw(c, payer) ==
  /\ noteSpent' = [n \in Nullifiers |->
                     noteSpent[n] + (IF n = c.spend.nf1 THEN 1 ELSE 0)
                                  + (IF n = c.spend.nf2 THEN 1 ELSE 0)]
  /\ Settle(c.spend, payer)
  /\ withdrawalCredit' =
       IF c.op = "withdraw"
       THEN Credit(withdrawalCredit, c.recipient, c.spend.publicAmount)
       ELSE withdrawalCredit

-----------------------------------------------------------------------------
(* Steps *)

(* the dispatcher's constructor seeds and publishes the empty root *)
Init ==
  /\ leaves = <<>> /\ currentRoot = <<>>
  /\ withdrawalCredit = [a \in Accounts |-> 0]
  /\ feeCredit = [a \in Accounts |-> 0]
  /\ noteSpent = [n \in Nullifiers |-> 0]
  /\ nonceSeq = [n \in Nullifiers |-> 0]
  /\ ring = {[slot |-> 0, root |-> <<>>]}
  /\ slot = 0
  /\ balance = [a \in Accounts |-> IF a = Pool THEN 0 ELSE InitialFunds]
  /\ exec = NoTx

Shield(inner, value) ==
  LET cm == [inner |-> inner, value |-> value]
  IN  /\ Idle
      /\ value # 0 /\ value < MaxValue
      /\ cm \notin Leaves(leaves)
      /\ Len(leaves) < Capacity
      /\ leaves' = Append(leaves, cm)
      /\ currentRoot' = leaves'
      /\ PublishRoot(currentRoot')
      /\ balance' = Credit(balance, Pool, value)
      /\ UNCHANGED <<withdrawalCredit, feeCredit, noteSpent, nonceSeq, slot, exec>>

(* Inclusion: the protocol's checks against the state before the           *)
(* transaction, the VERIFY frames, the payer's debit of the maximum cost   *)
(* and the consumption of the selected keys.                               *)
Validate(tx) ==
  /\ Idle
  /\ NoncesCurrent(tx)
  /\ \A i \in DOMAIN tx.refs : RefValid(tx.refs[i])
  /\ SenderApproves(tx)
  /\ PayFrameApproves(tx)
  /\ balance[PayerOf(tx)] >= tx.maxCost
  /\ balance' = [balance EXCEPT ![PayerOf(tx)] = @ - tx.maxCost]
  /\ ConsumeKeys(tx)
  /\ exec' = [payer |-> PayerOf(tx), tx |-> tx]
  /\ UNCHANGED <<storage, ring, slot>>

(* the unused part of the maximum cost goes back to the payer *)
Refund ==
  \E charged \in 1 .. exec.tx.maxCost :
    balance' = [balance EXCEPT ![exec.payer] = @ + (exec.tx.maxCost - charged)]

SettleSucceeds ==
  /\ SettlementAccepts(exec.tx, LastFrame(exec.tx), exec.payer)
  /\ TreeHasRoom(SpendInFlight)

SettleSuccess ==
  /\ ~Idle
  /\ SettleSucceeds
  /\ TransferOrWithdraw(SettleFrame(exec.tx).call, exec.payer)
  /\ Refund
  /\ exec' = NoTx
  /\ UNCHANGED <<nonceSeq, slot>>

SettleRevert ==
  /\ ~Idle
  /\ ~SettleSucceeds
  /\ Refund
  /\ exec' = NoTx
  /\ UNCHANGED <<storage, nonceSeq, ring, slot>>

AdvanceSlot ==
  /\ Idle /\ slot < MaxSlot
  /\ slot' = slot + 1
  /\ UNCHANGED <<storage, nonceSeq, ring, balance, exec>>

(* A payout to the pool itself calls the dispatcher with empty calldata,   *)
(* which takes the frame-0 path and reverts, and the claim with it.        *)
ClaimWithdrawal(who) ==
  /\ Idle /\ withdrawalCredit[who] # 0 /\ who # Pool
  /\ withdrawalCredit' = [withdrawalCredit EXCEPT ![who] = 0]
  /\ balance' = [balance EXCEPT ![Pool] = @ - withdrawalCredit[who],
                                ![who] = @ + withdrawalCredit[who]]
  /\ UNCHANGED <<leaves, currentRoot, feeCredit, noteSpent, nonceSeq, ring, slot, exec>>

ClaimFee(who) ==
  /\ Idle /\ feeCredit[who] # 0 /\ who # Pool
  /\ feeCredit' = [feeCredit EXCEPT ![who] = 0]
  /\ balance' = [balance EXCEPT ![Pool] = @ - feeCredit[who],
                                ![who] = @ + feeCredit[who]]
  /\ UNCHANGED <<leaves, currentRoot, withdrawalCredit, noteSpent, nonceSeq, ring, slot, exec>>

Next ==
  \/ \E i \in Inners, v \in ShieldValues : Shield(i, v)
  \/ \E r \in Requests : \E tx \in TxsOf(r) : Validate(tx)
  \/ SettleSuccess
  \/ SettleRevert
  \/ AdvanceSlot
  \/ \E who \in Accounts : ClaimWithdrawal(who) \/ ClaimFee(who)

Spec == Init /\ [][Next]_vars

-----------------------------------------------------------------------------
(* Properties *)

SpendTypeOK(s) ==
  /\ s.outCm1 \in Notes /\ s.outCm2 \in Notes
  /\ s.nf1 \in Nullifiers /\ s.nf2 \in Nullifiers
  /\ s.publicAmount \in Nat /\ s.fee \in Nat

ExecTypeOK ==
  \/ Idle
  \/ /\ exec.payer \in Accounts
     /\ exec.tx.maxCost \in Nat \ {0}
     /\ exec.tx.keys \subseteq Nullifiers
     /\ SpendTypeOK(SpendInFlight)

(* The types of the pool's storage and of the protocol state around it.    *)
TypeOK ==
  /\ leaves \in Seq(Notes) /\ Len(leaves) <= Capacity
  /\ currentRoot \in Seq(Notes)
  /\ withdrawalCredit \in [Accounts -> Nat]
  /\ feeCredit \in [Accounts -> Nat]
  /\ noteSpent \in [Nullifiers -> Nat]
  /\ nonceSeq \in [Nullifiers -> Nat]
  /\ ring \subseteq [slot : 0 .. MaxSlot, root : Seq(Notes)]
  /\ slot \in 0 .. MaxSlot
  /\ balance \in [Accounts -> Int]
  /\ ExecTypeOK

ValueOf(notes) == SumOver([n \in Notes |-> n.value], notes)

Owed(credit) == SumOver(credit, Accounts)

LiveNotes ==
  {n \in Leaves(leaves) : nonceSeq[Nullifier(PoolDomain, n)] = 0}

SpendRunning == ~Idle /\ exec.tx.sender = Pool

(* the maximum gas cost the pool has fronted for the spend that runs *)
Prepaid == IF SpendRunning /\ exec.payer = Pool THEN exec.tx.maxCost ELSE 0

(* what an approved spend may still turn into notes and credits: its input *)
(* value, less what the pool has fronted                                   *)
InFlight ==
  IF SpendRunning
  THEN SpendInFlight.nf1.cm.value + SpendInFlight.nf2.cm.value - Prepaid
  ELSE 0

(* The pool's ETH always covers every unspent note, every credit and what  *)
(* an approved spend still has to pay out, at every point of a             *)
(* transaction, through burns, claims, duplicate outputs and self-paid     *)
(* gas.                                                                    *)
Solvent ==
  balance[Pool] >= ValueOf(LiveNotes) + Owed(withdrawalCredit)
                   + Owed(feeCredit) + InFlight

(* A note is spent by at most one settlement, whichever domain its         *)
(* nullifier is derived for: the pool keeps no spent set, so this rests on *)
(* the keyed nonces and on settlement binding them to the proof.           *)
NoDoubleSpend ==
  \A nf1, nf2 \in Nullifiers :
    nf1.cm = nf2.cm /\ noteSpent[nf1] > 0 /\ noteSpent[nf2] > 0
      => nf1 = nf2 /\ noteSpent[nf1] = 1

(* Settlement trusts frame 0 for the proof and the protocol for the root:  *)
(* still, a note that carries value was a leaf of this pool's own tree     *)
(* when it was spent.                                                      *)
SpentWasCommitted ==
  \A nf \in Nullifiers :
    noteSpent[nf] > 0 /\ nf.cm.value # 0 => nf.cm \in Leaves(leaves)

Burned == {nf \in Nullifiers : nonceSeq[nf] > 0 /\ noteSpent[nf] = 0}

(* Nullifiers consumed without a settlement are notes burned for good.     *)
(* Frame 0 checks enough of settlement's guards ahead of time that the     *)
(* only way there is a tree with too little room for two more leaves.      *)
BurnsOnlyNearCapacity ==
  Idle /\ Burned # {} => Len(leaves) >= Capacity - 1

(* What the documentation says of it: "the one structural case left is a   *)
(* full tree" (README.md, Limitations).                                    *)
BurnsOnlyWhenFull ==
  Idle /\ Burned # {} => Len(leaves) = Capacity

(* The stored root is the root of the tree, every root the protocol still  *)
(* holds for the pool is a root the tree has had, and the newest entry is  *)
(* the current root, so wallets can always prove against the latest tree.  *)
RootsFollowTree ==
  /\ currentRoot = leaves
  /\ \A e \in ring : e.root = SubSeq(leaves, 1, Len(e.root))
  /\ \A e \in ring : (\A f \in ring : f.slot <= e.slot) => e.root = leaves

(* A paymaster that fronts gas gets at least its money back, as ETH or as  *)
(* a fee credit, as long as no settlement has burned its notes.            *)
PaymasterWhole ==
  Idle /\ Burned = {}
    => balance[Paymaster] + feeCredit[Paymaster] >= InitialFunds

(* The money side of the pool implements the ledger: every step moves ETH, *)
(* note value and credits the way one ledger step allows, or not at all.   *)
Ledger ==
  INSTANCE PoolLedger WITH
    Supply   <- Capacity * MaxValue,
    held     <- balance[Pool],
    shielded <- ValueOf(LiveNotes),
    credited <- Owed(withdrawalCredit) + Owed(feeCredit),
    reserved <- InFlight,
    prepaid  <- Prepaid

ImplementsLedger == Ledger!Spec

(* A self-paying spend that passes every other check never fails because   *)
(* the pool cannot front the maximum gas cost.                             *)
SelfPayCovered ==
  Idle =>
    \A r \in {q \in Requests : q.sender = Pool /\ q.payer = Pool} :
      \A tx \in TxsOf(r) :
        NoncesCurrent(tx) /\ RefValid(tx.refs[1]) /\ DispatcherApproves(tx, 1)
          => balance[Pool] >= tx.maxCost

=============================================================================
