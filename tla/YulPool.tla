------------------------------ MODULE YulPool -------------------------------
(***************************************************************************)
(* The storage of devnet/ShieldedPool.yul, which has no types: one flat    *)
(* map of slots, in which the frontier, the index, the root and the three  *)
(* keyed maps live side by side.  Hashes are constructors, keccak256 of a  *)
(* key and a base included.                                                *)
(*                                                                         *)
(* A claim calls its payee with all the gas there is, and the payee may    *)
(* call the pool again before it returns, or revert and take with it all   *)
(* that happened since.  stack holds the state each open claim started     *)
(* from.  Spends cannot be nested: tx.sender is the pool only in its own   *)
(* frame transactions, whose one execution frame is the spend.             *)
(*                                                                         *)
(* What approval guarantees (FrameTx, SpendCalldata) is a guard here: the  *)
(* inputs are worth what the outputs, the fee and the public amount are,   *)
(* and the fee covers the gas the pool fronts.  A settlement that reverts  *)
(* changes nothing here; what it burns is ShieldedPool's subject.          *)
(***************************************************************************)
EXTENDS SequencesExt, Sums

CONSTANTS
  Depth,      (* depth()                                       *)
  Inners,     (* inner commitments                             *)
  MaxValue,   (* maxValue(), 2^128                             *)
  Accounts,
  Pool,       (* address()                                     *)
  Zero,       (* the word 0 where it stands for an empty leaf  *)
  MaxCalls    (* bound on claims open at once                  *)

ASSUME YulDepthAssumption == Depth \in 1 .. 20 /\ MaxValue \in Nat \ {0}
ASSUME YulPoolAssumption == Pool \in Accounts /\ MaxCalls \in Nat
ASSUME YulAccountsAssumption == IsFiniteSet(Accounts)

VARIABLES
  store,      (* the pool's storage                                        *)
  published,  (* the last root written to the EIP-8272 predeploy           *)
  balance,    (* the pool's ETH                                            *)
  log,        (* the LeafAppended events                                   *)
  shielded,   (* total value of the notes that can still be spent          *)
  stack       (* the open claims                                           *)

vars == <<store, published, balance, log, shielded, stack>>

-----------------------------------------------------------------------------
(* Slots *)

Slot(n) == <<n>>
MapSlot(key, base) == <<key, base>>

NextIndex == Slot(21)
CurrentRoot == Slot(22)

(* hash3(2, inner, callvalue) *)
Cm(inner, value) == <<inner, value>>
ValueOf(cm) == cm[2]

Cms == {Cm(i, v) : i \in Inners, v \in 0 .. MaxValue - 1}

LeafSlot(cm) == MapSlot(cm, 23)
WithdrawalSlot(a) == MapSlot(a, 24)
FeeSlot(a) == MapSlot(a, 25)

FixedSlots == {Slot(n) : n \in (0 .. Depth) \cup {21, 22}}
Slots ==
  FixedSlots \cup {LeafSlot(cm) : cm \in Cms}
             \cup {WithdrawalSlot(a) : a \in Accounts} \cup {FeeSlot(a) : a \in Accounts}

ASSUME YulZeroAssumption == Zero \notin Cms

IsLeaf(st, cm) == st[LeafSlot(cm)] = 1

-----------------------------------------------------------------------------
(* The tree *)

Hash2(l, r) == <<l, r>>

Zeros[l \in 0 .. Depth] == IF l = 0 THEN Zero ELSE Hash2(Zeros[l - 1], Zeros[l - 1])

(* shl(l, 1) *)
Shl1[l \in 0 .. Depth] == IF l = 0 THEN 1 ELSE 2 * Shl1[l - 1]

Full(st) == st[NextIndex] >= Shl1[Depth]

(* idx after l times idx := shr(1, idx), and its last bit *)
Shr(idx) ==
  LET at[l \in 0 .. Depth] == IF l = 0 THEN idx ELSE at[l - 1] \div 2
  IN  at

IndexBit(idx, l) == Shr(idx)[l] % 2

Insert(st, cm) ==
  LET index == st[NextIndex]
      l == Min({k \in 0 .. Depth : IndexBit(index, k) = 0})
      node[k \in 0 .. Depth] == IF k = 0 THEN cm ELSE Hash2(st[Slot(k - 1)], node[k - 1])
  IN  [st EXCEPT ![NextIndex] = index + 1, ![LeafSlot(cm)] = 1, ![Slot(l)] = node[l]]

ComputeRoot(st) ==
  LET idx == st[NextIndex]
      node[l \in 0 .. Depth] ==
        IF l = 0 THEN Zero
        ELSE IF IndexBit(idx, l - 1) = 0 THEN Hash2(node[l - 1], Zeros[l - 1])
             ELSE Hash2(st[Slot(l - 1)], node[l - 1])
  IN  IF idx = Shl1[Depth] THEN st[Slot(Depth)] ELSE node[Depth]

(* sstore(22, computeRoot()) *)
Rooted(st) == [st EXCEPT ![CurrentRoot] = ComputeRoot(st)]

LeafAppended(cm, index, root) == [cm |-> cm, index |-> index, newRoot |-> root]

-----------------------------------------------------------------------------
(* Operations *)

(* the constructor: the root of the empty tree, published once *)
Init ==
  /\ store = [s \in Slots |-> IF s \in {Slot(n) : n \in 0 .. Depth} THEN Zero
                              ELSE IF s = CurrentRoot THEN Zeros[Depth] ELSE 0]
  /\ published = Zeros[Depth]
  /\ balance = 0 /\ log = <<>> /\ shielded = 0
  /\ stack = <<>>

(* for the mutation runs: the root sent before the new one is stored *)
PublishStoredRoot == published' = store[CurrentRoot]

PublishRoot == published' = store'[CurrentRoot]

Shield(inner, value) ==
  LET cm == Cm(inner, value)
  IN  /\ value # 0 /\ value < MaxValue
      /\ ~IsLeaf(store, cm) /\ ~Full(store)
      /\ store' = Rooted(Insert(store, cm))
      /\ log' = Append(log, LeafAppended(cm, store[NextIndex], store'[CurrentRoot]))
      /\ PublishRoot
      /\ balance' = balance + value /\ shielded' = shielded + value
      /\ UNCHANGED stack

(* for the mutation runs: both outputs looked up before the first is in *)
FreshLookedUpFirst(oc1, oc2) ==
  SelectSeq(<<oc1, oc2>>, LAMBDA cm : ~IsLeaf(store, cm))

(* the outputs settle inserts, the second looked up after the first is in *)
Fresh(oc1, oc2) ==
  (IF IsLeaf(store, oc1) THEN <<>> ELSE <<oc1>>)
  \o (IF IsLeaf(store, oc2) \/ oc1 = oc2 THEN <<>> ELSE <<oc2>>)

Settled(fresh) ==
  LET first == Insert(store, fresh[1])
  IN  IF fresh = <<>> THEN store
      ELSE Rooted(IF Len(fresh) = 1 THEN first ELSE Insert(first, fresh[2]))

RoomFor(fresh) == store[NextIndex] + Len(fresh) <= Shl1[Depth]

Worth(fresh) == SumOver([k \in DOMAIN fresh |-> ValueOf(fresh[k])], DOMAIN fresh)

(* sstore(s, add(sload(s), amount)) *)
AddTo(st, s, amount) == [st EXCEPT ![s] = @ + amount]

FeeCredited(st, payer, fee) ==
  IF payer # Pool /\ fee # 0 THEN AddTo(st, FeeSlot(payer), fee) ELSE st

(* transfer (pub = 0) and withdraw of approved spends; gas is what the     *)
(* pool has paid for itself                                                *)
Settle(oc1, oc2, pub, recipient, fee, payer, gas) ==
  LET fresh == Fresh(oc1, oc2)
  IN  /\ stack = <<>>
      /\ ValueOf(oc1) + ValueOf(oc2) + pub + fee <= shielded
      /\ gas <= fee /\ (gas = 0) = (payer # Pool)
      /\ RoomFor(fresh)
      /\ store' = LET credited == FeeCredited(Settled(fresh), payer, fee)
                  IN  IF pub = 0 THEN credited
                      ELSE AddTo(credited, WithdrawalSlot(recipient), pub)
      /\ log' = log \o [k \in DOMAIN fresh |->
                  LeafAppended(fresh[k], store[NextIndex] + k - 1, store'[CurrentRoot])]
      /\ PublishRoot
      /\ balance' = balance - gas
      /\ shielded' = shielded - (ValueOf(oc1) + ValueOf(oc2) + pub + fee) + Worth(fresh)
      /\ UNCHANGED stack

(* for the mutation runs: the credit cleared when the payee has returned *)
ClearedLate(moment, st, s) == IF moment = "return" THEN [st EXCEPT ![s] = 0] ELSE st

(* the credit is cleared before the call, and nothing is left to do after *)
Cleared(moment, st, s) == IF moment = "call" THEN [st EXCEPT ![s] = 0] ELSE st

(* the beginning of a claim of slot s, up to the call with empty calldata; *)
(* the call to the pool itself reverts in verifyFrameApprove               *)
Claim(s, who) ==
  /\ Len(stack) < MaxCalls
  /\ store[s] # 0 /\ who # Pool
  /\ stack' = Append(stack, [slot |-> s, store |-> store, published |-> published,
                              balance |-> balance, log |-> log, shielded |-> shielded])
  /\ store' = Cleared("call", store, s)
  /\ balance' = balance - store[s]
  /\ UNCHANGED <<published, log, shielded>>

ClaimWithdrawal(who) == Claim(WithdrawalSlot(who), who)

ClaimFee(who) == Claim(FeeSlot(who), who)

PayeeReturns ==
  /\ stack # <<>>
  /\ store' = Cleared("return", store, Last(stack).slot)
  /\ stack' = Front(stack)
  /\ UNCHANGED <<published, balance, log, shielded>>

(* PayoutFailed, or the caller of the claim reverting later on *)
PayeeReverts ==
  /\ stack # <<>>
  /\ LET before == Last(stack)
     IN  /\ store' = before.store /\ published' = before.published
         /\ balance' = before.balance /\ log' = before.log
         /\ shielded' = before.shielded
  /\ stack' = Front(stack)

Next ==
  \/ \E i \in Inners, v \in 0 .. MaxValue : Shield(i, v)
  \/ \E oc1, oc2 \in Cms, pub, fee, gas \in 0 .. shielded, recipient, payer \in Accounts :
       Settle(oc1, oc2, pub, recipient, fee, payer, gas)
  \/ \E who \in Accounts : ClaimWithdrawal(who) \/ ClaimFee(who)
  \/ PayeeReturns
  \/ PayeeReverts

Spec == Init /\ [][Next]_vars

-----------------------------------------------------------------------------
(* Properties *)

(* the tree of the Solidity implementation and its wallets, at these slots *)
Tree ==
  INSTANCE MerkleTree WITH
    filledSubtrees <- [l \in 0 .. Depth |-> store[Slot(l)]],
    nextIndex <- store[NextIndex],
    isLeaf <- {cm \in Cms : IsLeaf(store, cm)},
    currentRoot <- store[CurrentRoot],
    wallet <- [phase |-> "start", leaves |-> <<>>]

(* Slot for slot and event for event, a deposit or a settlement does to    *)
(* the tree what the Solidity pool does, and nothing but a reverting payee *)
(* ever takes a leaf back.                                                 *)
TreeStepsLikeReference == [][PayeeReverts \/ [Tree!Next]_(Tree!vars)]_vars

(* The root of the predeploy is the one a wallet rebuilds from the events, *)
(* also inside a claim's callback and after it has been undone.            *)
PublishedRebuilds == published = Tree!Root(Tree!Rebuilt(log))

(* Whenever code of a payee runs, which may deposit and claim again, the   *)
(* pool's ETH covers the notes and every credit it can still claim.        *)
CoveredAtEveryCall ==
  balance >= shielded
             + SumOver([a \in Accounts |-> store[WithdrawalSlot(a)] + store[FeeSlot(a)]],
                       Accounts)

=============================================================================
