---------------------------- MODULE Tools_proofs -----------------------------
(***************************************************************************)
(* Theorems about the three models of the spend submitter, for every       *)
(* instance: Submitter (any number of tools, any jobs, on a chain on which *)
(* anybody replays and competes), CommandLine (any words on the line) and  *)
(* Fixtures (any plans, on a tree on which strangers deposit).             *)
(***************************************************************************)
EXTENDS Submitter, Fixtures, CommandLine, Pool_proofs

-----------------------------------------------------------------------------
(* Submitter: the inductive invariant.  The pool's own one, since mempool  *)
(* envelopes are validated like any other, and what ties the receipts and  *)
(* the tools to the pool's state.                                          *)

SpendIn(tx) == SettleFrame(tx).call.spend

Following == {"clean", "sent", "mined", "reverted"}

ToolRecords ==
  /\ DOMAIN tool = Tools
  /\ \A p \in Tools : DOMAIN tool[p] = {"phase", "runs", "polls", "seen", "tx"}

ToolEnvelope(p, tx) == tx = BuildTx(Job[p], tx.refs[1])

EnvelopesInv ==
  /\ \A tx \in mempool : \E p \in Tools : ToolEnvelope(p, tx)
  /\ \A p \in Tools :
       tool[p].phase \in {"built"} \cup Following => ToolEnvelope(p, tool[p].tx)

PoolReceipts == {r \in receipts : r.tx.sender = Pool}

(* a receipt of the pool says what became of its two nullifiers *)
ReceiptsInv ==
  \A r \in PoolReceipts :
    /\ r.settled \in BOOLEAN
    /\ r.tx.keys = {SpendIn(r.tx).nf1, SpendIn(r.tx).nf2}
    /\ \A k \in r.tx.keys : /\ k \in Nullifiers /\ nonceSeq[k] > 0
                            /\ noteSpent[k] = IF r.settled THEN 1 ELSE 0
    /\ r.settled => {SpendIn(r.tx).outCm1, SpendIn(r.tx).outCm2} \subseteq Leaves(leaves)

NoReceiptYet ==
  SpendRunning => \A r \in PoolReceipts : r.tx.keys \cap exec.tx.keys = {}

(* a tool has seen room for its outputs, and a burn needs the tree to have *)
(* moved on from there                                                     *)
SeenInv ==
  \A p \in Tools :
    tool[p].phase \in Following =>
      /\ tool[p].seen \in 0 .. Len(leaves)
      /\ tool[p].seen = Len(leaves) =>
           TreeHasRoom(SpendIn(tool[p].tx)) /\ FALSE \notin StatusOf(tool[p].tx)

ReportsInv ==
  \A p \in Tools :
    /\ tool[p].phase = "mined" => TRUE \in StatusOf(tool[p].tx)
    /\ tool[p].phase = "reverted" => FALSE \in StatusOf(tool[p].tx)

SubmitInv ==
  /\ IInv
  /\ ToolRecords /\ EnvelopesInv /\ ReceiptsInv /\ OneOutcome /\ NoReceiptYet
  /\ SeenInv /\ ReportsInv
-----------------------------------------------------------------------------
(* The tools *)

(* What a step of a tool can be: it drops the envelope it had, builds one, *)
(* finds it clean, or sends it, polls and reads its receipt.               *)
Drops(p) == tool'[p].phase \notin {"built"} \cup Following

Builds(p) ==
  /\ tool'[p].phase = "built"
  /\ \E e : tool'[p].tx = BuildTx(Job[p], PoolRef(e))

FindsClean(p) ==
  /\ tool[p].phase = "built" /\ tool'[p].phase = "clean"
  /\ tool'[p].tx = tool[p].tx /\ tool'[p].seen = Len(leaves)
  /\ SimulatesCleanly(tool[p].tx)

Follows(p) ==
  /\ tool[p].phase \in {"clean", "sent"}
  /\ tool'[p].tx = tool[p].tx /\ tool'[p].seen = tool[p].seen
  /\ \/ tool'[p].phase = "sent"
     \/ tool'[p].phase = "mined" /\ TRUE \in StatusOf(tool[p].tx)
     \/ tool'[p].phase = "reverted" /\ FALSE \in StatusOf(tool[p].tx)

Sendable(p) == {tx \in {tool[p].tx} : tool[p].phase = "clean"}

(* What a step of a run may do: it leaves the chain alone, and drops,      *)
(* builds, finds clean or follows up its own envelope.                     *)
LEMMA ToolMoves ==
  ASSUME ToolRecords, NEW p \in Tools, ToolStep(p) \/ RpcFails(p) \/ RunAgain(p)
  PROVE  /\ UNCHANGED <<vars, receipts>>
         /\ mempool' \subseteq mempool \cup Sendable(p)
         /\ ToolRecords' /\ \A q \in Tools \ {p} : tool'[q] = tool[q]
         /\ Drops(p) \/ Builds(p) \/ FindsClean(p) \/ Follows(p)
<1> DEFINE Fields == {"phase", "runs", "polls", "seen", "tx"}
           r == tool[p]
           Others == DOMAIN tool' = Tools /\ \A q \in Tools \ {p} : tool'[q] = tool[q]
<1>1. DOMAIN tool = Tools /\ DOMAIN r = Fields
  BY DEF ToolRecords
<1>2. ASSUME Others, DOMAIN tool'[p] = Fields
      PROVE  ToolRecords' /\ \A q \in Tools \ {p} : tool'[q] = tool[q]
  BY <1>2 DEF ToolRecords
<1>3. ASSUME NEW phase, Exit(p, phase)
      PROVE  ToolRecords' /\ tool'[p].phase = phase /\ Others
  <2>1. Others /\ tool'[p] = NewRun(phase, r.runs)
    BY <1>1, <1>3 DEF Exit
  <2>2. DOMAIN tool'[p] = Fields /\ tool'[p].phase = phase
    BY <2>1 DEF NewRun
  <2>. QED  BY <1>2, <2>1, <2>2
<1>4. ASSUME NEW phase, Goto(p, phase)
      PROVE  /\ ToolRecords' /\ Others
             /\ tool'[p].phase = phase /\ tool'[p].tx = r.tx /\ tool'[p].seen = r.seen
  <2>1. Others /\ tool'[p] = [r EXCEPT !.phase = phase]
    BY <1>1, <1>4 DEF Goto
  <2>2. /\ DOMAIN tool'[p] = Fields
        /\ tool'[p].phase = phase /\ tool'[p].tx = r.tx /\ tool'[p].seen = r.seen
    BY <1>1, <2>1
  <2>. QED  BY <1>2, <2>1, <2>2
<1>5. CASE SetUp(p)
  <2>1. PICK e : \/ tool' = [tool EXCEPT ![p].phase = "built",
                               ![p].tx = BuildTx(Job[p], PoolRef(e))]
                 \/ Exit(p, "refused")
    BY <1>5 DEF SetUp
  <2>2. UNCHANGED <<vars, mempool, receipts>>
    BY <1>5 DEF SetUp
  <2>3. CASE Exit(p, "refused")
    <3>1. Drops(p)
      BY <1>3, <2>3 DEF Drops, Following
    <3>. QED  BY <1>3, <2>2, <2>3, <3>1
  <2>4. CASE tool' = [tool EXCEPT ![p].phase = "built",
                        ![p].tx = BuildTx(Job[p], PoolRef(e))]
    <3> DEFINE tx == BuildTx(Job[p], PoolRef(e))
    <3> HIDE DEF tx
    <3>1. Others /\ tool'[p] = [r EXCEPT !.phase = "built", !.tx = tx]
      BY <1>1, <2>4 DEF tx
    <3>2. DOMAIN tool'[p] = Fields /\ tool'[p].phase = "built" /\ tool'[p].tx = tx
      BY <1>1, <3>1
    <3>3. Builds(p)
      BY <3>2 DEF tx, Builds
    <3>. QED  BY <1>2, <2>2, <3>1, <3>2, <3>3
  <2>. QED  BY <2>1, <2>3, <2>4
<1>6. CASE Simulate(p)
  <2>1. UNCHANGED <<vars, mempool, receipts>> /\ r.phase = "built"
    BY <1>6 DEF Simulate
  <2>2. CASE Exit(p, "refused")
    <3>1. Drops(p)
      BY <1>3, <2>2 DEF Drops, Following
    <3>. QED  BY <1>3, <2>1, <2>2, <3>1
  <2>3. CASE /\ SimulatesCleanly(tool[p].tx)
             /\ tool' = [tool EXCEPT ![p].phase = "clean", ![p].seen = Len(leaves)]
    <3>1. Others /\ tool'[p] = [r EXCEPT !.phase = "clean", !.seen = Len(leaves)]
      BY <1>1, <2>3
    <3>2. /\ DOMAIN tool'[p] = Fields /\ tool'[p].phase = "clean"
          /\ tool'[p].tx = r.tx /\ tool'[p].seen = Len(leaves)
      BY <1>1, <3>1
    <3>3. FindsClean(p)
      BY <2>1, <2>3, <3>2 DEF FindsClean
    <3>. QED  BY <1>2, <2>1, <3>1, <3>2, <3>3
  <2>. QED  BY <1>6, <2>2, <2>3 DEF Simulate
<1>7. CASE Send(p)
  <2>1. UNCHANGED <<vars, receipts>> /\ r.phase = "clean"
    BY <1>7 DEF Send
  <2>2. CASE Exit(p, "crashed") /\ UNCHANGED mempool
    <3>1. Drops(p)
      BY <1>3, <2>2 DEF Drops, Following
    <3>. QED  BY <1>3, <2>1, <2>2, <3>1
  <2>3. CASE /\ mempool' = mempool \cup {tool[p].tx}
             /\ tool' = [tool EXCEPT ![p].phase = "sent", ![p].polls = 0]
    <3>1. Others /\ tool'[p] = [r EXCEPT !.phase = "sent", !.polls = 0]
      BY <1>1, <2>3
    <3>2. /\ DOMAIN tool'[p] = Fields /\ tool'[p].phase = "sent"
          /\ tool'[p].tx = r.tx /\ tool'[p].seen = r.seen
      BY <1>1, <3>1
    <3>3. Follows(p) /\ mempool' \subseteq mempool \cup Sendable(p)
      BY <2>1, <2>3, <3>2 DEF Follows, Sendable
    <3>. QED  BY <1>2, <2>1, <3>1, <3>2, <3>3
  <2>. QED  BY <1>7, <2>2, <2>3 DEF Send
<1>8. CASE Poll(p)
  <2>1. UNCHANGED <<vars, mempool, receipts>> /\ r.phase = "sent"
    BY <1>8 DEF Poll
  <2>2. CASE TRUE \in StatusOf(tool[p].tx) /\ Goto(p, "mined")
    <3>1. Follows(p)
      BY <1>4, <2>1, <2>2 DEF Follows
    <3>. QED  BY <1>4, <2>1, <2>2, <3>1
  <2>3. CASE FALSE \in StatusOf(tool[p].tx) /\ Goto(p, "reverted")
    <3>1. Follows(p)
      BY <1>4, <2>1, <2>3 DEF Follows
    <3>. QED  BY <1>4, <2>1, <2>3, <3>1
  <2>4. CASE Exit(p, "timedOut")
    <3>1. Drops(p)
      BY <1>3, <2>4 DEF Drops, Following
    <3>. QED  BY <1>3, <2>1, <2>4, <3>1
  <2>5. CASE tool' = [tool EXCEPT ![p].polls = @ + 1]
    <3>1. Others /\ tool'[p] = [r EXCEPT !.polls = r.polls + 1]
      BY <1>1, <2>5
    <3>2. /\ DOMAIN tool'[p] = Fields /\ tool'[p].phase = "sent"
          /\ tool'[p].tx = r.tx /\ tool'[p].seen = r.seen
      BY <1>1, <2>1, <3>1
    <3>3. Follows(p)
      BY <2>1, <3>2 DEF Follows
    <3>. QED  BY <1>2, <2>1, <3>1, <3>2, <3>3
  <2>. QED  BY <1>8, <2>2, <2>3, <2>4, <2>5 DEF Poll
<1>9. CASE RpcFails(p)
  <2>1. /\ UNCHANGED <<vars, receipts>> /\ Exit(p, "crashed")
        /\ mempool' \subseteq mempool \cup Sendable(p)
    BY <1>9 DEF RpcFails, Sendable
  <2>2. Drops(p)
    BY <1>3, <2>1 DEF Drops, Following
  <2>. QED  BY <1>3, <2>1, <2>2
<1>10. CASE RunAgain(p)
  <2>1. /\ Others /\ tool'[p] = NewRun("setup", r.runs + 1)
        /\ UNCHANGED <<vars, mempool, receipts>>
    BY <1>1, <1>10 DEF RunAgain
  <2>2. DOMAIN tool'[p] = Fields /\ tool'[p].phase = "setup"
    BY <2>1 DEF NewRun
  <2>3. Drops(p)
    BY <2>2 DEF Drops, Following
  <2>. QED  BY <1>2, <2>1, <2>2, <2>3
<1>. QED  BY <1>5, <1>6, <1>7, <1>8, <1>9, <1>10 DEF ToolStep

(* What the tool has built is the pool's own transaction.                  *)
LEMMA EnvelopeSender ==
  ASSUME SubmitInv, NEW p \in Tools, tool[p].phase \in {"built"} \cup Following
  PROVE  tool[p].tx.sender = Pool
<1>1. ToolEnvelope(p, tool[p].tx)
  BY DEF SubmitInv, EnvelopesInv
<1>. QED  BY <1>1, ToolsAssumption DEF ToolEnvelope, BuildTx

(* A step of a tool moves nothing of the pool and adds nothing to the      *)
(* receipts.  What the gate found out at head is what SeenInv remembers: a *)
(* clean envelope has current nonces, so it has no receipt.                *)
LEMMA ToolKeeps ==
  ASSUME SubmitInv, NEW p \in Tools, ToolStep(p) \/ RpcFails(p) \/ RunAgain(p)
  PROVE  SubmitInv'
<1>1. /\ UNCHANGED <<vars, receipts>>
      /\ mempool' \subseteq mempool \cup Sendable(p)
      /\ ToolRecords' /\ \A q \in Tools \ {p} : tool'[q] = tool[q]
      /\ Drops(p) \/ Builds(p) \/ FindsClean(p) \/ Follows(p)
  BY ToolMoves DEF SubmitInv
<1>2. /\ UNCHANGED <<leaves, nonceSeq, noteSpent, exec>>
      /\ IInv' /\ PoolReceipts' = PoolReceipts
      /\ \A tx : StatusOf(tx)' = StatusOf(tx) /\ TreeHasRoom(SpendIn(tx))' = TreeHasRoom(SpendIn(tx))
  BY <1>1, InvStep DEF SubmitInv, vars, storage, PoolReceipts, StatusOf, TreeHasRoom, SpendIn,
                       SettleFrame, LastFrame
<1>3. ReceiptsInv' /\ OneOutcome' /\ NoReceiptYet'
  BY <1>1, <1>2 DEF SubmitInv, ReceiptsInv, OneOutcome, NoReceiptYet, SpendRunning, Idle, SpendIn,
                    SettleFrame, LastFrame
<1>4. EnvelopesInv'
  <2>1. \A tx \in mempool' : \E q \in Tools : ToolEnvelope(q, tx)
    BY <1>1 DEF SubmitInv, EnvelopesInv, Sendable, Following
  <2>2. ASSUME Builds(p) PROVE ToolEnvelope(p, tool'[p].tx)
    <3>1. PICK e : tool'[p].tx = BuildTx(Job[p], PoolRef(e))
      BY <2>2 DEF Builds
    <3>2. tool'[p].tx.refs[1] = PoolRef(e)
      BY <3>1 DEF BuildTx
    <3>. QED  BY <3>1, <3>2 DEF ToolEnvelope
  <2>3. tool'[p].phase \in {"built"} \cup Following => ToolEnvelope(p, tool'[p].tx)
    BY <1>1, <2>2 DEF SubmitInv, EnvelopesInv, Drops, FindsClean, Follows, Following
  <2>. QED  BY <1>1, <2>1, <2>3 DEF SubmitInv, EnvelopesInv, ToolEnvelope
<1>5. SeenInv'
  <2> SUFFICES ASSUME NEW q \in Tools, tool'[q].phase \in Following
               PROVE  /\ tool'[q].seen \in 0 .. Len(leaves)
                      /\ tool'[q].seen = Len(leaves) =>
                           /\ TreeHasRoom(SpendIn(tool'[q].tx))
                           /\ FALSE \notin StatusOf(tool'[q].tx)
    BY <1>2 DEF SeenInv, StatusOf, TreeHasRoom, SpendIn, SettleFrame, LastFrame
  <2>1. CASE q # p
    BY <1>1, <2>1 DEF SubmitInv, SeenInv
  <2>2. CASE q = p /\ Follows(p)
    <3>1. tool[p].phase \in Following
      BY <2>2 DEF Follows, Following
    <3>. QED  BY <2>2, <3>1 DEF SubmitInv, SeenInv, Follows
  <2>3. CASE q = p /\ FindsClean(p)
    <3> DEFINE tx == tool[p].tx
    <3>1. /\ tool'[p].tx = tx /\ tool'[p].seen = Len(leaves)
          /\ NoncesCurrent(tx) /\ SenderApproves(tx) /\ TreeHasRoom(SpendIn(tx))
          /\ ToolEnvelope(p, tx)
      BY <2>3 DEF FindsClean, SimulatesCleanly, PrefixValid, ExecutionSucceeds, SpendIn,
                  SubmitInv, EnvelopesInv
    <3>2. tx.sender = Pool
      BY <2>3, EnvelopeSender DEF FindsClean
    <3>3. \A k \in tx.keys : nonceSeq[k] = 0
      BY <3>1, <3>2 DEF SenderApproves, DispatcherApproves, DispatcherKeys, NoncesCurrent
    <3>4. FALSE \notin StatusOf(tx)
      <4>1. ASSUME NEW r \in receipts, r.tx = tx PROVE FALSE
        <5>1. r \in PoolReceipts
          BY <3>2, <4>1 DEF PoolReceipts
        <5>2. SpendIn(tx).nf1 \in tx.keys /\ nonceSeq[SpendIn(tx).nf1] > 0
          BY <4>1, <5>1 DEF SubmitInv, ReceiptsInv
        <5>. QED  BY <3>3, <5>2
      <4>. QED  BY <4>1 DEF StatusOf
    <3>5. Len(leaves) \in Nat
      BY DEF SubmitInv, IInv, TypeOK
    <3>6. TreeHasRoom(SpendIn(tool'[p].tx)) /\ FALSE \notin StatusOf(tool'[p].tx)
      BY <3>1, <3>4, Zenon
    <3>7. tool'[p].seen \in 0 .. Len(leaves)
      BY <3>1, <3>5
    <3>. QED  BY <2>3, <3>6, <3>7, Zenon
  <2>4. CASE q = p /\ (Drops(p) \/ Builds(p))
    BY <2>4 DEF Drops, Builds, Following
  <2>. QED  BY <1>1, <2>1, <2>2, <2>3, <2>4
<1>6. ReportsInv'
  BY <1>1, <1>2 DEF SubmitInv, ReportsInv, Drops, Builds, FindsClean, Follows, Following
<1>. QED  BY <1>1, <1>2, <1>3, <1>4, <1>5, <1>6 DEF SubmitInv

-----------------------------------------------------------------------------
(* The chain *)

(* An insertion adds a leaf or finds it there.                             *)
LEMMA InsertIfNewGrows ==
  ASSUME NEW ls \in Seq(Notes), NEW cm \in Notes
  PROVE  InsertIfNew(ls, cm) = ls \/ Len(InsertIfNew(ls, cm)) > Len(ls)
BY DEF InsertIfNew

(* A settlement leaves the tree as it is or makes it longer. *)
LEMMA InsertOutputsGrows ==
  ASSUME NEW ls \in Seq(Notes), NEW s, SpendTypeOK(s)
  PROVE  InsertOutputs(ls, s) = ls \/ Len(InsertOutputs(ls, s)) > Len(ls)
<1> DEFINE mid == InsertIfNew(ls, s.outCm1)
           end == InsertIfNew(mid, s.outCm2)
<1>1. s.outCm1 \in Notes /\ s.outCm2 \in Notes
  BY DEF SpendTypeOK
<1>2. mid \in Seq(Notes) /\ (mid = ls \/ Len(mid) > Len(ls))
  BY <1>1, InsertIfNewType, InsertIfNewGrows
<1> HIDE DEF mid
<1>3. end \in Seq(Notes) /\ (end = mid \/ Len(end) > Len(mid))
  BY <1>1, <1>2, InsertIfNewType, InsertIfNewGrows
<1>4. InsertOutputs(ls, s) = end
  BY DEF InsertOutputs, mid
<1> HIDE DEF end
<1>5. Len(ls) \in Nat /\ Len(mid) \in Nat /\ Len(end) \in Nat
  BY <1>2, <1>3
<1>. QED  BY <1>2, <1>3, <1>4, <1>5

(* After a settlement both outputs are leaves.                             *)
LEMMA OutputsInserted ==
  ASSUME NEW ls \in Seq(Notes), NEW s, SpendTypeOK(s)
  PROVE  {s.outCm1, s.outCm2} \subseteq Leaves(InsertOutputs(ls, s))
<1> DEFINE mid == InsertIfNew(ls, s.outCm1)
           end == InsertIfNew(mid, s.outCm2)
<1>1. s.outCm1 \in Notes /\ s.outCm2 \in Notes
  BY DEF SpendTypeOK
<1>2. ASSUME NEW qs \in Seq(Notes), NEW cm \in Notes
      PROVE  /\ InsertIfNew(qs, cm) \in Seq(Notes) /\ cm \in Leaves(InsertIfNew(qs, cm))
             /\ Leaves(qs) \subseteq Leaves(InsertIfNew(qs, cm))
  BY InsertIfNewType, LeavesAppended DEF InsertIfNew
<1>3. mid \in Seq(Notes) /\ s.outCm1 \in Leaves(mid)
  BY <1>1, <1>2
<1> HIDE DEF mid
<1>4. s.outCm2 \in Leaves(end) /\ Leaves(mid) \subseteq Leaves(end)
  BY <1>1, <1>2, <1>3
<1>. QED  BY <1>3, <1>4 DEF InsertOutputs, mid

(* What the tools know stays so while the chain moves: room that is gone   *)
(* has taken leaves, and receipts are not withdrawn.                       *)
LEMMA ToolsKept ==
  ASSUME SubmitInv, TypeOK', leaves' = leaves \/ Len(leaves') > Len(leaves),
         UNCHANGED <<mempool, tool>>, receipts \subseteq receipts',
         \A p \in Tools : /\ tool[p].phase \in Following
                          /\ tool[p].seen = Len(leaves)
                          /\ leaves' = leaves
                          => FALSE \notin StatusOf(tool[p].tx)'
  PROVE  ToolRecords' /\ EnvelopesInv' /\ SeenInv' /\ ReportsInv'
<1>1. ToolRecords' /\ EnvelopesInv'
  BY DEF SubmitInv, ToolRecords, EnvelopesInv, ToolEnvelope
<1>2. ReportsInv'
  BY DEF SubmitInv, ReportsInv, StatusOf
<1>3. SeenInv'
  <2> DEFINE Sees(p, ls, status) ==
               /\ tool[p].seen \in 0 .. Len(ls)
               /\ tool[p].seen = Len(ls) =>
                    /\ Len(InsertOutputs(ls, SpendIn(tool[p].tx))) <= Capacity
                    /\ FALSE \notin status
  <2>1. ASSUME NEW p \in Tools, tool[p].phase \in Following
        PROVE  Sees(p, leaves', StatusOf(tool[p].tx)')
    <3>1. Sees(p, leaves, StatusOf(tool[p].tx))
      BY <2>1 DEF SubmitInv, SeenInv, TreeHasRoom
    <3>2. Len(leaves) \in Nat /\ Len(leaves') \in Nat
      BY DEF SubmitInv, IInv, TypeOK
    <3>3. CASE leaves' = leaves
      <4>1. tool[p].seen = Len(leaves) => FALSE \notin StatusOf(tool[p].tx)'
        BY <2>1, <3>3
      <4>. QED  BY <3>1, <3>3, <4>1
    <3>4. CASE Len(leaves') > Len(leaves)
      <4> DEFINE seen == tool[p].seen
                 now == Len(leaves')
      <4>1. seen \in 0 .. Len(leaves) /\ now \in Nat /\ now > Len(leaves)
        BY <3>1, <3>2, <3>4
      <4> HIDE DEF seen, now
      <4>2. seen \in 0 .. now /\ seen # now
        BY <3>2, <4>1
      <4>. QED  BY <4>2 DEF seen, now
    <3>. QED  BY <3>3, <3>4
  <2>. QED
    BY <2>1 DEF SeenInv, TreeHasRoom, StatusOf, SpendIn, SettleFrame, LastFrame
<1>. QED  BY <1>1, <1>2, <1>3

(* A receipt stays true as long as no nullifier is un-consumed or spent    *)
(* and no leaf goes.                                                       *)
LEMMA ReceiptsKept ==
  ASSUME SubmitInv, UNCHANGED <<receipts, noteSpent>>,
         \A k \in Nullifiers : nonceSeq[k] > 0 => nonceSeq'[k] > 0,
         Leaves(leaves) \subseteq Leaves(leaves')
  PROVE  ReceiptsInv' /\ OneOutcome'
BY DEF SubmitInv, ReceiptsInv, OneOutcome, PoolReceipts, SpendIn, SettleFrame, LastFrame

(* What is included was built from a request, by a tool or by a wallet.    *)
LEMMA IncludedBuilt ==
  ASSUME SubmitInv, Include
  PROVE  \E r \in RequestRecords : \E ref : Validate(BuildTx(r, ref))
<1>1. CASE \E tx \in mempool : Validate(tx)
  <2>1. PICK tx \in mempool : Validate(tx)
    BY <1>1
  <2>2. PICK p \in Tools : tx = BuildTx(Job[p], tx.refs[1])
    BY <2>1 DEF SubmitInv, EnvelopesInv, ToolEnvelope
  <2>. QED  BY <2>1, <2>2, ToolsAssumption
<1>2. CASE \E r \in Requests : \E tx \in TxsOf(r) : Validate(tx)
  <2>1. PICK r \in Requests : \E tx \in TxsOf(r) : Validate(tx)
    BY <1>2
  <2>2. PICK tx \in TxsOf(r) : Validate(tx)
    BY <2>1
  <2>. QED  BY <2>2, RequestsAssumption DEF TxsOf
<1>. QED  BY <1>1, <1>2 DEF Include

(* An inclusion: the pool's invariant holds for the mempool's envelopes as *)
(* for any other, and what is included shares no nullifier with a receipt, *)
(* whose nullifiers are past the sequence number the dispatcher wants.     *)
LEMMA IncludeKeeps ==
  ASSUME SubmitInv, Include
  PROVE  SubmitInv'
<1>1. PICK r \in RequestRecords : \E ref : Validate(BuildTx(r, ref))
  BY IncludedBuilt
<1>2. PICK ref : Validate(BuildTx(r, ref))
  BY <1>1
<1> DEFINE tx == BuildTx(r, ref)
<1>3. tx = BuildTx(r, ref) /\ Validate(tx)
  BY <1>2
<1> HIDE DEF tx
<1>4. /\ UNCHANGED <<leaves, noteSpent, mempool, receipts, tool>>
      /\ NoncesCurrent(tx) /\ SenderApproves(tx) /\ ConsumeKeys(tx)
      /\ exec'.tx = tx /\ tx.keys \subseteq Nullifiers
  BY <1>3, BuiltTx DEF Include, Validate, storage
<1>5. IInv' /\ TypeOK /\ TypeOK'
  BY <1>3, InvValidate, TypeValidate DEF SubmitInv, IInv
<1>6. \A k \in Nullifiers : nonceSeq[k] > 0 => nonceSeq'[k] > 0
  BY <1>4, <1>5 DEF ConsumeKeys, TypeOK
<1>7. ReceiptsInv' /\ OneOutcome'
  BY <1>4, <1>6, ReceiptsKept
<1>8. NoReceiptYet'
  <2> SUFFICES ASSUME tx.sender = Pool, NEW old \in PoolReceipts
               PROVE  old.tx.keys \cap tx.keys = {}
    BY <1>4 DEF NoReceiptYet, SpendRunning, PoolReceipts
  <2>1. \A k \in tx.keys : nonceSeq[k] = 0
    BY <1>4 DEF SenderApproves, DispatcherApproves, DispatcherKeys, NoncesCurrent
  <2>2. \A k \in old.tx.keys : nonceSeq[k] > 0
    BY DEF SubmitInv, ReceiptsInv
  <2>. QED  BY <2>1, <2>2
<1>9. ToolRecords' /\ EnvelopesInv' /\ SeenInv' /\ ReportsInv'
  <2>1. \A p \in Tools : StatusOf(tool[p].tx)' = StatusOf(tool[p].tx)
    BY <1>4 DEF StatusOf
  <2>. QED  BY <1>4, <1>5, <2>1, ToolsKept DEF SubmitInv, SeenInv
<1>. QED  BY <1>5, <1>7, <1>8, <1>9 DEF SubmitInv

(* Deposits, slots and claims touch no nullifier and no envelope. *)
LEMMA ChainKeeps ==
  ASSUME SubmitInv, ChainMoves
  PROVE  SubmitInv'
<1>1. /\ UNCHANGED <<mempool, receipts, tool>> /\ AnyStep
      /\ UNCHANGED <<noteSpent, nonceSeq, exec>> /\ Idle
  BY DepositsAssumption
     DEF ChainMoves, AnyStep, Shield, AdvanceSlot, ClaimWithdrawal, ClaimFee, storage
<1>2. IInv' /\ TypeOK /\ TypeOK'
  BY <1>1, InvStep DEF SubmitInv, IInv
<1>3. /\ leaves' = leaves \/ Len(leaves') > Len(leaves)
      /\ Leaves(leaves) \subseteq Leaves(leaves')
  <2>1. CASE leaves' = leaves
    BY <2>1
  <2>2. ASSUME NEW i \in Inners, NEW v \in ShieldValues, Shield(i, v)
        PROVE  Len(leaves') > Len(leaves) /\ Leaves(leaves) \subseteq Leaves(leaves')
    <3> DEFINE cm == [inner |-> i, value |-> v]
    <3>1. leaves' = Append(leaves, cm) /\ leaves \in Seq(Notes) /\ cm \in Notes
      BY <1>2, <2>2, DepositsAssumption DEF Shield, TypeOK, Notes
    <3> HIDE DEF cm
    <3>2. Leaves(leaves') = Leaves(leaves) \cup {cm}
      BY <3>1, LeavesAppended
    <3>. QED  BY <3>1, <3>2
  <2>. QED
    BY <2>1, <2>2 DEF ChainMoves, AdvanceSlot, ClaimWithdrawal, ClaimFee, storage
<1>4. ReceiptsInv' /\ OneOutcome'
  BY <1>1, <1>3, ReceiptsKept
<1>5. NoReceiptYet'
  BY <1>1 DEF NoReceiptYet, SpendRunning, Idle
<1>6. ToolRecords' /\ EnvelopesInv' /\ SeenInv' /\ ReportsInv'
  <2>1. \A p \in Tools : StatusOf(tool[p].tx)' = StatusOf(tool[p].tx)
    BY <1>1 DEF StatusOf
  <2>. QED  BY <1>1, <1>2, <1>3, <2>1, ToolsKept DEF SubmitInv, SeenInv
<1>. QED  BY <1>2, <1>4, <1>5, <1>6 DEF SubmitInv

(* The end of a transaction: it writes the one receipt its nullifiers ever *)
(* get.  An approved spend that reverts does so for want of room.          *)
LEMMA ExecuteKeeps ==
  ASSUME SubmitInv, Execute
  PROVE  SubmitInv'
<1> DEFINE tx == exec.tx
           s == SpendIn(tx)
<1>1. PICK settled \in BOOLEAN :
        /\ receipts' = receipts \cup {[tx |-> tx, settled |-> settled]}
        /\ settled => SettleSuccess
        /\ ~settled => SettleRevert
  BY DEF Execute, Receipt
<1> DEFINE new == [tx |-> tx, settled |-> settled]
<1>2. /\ ~Idle /\ exec' = NoTx /\ AnyStep
      /\ UNCHANGED <<nonceSeq, mempool, tool>>
  BY <1>1 DEF Execute, SettleSuccess, SettleRevert, storage, AnyStep
<1>3. IInv' /\ IInv /\ TypeOK /\ TypeOK'
  BY <1>2, InvStep DEF SubmitInv, IInv
<1>4. settled => SpendRunning
  BY <1>1, <1>2 DEF SettleSuccess, SettleSucceeds, SettlementAccepts, SettlementCaller, SpendRunning
<1>5. SpendTypeOK(s) /\ leaves \in Seq(Notes) /\ SpendInFlight = s
  BY <1>2, <1>3 DEF TypeOK, ExecTypeOK, SpendInFlight, SpendIn
<1>6. settled => /\ leaves' = InsertOutputs(leaves, s)
                 /\ noteSpent' = [n \in Nullifiers |->
                                    noteSpent[n] + (IF n = s.nf1 THEN 1 ELSE 0)
                                                 + (IF n = s.nf2 THEN 1 ELSE 0)]
  BY <1>1, <1>5 DEF SettleSuccess, TransferOrWithdraw, Settle, SpendIn
<1>7. ~settled => UNCHANGED <<leaves, noteSpent>>
  BY <1>1 DEF SettleRevert, storage
<1>8. /\ leaves' = leaves \/ Len(leaves') > Len(leaves)
      /\ Leaves(leaves) \subseteq Leaves(leaves')
  BY <1>5, <1>6, <1>7, InsertOutputsGrows, InsertOutputsType
<1>9. SpendRunning => /\ tx.sender = Pool /\ tx.keys = {s.nf1, s.nf2}
                      /\ DispatcherApproves(tx, 1)
                      /\ \A k \in tx.keys : /\ k \in Nullifiers /\ noteSpent[k] = 0
                                            /\ nonceSeq[k] > 0
  BY <1>3, <1>5 DEF SpendRunning, IInv, RunningInv, DispatcherApproves, DispatcherKeys,
                    SpendTypeOK, SpendIn
<1>10. SpendRunning => \A k \in tx.keys : noteSpent'[k] = IF settled THEN 1 ELSE 0
  <2> SUFFICES ASSUME SpendRunning, NEW k \in tx.keys
               PROVE  noteSpent'[k] = IF settled THEN 1 ELSE 0
    OBVIOUS
  <2>1. k \in Nullifiers /\ k \in {s.nf1, s.nf2} /\ noteSpent[k] = 0
    BY <1>9
  <2>2. CASE settled
    <3>1. noteSpent'[k] > 0
      BY <1>6, <2>1, <2>2
    <3>. QED  BY <1>3, <2>1, <2>2, <3>1 DEF IInv, SpentInv
  <2>3. CASE ~settled
    BY <1>7, <2>1, <2>3
  <2>. QED  BY <2>2, <2>3
<1>11. \A k \in Nullifiers : k \notin tx.keys => noteSpent'[k] = noteSpent[k]
  <2>1. CASE settled
    BY <1>3, <1>4, <1>6, <1>9, <2>1 DEF TypeOK
  <2>2. CASE ~settled
    BY <1>7, <2>2
  <2>. QED  BY <2>1, <2>2
<1>12. settled => {s.outCm1, s.outCm2} \subseteq Leaves(leaves')
  BY <1>5, <1>6, OutputsInserted
<1>13. SpendRunning => \A r \in PoolReceipts : r.tx.keys \cap tx.keys = {}
  BY DEF SubmitInv, NoReceiptYet
<1>14. /\ PoolReceipts' = PoolReceipts \cup {r \in {new} : tx.sender = Pool}
       /\ tx.sender = Pool => SpendRunning
  BY <1>1, <1>2 DEF PoolReceipts, SpendRunning
<1>15. ReceiptsInv'
  <2>1. ASSUME NEW r \in PoolReceipts
        PROVE  /\ r.settled \in BOOLEAN
               /\ r.tx.keys = {SpendIn(r.tx).nf1, SpendIn(r.tx).nf2}
               /\ \A k \in r.tx.keys : /\ k \in Nullifiers /\ nonceSeq'[k] > 0
                                       /\ noteSpent'[k] = IF r.settled THEN 1 ELSE 0
               /\ r.settled => {SpendIn(r.tx).outCm1, SpendIn(r.tx).outCm2}
                               \subseteq Leaves(leaves')
    <3>1. \A k \in r.tx.keys : noteSpent'[k] = noteSpent[k]
      <4>1. \A k \in r.tx.keys : k \in Nullifiers
        BY DEF SubmitInv, ReceiptsInv
      <4>2. CASE SpendRunning
        BY <1>11, <1>13, <4>1, <4>2
      <4>3. CASE ~SpendRunning
        BY <1>4, <1>7, <4>3
      <4>. QED  BY <4>2, <4>3
    <3>. QED  BY <1>2, <1>8, <3>1 DEF SubmitInv, ReceiptsInv
  <2>2. ASSUME tx.sender = Pool
        PROVE  /\ new.settled \in BOOLEAN
               /\ new.tx.keys = {SpendIn(new.tx).nf1, SpendIn(new.tx).nf2}
               /\ \A k \in new.tx.keys : /\ k \in Nullifiers /\ nonceSeq'[k] > 0
                                         /\ noteSpent'[k] = IF new.settled THEN 1 ELSE 0
               /\ new.settled => {SpendIn(new.tx).outCm1, SpendIn(new.tx).outCm2}
                                 \subseteq Leaves(leaves')
    BY <1>2, <1>9, <1>10, <1>12, <1>14, <2>2
  <2> HIDE DEF new
  <2>. QED
    BY <1>14, <2>1, <2>2 DEF ReceiptsInv, SpendIn, SettleFrame, LastFrame
<1>16. OneOutcome'
  <2> SUFFICES ASSUME NEW q \in PoolReceipts', NEW r \in PoolReceipts',
                      q.tx.keys \cap r.tx.keys # {}
               PROVE  q = r
    BY DEF OneOutcome, PoolReceipts
  <2>1. CASE q \in PoolReceipts /\ r \in PoolReceipts
    BY <2>1 DEF SubmitInv, OneOutcome, PoolReceipts
  <2>2. CASE q \in PoolReceipts /\ r \notin PoolReceipts
    BY <1>13, <1>14, <2>2
  <2>3. CASE q \notin PoolReceipts /\ r \in PoolReceipts
    BY <1>13, <1>14, <2>3
  <2>. QED  BY <1>14, <2>1, <2>2, <2>3
<1>17. NoReceiptYet'
  BY <1>2 DEF NoReceiptYet, SpendRunning, Idle
<1>18. ToolRecords' /\ EnvelopesInv' /\ SeenInv' /\ ReportsInv'
  <2>1. ASSUME NEW p \in Tools, tool[p].phase \in Following, tool[p].seen = Len(leaves),
               leaves' = leaves
        PROVE  FALSE \notin StatusOf(tool[p].tx)'
    <3>1. TreeHasRoom(SpendIn(tool[p].tx)) /\ FALSE \notin StatusOf(tool[p].tx)
      BY <2>1 DEF SubmitInv, SeenInv
    <3>2. ASSUME ~settled, tx = tool[p].tx PROVE FALSE
      <4>1. tx.sender = Pool
        BY <2>1, <3>2, EnvelopeSender
      <4>2. DispatcherApproves(tx, 1) /\ exec.payer \in Accounts
        BY <1>2, <1>3, <1>9, <1>14, <4>1 DEF TypeOK, ExecTypeOK
      <4>3. SettleSucceeds
        BY <1>5, <3>1, <3>2, <4>2, ApprovedSettles DEF SettleSucceeds
      <4>. QED  BY <1>1, <3>2, <4>3 DEF SettleRevert
    <3>3. ASSUME NEW r \in receipts', r.tx = tool[p].tx PROVE r.settled # FALSE
      <4>1. CASE r \in receipts
        BY <3>1, <3>3, <4>1 DEF StatusOf
      <4>2. CASE r = new
        <5>1. r.tx = tx /\ r.settled = settled
          BY <4>2
        <5>. QED  BY <3>2, <3>3, <5>1
      <4>. QED  BY <1>1, <4>1, <4>2
    <3>. QED  BY <1>2, <3>3 DEF StatusOf
  <2>2. receipts \subseteq receipts'
    BY <1>1
  <2>. QED  BY <1>2, <1>3, <1>8, <2>1, <2>2, ToolsKept
<1>. QED  BY <1>3, <1>15, <1>16, <1>17, <1>18 DEF SubmitInv

-----------------------------------------------------------------------------
(* Theorems *)

(* Before the first run the invariant holds.                               *)
LEMMA SubmitStart == SubmitInit => SubmitInv
<1> SUFFICES ASSUME SubmitInit PROVE SubmitInv
  OBVIOUS
<1>1. IInv /\ Idle
  BY InvInit DEF SubmitInit, Init, Idle
<1>2. /\ mempool = {} /\ receipts = {} /\ tool = [p \in Tools |-> NewRun("setup", 1)]
  BY DEF SubmitInit
<1>3. ToolRecords /\ \A p \in Tools : tool[p].phase = "setup"
  BY <1>2 DEF ToolRecords, NewRun
<1>4. EnvelopesInv /\ SeenInv /\ ReportsInv
  BY <1>2, <1>3 DEF EnvelopesInv, SeenInv, ReportsInv, Following
<1>5. ReceiptsInv /\ OneOutcome /\ NoReceiptYet
  BY <1>1, <1>2 DEF ReceiptsInv, OneOutcome, NoReceiptYet, PoolReceipts
<1>. QED  BY <1>1, <1>3, <1>4, <1>5 DEF SubmitInv

(* Every step of tool, mempool and chain keeps it.                         *)
LEMMA SubmitKeeps == SubmitInv /\ [SubmitNext]_svars => SubmitInv'
<1> SUFFICES ASSUME SubmitInv, [SubmitNext]_svars PROVE SubmitInv'
  OBVIOUS
<1>1. CASE SubmitNext
  BY <1>1, IncludeKeeps, ExecuteKeeps, ChainKeeps, ToolKeeps DEF SubmitNext
<1>2. CASE UNCHANGED svars
  <2>1. UNCHANGED <<vars, mempool, receipts, tool>>
    BY <1>2 DEF svars
  <2>2. IInv' /\ TypeOK'
    BY <2>1, InvStep DEF SubmitInv, IInv
  <2>3. UNCHANGED <<leaves, nonceSeq, noteSpent, exec>>
    BY <2>1 DEF vars, storage
  <2>4. ReceiptsInv' /\ OneOutcome'
    BY <2>1, <2>3, ReceiptsKept
  <2>5. NoReceiptYet'
    BY <2>1, <2>3 DEF SubmitInv, NoReceiptYet, PoolReceipts, SpendRunning, Idle
  <2>6. ToolRecords' /\ EnvelopesInv' /\ SeenInv' /\ ReportsInv'
    <3>1. \A p \in Tools : StatusOf(tool[p].tx)' = StatusOf(tool[p].tx)
      BY <2>1 DEF StatusOf
    <3>. QED  BY <2>1, <2>2, <2>3, <3>1, ToolsKept DEF SubmitInv, SeenInv
  <2>. QED  BY <2>2, <2>4, <2>5, <2>6 DEF SubmitInv
<1>. QED  BY <1>1, <1>2

(* So it always holds.                                                     *)
LEMMA SubmitInvariance == SubmitSpec => []SubmitInv
BY SubmitStart, SubmitKeeps, PTL DEF SubmitSpec

(* However many tools run, how often they are run again, whatever answers  *)
(* they lose and whoever else replays or competes: of all envelopes that   *)
(* consume a nullifier of the pool, one is included at most.               *)
THEOREM NullifierHasOneOutcome == SubmitSpec => []OneOutcome
<1>1. SubmitInv => OneOutcome
  BY DEF SubmitInv
<1>. QED  BY <1>1, SubmitInvariance, PTL

(* What pool_frametx.py prints at the end of a run is what the chain did.  *)
THEOREM ReportsAreTrue == SubmitSpec => []ReportTruthful
<1>1. SubmitInv => ReportTruthful
  <2> SUFFICES ASSUME SubmitInv, NEW p \in Tools
               PROVE  LET s == SpendIn(tool[p].tx)
                      IN  /\ tool[p].phase = "mined" =>
                               /\ noteSpent[s.nf1] = 1 /\ noteSpent[s.nf2] = 1
                               /\ {s.outCm1, s.outCm2} \subseteq Leaves(leaves)
                          /\ tool[p].phase = "reverted" => {s.nf1, s.nf2} \subseteq Burned
    BY DEF ReportTruthful, SpendIn
  <2> DEFINE tx == tool[p].tx
             s == SpendIn(tx)
  <2>1. ASSUME NEW b \in StatusOf(tx), tool[p].phase \in Following
        PROVE  /\ \A k \in {s.nf1, s.nf2} : /\ k \in Nullifiers /\ nonceSeq[k] > 0
                                            /\ noteSpent[k] = IF b THEN 1 ELSE 0
               /\ b => {s.outCm1, s.outCm2} \subseteq Leaves(leaves)
    <3>1. PICK r \in receipts : r.tx = tx /\ r.settled = b
      BY <2>1 DEF StatusOf
    <3>2. tx.sender = Pool
      BY <2>1, EnvelopeSender
    <3>3. r \in PoolReceipts
      BY <3>1, <3>2 DEF PoolReceipts
    <3>. QED  BY <3>1, <3>3 DEF SubmitInv, ReceiptsInv
  <2>2. CASE tool[p].phase = "mined"
    BY <2>1, <2>2 DEF SubmitInv, ReportsInv, Following
  <2>3. CASE tool[p].phase = "reverted"
    BY <2>1, <2>3 DEF SubmitInv, ReportsInv, Following, Burned
  <2>. QED  BY <2>2, <2>3
<1>. QED  BY <1>1, SubmitInvariance, PTL

(* The simulation gate works: a spend it let through is burned only when   *)
(* leaves were added between the simulation and the execution.             *)
THEOREM BurnsAreRaces == SubmitSpec => []BurnsOnlyIfRaced
<1>1. SubmitInv => BurnsOnlyIfRaced
  <2> SUFFICES ASSUME SubmitInv, NEW p \in Tools, tool[p].phase = "reverted"
               PROVE  tool[p].seen < Len(leaves)
    BY DEF BurnsOnlyIfRaced
  <2>1. FALSE \in StatusOf(tool[p].tx)
    BY DEF SubmitInv, ReportsInv
  <2>2. tool[p].seen \in 0 .. Len(leaves) /\ tool[p].seen # Len(leaves)
    BY <2>1 DEF SubmitInv, SeenInv, Following
  <2>3. Len(leaves) \in Nat
    BY DEF SubmitInv, IInv, TypeOK
  <2>. QED  BY <2>2, <2>3
<1>. QED  BY <1>1, SubmitInvariance, PTL

-----------------------------------------------------------------------------
(* CommandLine: the inductive invariant.  The chain carries at most one    *)
(* transaction of the pool, the tool's, and is before it, between its      *)
(* validation and its settlement, or after it.                             *)

Zero(f) == \A k \in Nullifiers : f[k] = 0
Consumed(f) == \A k \in Nullifiers : f[k] = IF k \in raw.keys THEN 1 ELSE 0

LineTypes ==
  /\ leaves \in Seq(Notes)
  /\ noteSpent \in [Nullifiers -> Nat] /\ nonceSeq \in [Nullifiers -> Nat]

RawRuns == raw # NoTx /\ exec = [payer |-> PayerOf(raw), tx |-> raw]

BeforeSpend ==
  /\ Zero(nonceSeq) /\ Zero(noteSpent)
  /\ op # "shield" => Len(leaves) = 1
  /\ ~Idle => RawRuns /\ raw.sender # Pool

DuringSpend ==
  /\ RawRuns /\ PayerOf(raw) \in Accounts /\ DispatcherApproves(raw, 1)
  /\ Consumed(nonceSeq) /\ Zero(noteSpent) /\ Len(leaves) = 1

AfterSpend ==
  /\ Idle /\ raw # NoTx /\ DispatcherApproves(raw, 1)
  /\ Consumed(nonceSeq) /\ Consumed(noteSpent)

LineInv ==
  /\ LineTypes
  /\ verdict = "typed" => /\ raw = NoTx
                          /\ IF op = "shield" THEN Idle ELSE Deposited
  /\ raw # NoTx => op # "shield" /\ SpendTypeOK(SettleFrame(raw).call.spend)
  /\ BeforeSpend \/ DuringSpend \/ AfterSpend

(* the spend of the entry the line selects, over the tree of a reference *)
FixtureSpend(ref) == SpendOf(Spends[EntryKey], ref.root)

(* What the tool builds, when it gets that far: the envelope of one of the *)
(* fixture's spends over a committed reference.                            *)
LEMMA EnvelopeBuilt ==
  ASSUME EntryKey \in DOMAIN Spends, References # {}
  PROVE  \E ref \in References :
           /\ Envelope = EnvelopeOver(ref)
           /\ SpendTypeOK(FixtureSpend(ref)) /\ Call(FixtureSpend(ref)).spend = FixtureSpend(ref)
           /\ SettleFrame(Envelope)
                = Frame(Pool, SENDER, 0, SettleGas, 0, Call(FixtureSpend(ref)))
<1> DEFINE ref == CHOOSE e \in References : TRUE
<1>1. ref \in References
  OBVIOUS
<1>2. Envelope = EnvelopeOver(ref)
  BY DEF Envelope
<1> HIDE DEF ref
<1>3. SpendTypeOK(FixtureSpend(ref))
  BY CommandLineAssumption, BuiltTx DEF FixtureSpend
<1>4. \A s : Call(s).spend = s
  BY DEF Call
<1>5. SettleFrame(EnvelopeOver(ref))
        = Frame(Pool, SENDER, 0, SettleGas, 0, Call(FixtureSpend(ref)))
  <2> DEFINE s == FixtureSpend(ref)
             settle == Frame(Pool, SENDER, 0, SettleGas, 0, Call(s))
             alone == Frame(Sender, VERIFY, 3, 350000, 0, NoCall)
             verify == Frame(Sender, VERIFY, 2, 300000, 0, NoCall)
             pay == Frame(AddressOf[PaymasterWord], VERIFY, 1, 100000, 0,
                          [op |-> "verifyProofOnly", spend |-> s])
  <2>1. EnvelopeOver(ref).frames = IF PaymasterWord = Empty THEN <<alone, settle>>
                                   ELSE <<verify, pay, settle>>
    BY DEF EnvelopeOver, FixtureSpend
  <2> HIDE DEF settle, alone, verify, pay
  <2>2. SettleFrame(EnvelopeOver(ref)) = settle
    BY <2>1 DEF SettleFrame, LastFrame
  <2>. QED  BY <2>2 DEF settle
<1>. QED  BY <1>1, <1>2, <1>3, <1>4, <1>5

(* A chain on which nothing has been consumed yet is before the spend.     *)
LEMMA LineStart == CommandLineInit => LineInv
<1> SUFFICES ASSUME CommandLineInit PROVE LineInv
  OBVIOUS
<1>1. verdict = "typed" /\ raw = NoTx /\ exec = NoTx
  BY DEF CommandLineInit, Init, Deposited
<1>2. noteSpent = [n \in Nullifiers |-> 0] /\ nonceSeq = [n \in Nullifiers |-> 0]
  BY DEF CommandLineInit, Init, Deposited
<1>3. IF op = "shield" THEN leaves = <<>> ELSE Deposited /\ leaves = <<ToShield>>
  BY DEF CommandLineInit, Init, Deposited
<1>4. Zero(nonceSeq) /\ Zero(noteSpent)
  BY <1>2 DEF Zero
<1>5. LineTypes
  <2>1. leaves = <<>> \/ leaves = <<ToShield>>
    BY <1>3
  <2>2. <<>> \in Seq(Notes) /\ <<ToShield>> \in Seq(Notes)
    BY CommandLineAssumption
  <2>3. noteSpent \in [Nullifiers -> Nat] /\ nonceSeq \in [Nullifiers -> Nat]
    BY <1>2
  <2>. QED  BY <2>1, <2>2, <2>3 DEF LineTypes
<1>6. BeforeSpend
  <2>1. op # "shield" => Len(leaves) = 1
    BY <1>3
  <2>. QED  BY <1>1, <1>4, <2>1 DEF BeforeSpend, Idle
<1>7. IF op = "shield" THEN Idle ELSE Deposited
  BY <1>1, <1>3 DEF Idle
<1>. QED  BY <1>1, <1>5, <1>6, <1>7 DEF LineInv

(* The tool's run changes nothing on the chain.                            *)
LEMMA RunKeeps ==
  ASSUME LineInv, RunTool
  PROVE  LineInv'
<1>1. /\ verdict = "typed" /\ verdict' # "typed" /\ raw = NoTx
      /\ UNCHANGED <<leaves, noteSpent, nonceSeq, exec, op>>
  <2>1. verdict' \in {"exit", "dry", "sent", "refused"}
    BY DEF RunTool
  <2>2. verdict' # "typed"
    BY <2>1
  <2>. QED  BY <2>2 DEF RunTool, LineInv, vars, storage
<1>2. ASSUME raw' # NoTx
      PROVE  op # "shield" /\ SpendTypeOK(SettleFrame(raw').call.spend)
  <2>1. ~Exits /\ op # "shield" /\ raw' = Envelope
    BY <1>1, <1>2 DEF RunTool
  <2>2. EntryKey \in DOMAIN Spends /\ References # {}
    BY <2>1 DEF Exits
  <2>3. PICK ref \in References :
          /\ SpendTypeOK(FixtureSpend(ref)) /\ Call(FixtureSpend(ref)).spend = FixtureSpend(ref)
          /\ SettleFrame(Envelope)
               = Frame(Pool, SENDER, 0, SettleGas, 0, Call(FixtureSpend(ref)))
    BY <2>2, EnvelopeBuilt
  <2>4. SettleFrame(raw').call = Call(FixtureSpend(ref))
    BY <2>1, <2>3 DEF Frame
  <2>. QED  BY <2>1, <2>3, <2>4
<1>3. Idle
  BY <1>1 DEF LineInv, Deposited, Idle
<1>4. BeforeSpend /\ Idle'
  <2>1. ~DuringSpend /\ ~AfterSpend
    BY <1>1 DEF DuringSpend, AfterSpend, RawRuns
  <2>. QED  BY <1>1, <1>3, <2>1 DEF LineInv, Idle
<1>5. BeforeSpend'
  BY <1>1, <1>4 DEF BeforeSpend, Zero
<1>6. LineTypes'
  BY <1>1 DEF LineInv, LineTypes
<1>7. (raw # NoTx => op # "shield" /\ SpendTypeOK(SettleFrame(raw).call.spend))'
  BY <1>1, <1>2 DEF SettleFrame, LastFrame
<1>. QED  BY <1>1, <1>5, <1>6, <1>7 DEF LineInv

(* An account pays for whatever the node admits for the pool.              *)
LEMMA AdmittedPayer ==
  ASSUME NEW tx, Admitted(tx), tx.sender = Pool
  PROVE  PayerOf(tx) \in Accounts
<1>1. /\ DispatcherApproves(tx, 1)
      /\ Len(tx.frames) = 3 => PayerOf(tx) \in {Paymaster, Patron}
  BY DEF Admitted
<1>2. Len(tx.frames) \in {2, 3} /\ tx.frames[1].target = Pool
  BY <1>1 DEF DispatcherApproves, DispatcherVerifyFrames
<1>3. Len(tx.frames) = 2 => PayerOf(tx) = Pool
  BY <1>2 DEF PayerOf, LastFrame
<1>. QED  BY <1>1, <1>2, <1>3, AccountsAssumption, PayersAssumption

(* What is included is the tool's envelope.  The pool's is included once,  *)
(* its keys being at sequence number 0 then and at 1 afterwards.           *)
LEMMA IncludeRawKeeps ==
  ASSUME LineInv, IncludeRaw
  PROVE  LineInv'
<1>1. /\ raw # NoTx /\ Admitted(raw) /\ Idle
      /\ NoncesCurrent(raw) /\ ConsumeKeys(raw)
      /\ exec' = [payer |-> PayerOf(raw), tx |-> raw]
      /\ UNCHANGED <<leaves, noteSpent, op, verdict, raw>>
  BY DEF IncludeRaw, Validate, storage
<1>2. verdict # "typed" /\ op # "shield" /\ SpendTypeOK(SettleFrame(raw).call.spend)
  BY <1>1 DEF LineInv
<1>3. RawRuns'
  BY <1>1 DEF RawRuns, PayerOf, LastFrame
<1>4. CASE raw.sender # Pool
  <2>1. nonceSeq' = nonceSeq
    BY <1>1, <1>4 DEF ConsumeKeys
  <2>2. LineTypes'
    BY <1>1, <2>1 DEF LineInv, LineTypes
  <2>3. ASSUME AfterSpend PROVE FALSE
    BY <1>4, <2>3 DEF AfterSpend, DispatcherApproves
  <2>4. BeforeSpend
    BY <1>1, <1>4, <2>3 DEF LineInv, DuringSpend, DispatcherApproves
  <2>5. BeforeSpend'
    BY <1>1, <1>3, <1>4, <2>1, <2>4 DEF BeforeSpend, Zero
  <2>. QED  BY <1>1, <1>2, <2>2, <2>5 DEF LineInv
<1>5. CASE raw.sender = Pool
  <2> DEFINE s == SettleFrame(raw).call.spend
  <2>1. /\ DispatcherApproves(raw, 1) /\ PayerOf(raw) \in Accounts
        /\ raw.keys = {s.nf1, s.nf2} /\ raw.nonceSeq = 0
        /\ s.nf1 \in Nullifiers /\ s.nf2 \in Nullifiers
    BY <1>1, <1>2, <1>5, AdmittedPayer
       DEF Admitted, DispatcherApproves, DispatcherKeys, SpendTypeOK
  <2>2. nonceSeq[s.nf1] = 0
    BY <1>1, <1>5, <2>1 DEF NoncesCurrent
  <2>3. BeforeSpend
    <3>1. ~Consumed(nonceSeq)
      BY <2>1, <2>2 DEF Consumed
    <3>. QED  BY <3>1 DEF LineInv, DuringSpend, AfterSpend
  <2>4. /\ nonceSeq' \in [Nullifiers -> Nat]
        /\ \A k \in Nullifiers : nonceSeq'[k] = IF k \in raw.keys THEN 1 ELSE 0
    <3>1. nonceSeq' = [k \in Nullifiers |->
                         IF k \in raw.keys THEN nonceSeq[k] + 1 ELSE nonceSeq[k]]
      BY <1>1, <1>5 DEF ConsumeKeys
    <3>. QED  BY <2>3, <3>1 DEF BeforeSpend, Zero
  <2>5. LineTypes'
    BY <1>1, <2>4 DEF LineInv, LineTypes
  <2>6. DuringSpend'
    <3>1. (PayerOf(raw) \in Accounts /\ DispatcherApproves(raw, 1))'
      BY <1>1, <2>1
    <3>2. (Consumed(nonceSeq) /\ Zero(noteSpent))'
      BY <1>1, <2>3, <2>4 DEF BeforeSpend, Consumed, Zero
    <3>3. Len(leaves') = 1
      BY <1>1, <1>2, <2>3 DEF BeforeSpend
    <3>. QED  BY <1>3, <3>1, <3>2, <3>3 DEF DuringSpend
  <2>. QED  BY <1>1, <1>2, <2>5, <2>6 DEF LineInv
<1>. QED  BY <1>4, <1>5

(* A deposit is all that a line of "shield" leads to.                      *)
LEMMA ShieldKeeps ==
  ASSUME LineInv, IncludeShield
  PROVE  LineInv'
<1> DEFINE cm == [inner |-> ToShield.inner, value |-> ToShield.value]
<1>1. /\ op = "shield" /\ verdict = "sent" /\ Idle /\ leaves' = Append(leaves, cm)
      /\ UNCHANGED <<noteSpent, nonceSeq, exec, op, verdict, raw>>
  BY DEF IncludeShield, Shield
<1>2. raw = NoTx /\ BeforeSpend
  BY <1>1 DEF LineInv, DuringSpend, AfterSpend, RawRuns
<1>3. LineTypes'
  <2>1. cm \in Notes
    BY CommandLineAssumption DEF Notes
  <2> HIDE DEF cm
  <2>. QED  BY <1>1, <2>1 DEF LineInv, LineTypes
<1>4. BeforeSpend'
  BY <1>1, <1>2 DEF BeforeSpend, Zero, Idle
<1>. QED  BY <1>1, <1>2, <1>3, <1>4 DEF LineInv

(* The end of the transaction.  One that is not the pool's cannot settle;  *)
(* the pool's does, since frame 0 has approved it and the tree has room.   *)
LEMMA ExecuteRawKeeps ==
  ASSUME LineInv, ExecuteRaw
  PROVE  LineInv'
<1> DEFINE s == SettleFrame(raw).call.spend
<1>1. /\ ~Idle /\ Idle' /\ (SettleSuccess \/ SettleRevert)
      /\ UNCHANGED <<nonceSeq, op, verdict, raw>>
  BY DEF ExecuteRaw, SettleSuccess, SettleRevert, Idle, NoTx
<1>2. RawRuns
  BY <1>1 DEF LineInv, BeforeSpend, DuringSpend, AfterSpend
<1>3. /\ exec.tx = raw /\ exec.payer = PayerOf(raw) /\ SpendInFlight = s
      /\ raw # NoTx /\ op # "shield" /\ verdict # "typed" /\ SpendTypeOK(s)
  <2>1. exec.tx = raw /\ exec.payer = PayerOf(raw) /\ raw # NoTx
    BY <1>2 DEF RawRuns
  <2>. QED  BY <2>1 DEF LineInv, SpendInFlight
<1>4. (raw # NoTx => op # "shield" /\ SpendTypeOK(SettleFrame(raw).call.spend))'
  BY <1>1, <1>3
<1>5. CASE BeforeSpend
  <2>1. SettleRevert
    <3>1. ~SettlementAccepts(exec.tx, LastFrame(exec.tx), exec.payer)
      BY <1>1, <1>3, <1>5 DEF BeforeSpend, SettlementAccepts, SettlementCaller
    <3>. QED  BY <1>1, <3>1 DEF SettleSuccess, SettleSucceeds
  <2>2. UNCHANGED <<leaves, noteSpent>>
    BY <2>1 DEF SettleRevert, storage
  <2>3. LineTypes' /\ BeforeSpend'
    BY <1>1, <1>5, <2>2 DEF LineInv, LineTypes, BeforeSpend, Zero
  <2>. QED  BY <1>1, <1>3, <1>4, <2>3 DEF LineInv
<1>6. CASE DuringSpend
  <2>1. SettlementAccepts(raw, LastFrame(raw), PayerOf(raw))
    BY <1>6, ApprovedSettles DEF DuringSpend
  <2>2. TreeHasRoom(s) /\ InsertOutputs(leaves, s) \in Seq(Notes)
    <3>1. leaves \in Seq(Notes) /\ Len(leaves) = 1
      BY <1>6 DEF LineInv, LineTypes, DuringSpend
    <3>2. /\ InsertOutputs(leaves, s) \in Seq(Notes)
          /\ Len(InsertOutputs(leaves, s)) <= Len(leaves) + 2
      <4> HIDE DEF s
      <4>. QED  BY <1>3, <3>1, InsertOutputsType
    <3>3. Len(InsertOutputs(leaves, s)) \in Nat
      BY <3>2
    <3> HIDE DEF s
    <3>. QED  BY <3>1, <3>2, <3>3, RoomAssumption, CapacityAssumption DEF TreeHasRoom
  <2>3. SettleSuccess
    BY <1>1, <1>3, <2>1, <2>2 DEF SettleRevert, SettleSucceeds
  <2>4. /\ leaves' = InsertOutputs(leaves, s)
        /\ noteSpent' = [n \in Nullifiers |->
                           noteSpent[n] + (IF n = s.nf1 THEN 1 ELSE 0)
                                        + (IF n = s.nf2 THEN 1 ELSE 0)]
    BY <1>3, <2>3 DEF SettleSuccess, TransferOrWithdraw, Settle, SpendInFlight
  <2>5. raw.keys = {s.nf1, s.nf2} /\ s.nf1 # s.nf2
    BY <1>6 DEF DuringSpend, DispatcherApproves, DispatcherKeys, VerifyFrameProof,
                CircuitSatisfied
  <2>6. /\ noteSpent' \in [Nullifiers -> Nat]
        /\ \A k \in Nullifiers : noteSpent'[k] = IF k \in raw.keys THEN 1 ELSE 0
    <3>1. \A k \in Nullifiers : noteSpent[k] = 0
      BY <1>6 DEF DuringSpend, Zero
    <3>2. \A k \in Nullifiers : noteSpent'[k] = IF k \in raw.keys THEN 1 ELSE 0
      BY <2>4, <2>5, <3>1
    <3>. QED  BY <2>4, <3>1, <3>2
  <2>7. LineTypes'
    BY <1>1, <2>2, <2>4, <2>6 DEF LineInv, LineTypes
  <2>8. DispatcherApproves(raw, 1)'
    BY <1>1, <1>6 DEF DuringSpend
  <2>9. Consumed(nonceSeq)' /\ Consumed(noteSpent)'
    BY <1>1, <1>6, <2>6 DEF DuringSpend, Consumed
  <2>10. AfterSpend'
    BY <1>1, <1>3, <2>8, <2>9 DEF AfterSpend
  <2>. QED  BY <1>1, <1>3, <1>4, <2>7, <2>10 DEF LineInv
<1>. QED  BY <1>1, <1>5, <1>6 DEF LineInv, AfterSpend

(* the steps of the tool and of the chain *)
LineNext == RunTool \/ IncludeRaw \/ IncludeShield \/ ExecuteRaw

(* Every one of them keeps it.                                             *)
LEMMA LineKeeps == LineInv /\ [LineNext]_cvars => LineInv'
<1> SUFFICES ASSUME LineInv, [LineNext]_cvars PROVE LineInv'
  OBVIOUS
<1>1. CASE LineNext
  BY <1>1, RunKeeps, IncludeRawKeeps, ShieldKeeps, ExecuteRawKeeps DEF LineNext
<1>2. CASE UNCHANGED cvars
  <2>1. UNCHANGED <<leaves, noteSpent, nonceSeq, exec, op, verdict, raw>>
    BY <1>2 DEF cvars, vars, storage
  <2>2. UNCHANGED <<currentRoot, withdrawalCredit, feeCredit, ring, slot, balance>>
    BY <1>2 DEF cvars, vars, storage
  <2>3. (IF op = "shield" THEN Idle ELSE Deposited)' = IF op = "shield" THEN Idle ELSE Deposited
    BY <2>1, <2>2 DEF Idle, Deposited
  <2>4. LineTypes'
    BY <2>1 DEF LineInv, LineTypes
  <2>5. (raw # NoTx => op # "shield" /\ SpendTypeOK(SettleFrame(raw).call.spend))'
    BY <2>1 DEF LineInv
  <2>6. (BeforeSpend \/ DuringSpend \/ AfterSpend)'
    <3>1. RawRuns' = RawRuns /\ Idle' = Idle
      BY <2>1 DEF RawRuns, Idle
    <3>2. BeforeSpend => BeforeSpend'
      BY <2>1, <3>1 DEF BeforeSpend, Zero
    <3>3. DuringSpend => DuringSpend'
      BY <2>1, <3>1 DEF DuringSpend, Zero, Consumed
    <3>4. AfterSpend => AfterSpend'
      BY <2>1, <3>1 DEF AfterSpend, Consumed
    <3>. QED  BY <3>2, <3>3, <3>4 DEF LineInv
  <2>. QED  BY <2>1, <2>3, <2>4, <2>5, <2>6 DEF LineInv
<1>. QED  BY <1>1, <1>2

(* No words on the tool's command line, and nobody who sends what it has   *)
(* saved, can bring a nullifier of the pool to be consumed without its     *)
(* settlement: the overrides that break an envelope (--sender,             *)
(* --nonce-keys, --settle-gas, --flip-proof ...) break it in a way frame 0 *)
(* or the node refuses.                                                    *)
THEOREM NoLineBurns == CommandLineSpec => []LineNeverBurns
<1>1. LineInv => LineNeverBurns
  <2> SUFFICES ASSUME LineInv, Idle, NEW nf \in Burned PROVE FALSE
    BY DEF LineNeverBurns
  <2>1. nf \in Nullifiers /\ nonceSeq[nf] > 0 /\ noteSpent[nf] = 0
    BY DEF Burned
  <2>2. ~BeforeSpend
    BY <2>1 DEF BeforeSpend, Zero
  <2>3. ~DuringSpend
    <3>1. ASSUME DuringSpend PROVE exec.payer \in Accounts
      BY <3>1 DEF DuringSpend, RawRuns
    <3>. QED  BY <3>1, AccountsAssumption DEF Idle, NoTx
  <2>4. ~AfterSpend
    BY <2>1 DEF AfterSpend, Consumed
  <2>. QED  BY <2>2, <2>3, <2>4 DEF LineInv
<1>. QED  BY <1>1, LineStart, LineKeeps, PTL DEF CommandLineSpec, LineNext

-----------------------------------------------------------------------------
(* CommandLine: lines without overrides *)

(* what PlainLineWorks asks of a line *)
Plain ==
  /\ op \in {"transfer", "withdraw"}
  /\ \A f \in Overrides : ~Given(f)
  /\ \A f \in ValueFlags : Given(f) => Index(f) # Len(argv)
  /\ PaymasterWord \in {Empty, CfgPaymaster}
  /\ PaymasterWord = Empty => ~Given("--sponsored")

(* A flag that is there has an index.                                      *)
LEMMA IndexInLine ==
  ASSUME argv \in Seq(Words), NEW flag, Given(flag)
  PROVE  Index(flag) \in 1 .. Len(argv)
<1> DEFINE I == {i \in 1 .. Len(argv) : argv[i] = flag}
<1>1. I \in SUBSET (1 .. Len(argv)) /\ I # {} /\ Len(argv) \in Nat
  BY DEF Given, Contains
<1>2. Index(flag) = Min(I)
  BY <1>1 DEF Index, SelectInSeq
<1> HIDE DEF I
<1>3. \E k \in I : \A j \in I : k <= j
  BY <1>1, LeastIndex
<1>4. Min(I) \in I
  BY <1>3 DEF Min
<1>. QED  BY <1>1, <1>2, <1>4

(* What the configuration of a plain line comes to.                        *)
LEMMA PlainWords ==
  ASSUME Plain
  PROVE  /\ Sender = Pool /\ EntryKey = op /\ SettleGas = 10000000
         /\ MaxFee = 2 * BaseFee + 1 /\ MaxPriority = 1 /\ ~Given("--flip-proof")
         /\ \A s : NonceKeys(s) = {s.nf1, s.nf2}
<1>1. /\ ~Given("--sender") /\ ~Given("--spend-key") /\ ~Given("--settle-gas")
      /\ ~Given("--max-fee-per-gas") /\ ~Given("--max-priority-fee-per-gas")
      /\ ~Given("--flip-proof") /\ ~Given("--nonce-keys")
  BY DEF Plain, Overrides, Fees
<1>. QED  BY <1>1 DEF Sender, EntryKey, SettleGas, MaxFee, MaxPriority, NonceKeys

(* main gets to the envelope of a plain line.                              *)
LEMMA PlainGoesOn ==
  ASSUME Plain, argv \in Seq(Words), Deposited
  PROVE  ~Exits /\ op \in DOMAIN Spends /\ References # {}
<1>1. ~FlagsRefused
  <2>1. ASSUME NEW f \in ValueFlags PROVE ~NoWordBehind(f)
    <3>1. Given(f) => Index(f) \in 1 .. Len(argv) /\ Index(f) # Len(argv)
      BY IndexInLine DEF Plain
    <3>2. Len(argv) \in Nat
      OBVIOUS
    <3>. QED  BY <3>1, <3>2 DEF NoWordBehind
  <2>2. /\ ~Given("--sender") /\ ~Given("--nonce-keys")
        /\ \A f \in {"--note", "--root-slot", "--settle-gas"} \cup Fees : ~Given(f)
    BY DEF Plain, Overrides
  <2>. QED  BY <2>1, <2>2 DEF FlagsRefused, NotANumber
<1>2. ~PayerRefused
  <2>1. CASE PaymasterWord = Empty
    BY <2>1 DEF PayerRefused, Plain
  <2>2. CASE PaymasterWord # Empty
    <3>1. PaymasterWord = CfgPaymaster
      BY <2>2 DEF Plain
    <3>2. ~BadAddress(CfgPaymaster)
      BY PayerAssumption, AccountsAssumption DEF BadAddress
    <3>. QED  BY <2>2, <3>1, <3>2 DEF PayerRefused
  <2>. QED  BY <2>1, <2>2
<1>3. EntryKey = op /\ op \in DOMAIN Spends
  BY PlainWords, FixtureAssumption DEF Plain
<1>4. References # {}
  <2>1. ~Given("--root-slot")
    BY DEF Plain, Overrides
  <2>2. [slot |-> 0, root |-> <<ToShield>>] \in References
    BY <2>1 DEF References, Deposited
  <2>. QED  BY <2>2
<1>5. ~(MaxFee < BaseFee) /\ ~(MaxPriority > MaxFee)
  BY PlainWords, CommandLineAssumption
<1>6. op # "shield" /\ op \in {"shield", "transfer", "withdraw"}
  BY DEF Plain
<1>. QED  BY <1>1, <1>2, <1>3, <1>4, <1>5, <1>6 DEF Exits

(* The pool has what the spend of its one deposit pays for its gas: the    *)
(* deposit is all its inputs can be worth.                                 *)
LEMMA DepositWorth ==
  ASSUME NEW s, CircuitSatisfied(s), SpendTypeOK(s), s.root = <<ToShield>>
  PROVE  s.fee <= ToShield.value
<1> DEFINE c1 == s.nf1.cm
           c2 == s.nf2.cm
<1>1. Leaves(s.root) = {ToShield}
  BY DEF Leaves
<1>2. /\ c1.value = 0 \/ c1 = ToShield
      /\ c2.value = 0 \/ c2 = ToShield
  BY <1>1 DEF CircuitSatisfied, InputOpens
<1>3. c1 # c2
  BY DEF CircuitSatisfied, Nullifier
<1>4. /\ s.outCm1.value \in Nat /\ s.outCm2.value \in Nat
      /\ s.publicAmount \in Nat /\ s.fee \in Nat
      /\ c1.value \in Nat /\ c2.value \in Nat /\ ToShield.value \in Nat
  <2>1. c1 \in Notes /\ c2 \in Notes
    BY DEF SpendTypeOK, Nullifiers
  <2>. QED  BY <2>1, NoteValue, CommandLineAssumption DEF SpendTypeOK
<1>5. c1.value + c2.value = s.outCm1.value + s.outCm2.value + s.publicAmount + s.fee
  BY ConservesExactly
<1>6. c1.value + c2.value <= ToShield.value
  <2>1. CASE c1.value = 0
    BY <1>2, <1>4, <2>1
  <2>2. CASE c1.value # 0
    <3>1. c1 = ToShield /\ c2.value = 0
      BY <1>2, <1>3, <2>2
    <3>. QED  BY <1>4, <3>1
  <2>. QED  BY <2>1, <2>2
<1> HIDE DEF c1, c2
<1>. QED  BY <1>4, <1>5, <1>6

(* What frame 0 looks at, of a spend that is proved over the reference.    *)
LEMMA ApprovedIf ==
  ASSUME NEW tx, NEW s, NEW ref, SettleFrame(tx).call.spend = s,
         tx.sender = Pool, tx.signatures = 1, ~tx.blobs, tx.nonceSeq = 0,
         tx.keys = {s.nf1, s.nf2}, tx.refs = <<ref>>, ref.source = Pool,
         ref.root = s.root, s.domain = PoolDomain, CircuitSatisfied(s), SpendTypeOK(s),
         Len(tx.frames) \in {2, 3}, DispatcherSettleFrame(SettleFrame(tx)),
         DispatcherVerifyFrames(tx.frames, Len(tx.frames) = 2),
         Len(tx.frames) = 2 => s.fee >= tx.maxCost
  PROVE  DispatcherApproves(tx, 1)
<1>1. DispatcherKeys(tx, s)
  <2> DEFINE a == s.nf1
             b == s.nf2
  <2>1. a # b
    BY DEF CircuitSatisfied
  <2> HIDE DEF a, b
  <2>2. IsFiniteSet({a}) /\ Cardinality({a}) = 1
    BY FS_Singleton
  <2>3. Cardinality({a} \cup {b}) = 2
    <3>1. b \notin {a}
      BY <2>1
    <3>2. Cardinality({a} \cup {b}) = Cardinality({a}) + 1
      BY <2>2, <3>1, FS_AddElement
    <3>. QED  BY <2>2, <3>2
  <2>4. {a, b} = {a} \cup {b}
    OBVIOUS
  <2>5. Cardinality({a, b}) = 2
    BY <2>3, <2>4
  <2>. QED  BY <2>5 DEF DispatcherKeys, a, b
<1>2. DispatcherRoot(tx, s)
  BY DEF DispatcherRoot
<1>3. VerifyFrameProof(s)
  <2>1. s.publicAmount \in 0 .. MaxValue - 1 /\ s.fee \in 0 .. MaxValue - 1
    BY DEF CircuitSatisfied, InRange
  <2>2. s.publicAmount < MaxValue /\ s.fee < MaxValue
    BY <2>1, FieldAssumption
  <2>. QED  BY <2>2 DEF VerifyFrameProof
<1>4. DispatcherFee(tx, s, Len(tx.frames) = 2)
  BY DEF DispatcherFee
<1>. QED  BY <1>1, <1>2, <1>3, <1>4 DEF DispatcherApproves

(* The envelope of a plain line is the one frame 0 and the paymaster want, *)
(* and whoever pays can.                                                   *)
LEMMA PlainAdmitted ==
  ASSUME Plain, argv \in Seq(Words), Deposited
  PROVE  Admitted(Envelope) /\ ExecutionSucceeds(Envelope)
<1> DEFINE tx == Envelope
           r == Spends[op]
           s == SpendOf(r, <<ToShield>>)
           ref == [source |-> Pool, slot |-> 0, root |-> <<ToShield>>]
           settle == Frame(Pool, SENDER, 0, 10000000, 0, Call(s))
           alone == Frame(Pool, VERIFY, 3, 350000, 0, NoCall)
           verify == Frame(Pool, VERIFY, 2, 300000, 0, NoCall)
           pay == Frame(AddressOf[PaymasterWord], VERIFY, 1, 100000, 0,
                        [op |-> "verifyProofOnly", spend |-> s])
<1>1. /\ tx.frames = IF PaymasterWord = Empty THEN <<alone, settle>>
                                            ELSE <<verify, pay, settle>>
      /\ tx.sender = Pool /\ tx.keys = {s.nf1, s.nf2} /\ tx.nonceSeq = 0
      /\ tx.refs = <<ref>> /\ tx.signatures = 1 /\ ~tx.blobs
      /\ tx.maxCost = 2 * BaseFee + 1 /\ ~tx.flipped
      /\ SpendTypeOK(s) /\ Call(s).spend = s
  <2>1. PICK e \in References :
          /\ tx = EnvelopeOver(e)
          /\ SpendTypeOK(FixtureSpend(e)) /\ Call(FixtureSpend(e)).spend = FixtureSpend(e)
    BY PlainGoesOn, PlainWords, EnvelopeBuilt
  <2>2. e.root = <<ToShield>> /\ e.slot = 0
    BY <2>1 DEF References, Deposited
  <2>3. FixtureSpend(e) = s
    BY <2>2, PlainWords DEF FixtureSpend
  <2>4. PoolRef(e) = ref
    BY <2>2 DEF PoolRef
  <2>5. SpendOf(Spends[EntryKey], e.root) = s
    BY <2>3 DEF FixtureSpend
  <2> HIDE DEF s, ref, tx
  <2>. QED  BY <2>1, <2>3, <2>4, <2>5, PlainWords DEF EnvelopeOver
<1>2. /\ CircuitSatisfied(s) /\ s.domain = PoolDomain /\ s.fee >= 2 * BaseFee + 1
      /\ s.root = <<ToShield>> /\ s.fee \in Nat
      /\ (op = "transfer") = (s.publicAmount = 0)
      /\ (op = "transfer") = (s.ctx = NoAccount)
  BY <1>1, FixtureAssumption DEF Plain, SpendOf, SpendTypeOK
<1>3. Call(s) = IF op = "transfer" THEN [op |-> "transfer", spend |-> s]
                ELSE [op |-> "withdraw", spend |-> s, recipient |-> s.ctx]
  <2>1. op = "transfer" \/ op = "withdraw"
    BY DEF Plain
  <2>. QED  BY <2>1 DEF Call, SpendOf
<1> HIDE DEF tx, s
<1>4. SettleFrame(tx) = settle
  <2> HIDE DEF settle, alone, verify, pay
  <2>. QED  BY <1>1 DEF SettleFrame, LastFrame
<1>5. DispatcherSettleFrame(settle)
  BY <1>1, <1>2, <1>3 DEF DispatcherSettleFrame, Frame, Plain
<1>6. /\ Len(tx.frames) \in {2, 3}
      /\ DispatcherVerifyFrames(tx.frames, Len(tx.frames) = 2)
      /\ PaymasterWord = Empty => PayerOf(tx) = Pool /\ Len(tx.frames) = 2
      /\ PaymasterWord # Empty => PayerOf(tx) = Paymaster /\ Len(tx.frames) = 3
  <2>1. CASE PaymasterWord = Empty
    <3>1. tx.frames = <<alone, settle>>
      BY <1>1, <2>1
    <3>2. Len(tx.frames) = 2 /\ tx.frames[1] = alone
      BY <3>1
    <3>. QED  BY <2>1, <3>2 DEF DispatcherVerifyFrames, PayerOf, LastFrame, Frame
  <2>2. CASE PaymasterWord # Empty
    <3>1. tx.frames = <<verify, pay, settle>>
      BY <1>1, <2>2
    <3>2. Len(tx.frames) = 3 /\ tx.frames[1] = verify /\ tx.frames[2] = pay
      BY <3>1
    <3>3. AddressOf[PaymasterWord] = Paymaster
      BY <2>2, PayerAssumption DEF Plain
    <3>. QED  BY <2>2, <3>2, <3>3 DEF DispatcherVerifyFrames, PayerOf, LastFrame, Frame
  <2>. QED  BY <2>1, <2>2
<1>7. DispatcherApproves(tx, 1)
  <2>1. ref.source = Pool /\ ref.root = s.root /\ SettleFrame(tx).call.spend = s
    BY <1>1, <1>2, <1>4 DEF Frame
  <2>2. s.fee >= tx.maxCost
    BY <1>1, <1>2
  <2> HIDE DEF settle, ref
  <2>3. /\ tx.sender = Pool /\ tx.signatures = 1 /\ ~tx.blobs /\ tx.nonceSeq = 0
        /\ tx.keys = {s.nf1, s.nf2} /\ tx.refs = <<ref>>
        /\ CircuitSatisfied(s) /\ SpendTypeOK(s) /\ s.domain = PoolDomain
    BY <1>1, <1>2
  <2>4. DispatcherSettleFrame(SettleFrame(tx))
    BY <1>4, <1>5
  <2>. QED  BY <1>6, <2>1, <2>2, <2>3, <2>4, ApprovedIf
<1>8. PaymasterWord # Empty => PaymasterApproves(tx, 2, Pool)
  <2> SUFFICES ASSUME PaymasterWord # Empty PROVE PaymasterApproves(tx, 2, Pool)
    OBVIOUS
  <2>1. tx.frames = <<verify, pay, settle>>
    BY <1>1
  <2>2. /\ Len(tx.frames) = 3
        /\ tx.frames[1] = verify /\ tx.frames[2] = pay /\ tx.frames[3] = settle
    BY <2>1
  <2>3. AddressOf[PaymasterWord] = Paymaster
    BY PayerAssumption DEF Plain
  <2>4. Cardinality(tx.keys) = 2 /\ Len(tx.refs) = 1 /\ tx.refs[1] = ref
    BY <1>1, <1>4, <1>7 DEF DispatcherApproves, DispatcherKeys
  <2>5. PaymasterSettleFrame(tx.frames[3], s)
    BY <1>1, <1>3, <2>2 DEF PaymasterSettleFrame, Frame
  <2>6. tx.frames[2].call.spend = s /\ tx.frames[2].call.op = "verifyProofOnly"
    BY <2>2 DEF Frame
  <2>7. PaymasterFee(tx, s)
    BY <1>1, <1>2 DEF PaymasterFee
  <2>. QED  BY <1>1, <1>2, <2>2, <2>3, <2>4, <2>5, <2>6, <2>7 DEF PaymasterApproves, Frame
<1>9. NoncesCurrent(tx) /\ RefValid(tx.refs[1])
  <2>1. /\ nonceSeq = [n \in Nullifiers |-> 0]
        /\ ring = {[slot |-> 0, root |-> <<ToShield>>]} /\ slot = 1
    BY DEF Deposited
  <2>2. \A k \in tx.keys : nonceSeq[k] = tx.nonceSeq
    BY <1>1, <2>1 DEF SpendTypeOK
  <2>3. RefValid(ref)
    BY <2>1, WindowAssumption, CapacityAssumption DEF RefValid
  <2>4. tx.refs[1] = ref
    BY <1>1
  <2> HIDE DEF ref
  <2>. QED  BY <2>2, <2>3, <2>4 DEF NoncesCurrent
<1>10. balance[PayerOf(tx)] >= tx.maxCost
  <2>1. CASE PaymasterWord = Empty
    <3>1. balance[Pool] = ToShield.value
      BY AccountsAssumption DEF Deposited
    <3>2. s.fee <= ToShield.value /\ ToShield.value \in Nat
      BY <1>1, <1>2, DepositWorth, NoteValue, CommandLineAssumption
    <3>. QED  BY <1>1, <1>2, <1>6, <2>1, <3>1, <3>2, CommandLineAssumption
  <2>2. CASE PaymasterWord # Empty
    <3>1. balance[Paymaster] = InitialFunds
      BY AccountsAssumption DEF Deposited
    <3>. QED  BY <1>1, <1>6, <2>2, <3>1, PayerAssumption
  <2>. QED  BY <2>1, <2>2
<1>11. Admitted(tx)
  BY <1>1, <1>6, <1>7, <1>8, <1>9, <1>10 DEF Admitted
<1>12. ExecutionSucceeds(tx)
  <2>1. PayerOf(tx) \in Accounts
    BY <1>6, AccountsAssumption
  <2>2. SettlementAccepts(tx, LastFrame(tx), PayerOf(tx))
    BY <1>7, <2>1, ApprovedSettles
  <2>3. TreeHasRoom(s)
    <3>1. leaves = <<ToShield>> /\ leaves \in Seq(Notes) /\ Len(leaves) = 1
      BY CommandLineAssumption DEF Deposited
    <3>2. SpendTypeOK(s)
      BY <1>1
    <3>3. leaves \in Seq(Notes)
      BY <3>1
    <3>4. /\ Len(InsertOutputs(leaves, s)) <= Len(leaves) + 2
          /\ InsertOutputs(leaves, s) \in Seq(Notes)
      BY <3>2, <3>3, InsertOutputsType
    <3>5. Len(InsertOutputs(leaves, s)) \in Nat /\ Len(leaves) = 1
      BY <3>1, <3>4
    <3>. QED  BY <3>4, <3>5, RoomAssumption, CapacityAssumption DEF TreeHasRoom
  <2>4. SettleFrame(tx).call.spend = s
    BY <1>1, <1>4 DEF Frame
  <2>. QED  BY <2>2, <2>3, <2>4 DEF ExecutionSucceeds
<1>. QED  BY <1>11, <1>12 DEF tx

(* A line without overrides ends in nothing but a transaction sent or the  *)
(* dry run it asked for, given a fixture whose proofs verify and a payer   *)
(* with the means.                                                         *)
THEOREM PlainLinesSend == CommandLineSpec => []PlainLineWorks
<1> DEFINE PlainInv == /\ LineInv /\ argv \in Seq(Words)
                       /\ Plain => verdict \in {"typed", "sent", "dry"}
<1>1. CommandLineInit => PlainInv
  <2> SUFFICES ASSUME CommandLineInit PROVE PlainInv
    OBVIOUS
  <2>1. PICK m \in 0 .. MaxWords : argv \in [1 .. m -> Words]
    BY DEF CommandLineInit, SeqOf
  <2>2. argv \in Seq(Words)
    BY <2>1, CommandLineAssumption
  <2>3. verdict = "typed"
    BY DEF CommandLineInit
  <2>. QED  BY <2>2, <2>3, LineStart
<1>2. PlainInv /\ [LineNext]_cvars => PlainInv'
  <2> SUFFICES ASSUME PlainInv, [LineNext]_cvars PROVE PlainInv'
    OBVIOUS
  <2>1. UNCHANGED <<op, argv>>
    BY DEF LineNext, RunTool, IncludeRaw, IncludeShield, ExecuteRaw, cvars
  <2>2. Plain' = Plain
    <3>1. \A f : Given(f)' = Given(f) /\ Index(f)' = Index(f)
      BY <2>1 DEF Given, Index, Contains, SelectInSeq
    <3>2. PaymasterWord' = PaymasterWord
      BY <2>1, <3>1 DEF PaymasterWord, Value
    <3>. QED  BY <2>1, <3>1, <3>2 DEF Plain
  <2>3. Plain => verdict' \in {"typed", "sent", "dry"}
    <3>1. CASE RunTool /\ Plain
      <4>1. Deposited /\ verdict = "typed" /\ op # "shield" /\ argv \in Seq(Words)
        BY <3>1 DEF LineInv, Plain, RunTool
      <4>2. ~Exits /\ Admitted(Envelope) /\ ExecutionSucceeds(Envelope)
        BY <3>1, <4>1, PlainGoesOn, PlainAdmitted
      <4>3. raw' = Envelope
        BY <3>1, <4>1, <4>2 DEF RunTool
      <4>4. (Admitted(raw') /\ ExecutionSucceeds(raw')) = TRUE
        BY <4>2, <4>3
      <4>. QED  BY <3>1, <4>1, <4>2, <4>4 DEF RunTool
    <3>2. CASE ~RunTool
      <4>1. verdict' = verdict
        BY <3>2 DEF LineNext, IncludeRaw, IncludeShield, ExecuteRaw, cvars
      <4>. QED  BY <4>1
    <3>. QED  BY <3>1, <3>2
  <2>4. LineInv'
    BY LineKeeps
  <2>. QED  BY <2>1, <2>2, <2>3, <2>4
<1>3. PlainInv => PlainLineWorks
  BY DEF PlainLineWorks, Plain
<1> HIDE DEF PlainInv
<1>. QED  BY <1>1, <1>2, <1>3, PTL DEF CommandLineSpec, LineNext

-----------------------------------------------------------------------------
(* Fixtures: what a generator writes *)

EntryOK(e) ==
  LET r == e.req
  IN  /\ e.root \in Seq(Notes) /\ r \in RequestRecords
      /\ r.sender = Pool /\ r.payer = Pool /\ r.domain = PoolDomain
      /\ r.keys = {} /\ r.nonceSeq = 0
      /\ (r.publicAmount = 0) = (r.recipient = NoAccount)
      /\ CircuitSatisfied(SpendOf(r, e.root))

(* the fixture's own deposits stand where its trees have them *)
Foretells(f, root) ==
  \A k \in DOMAIN f.shields :
    f.base + k \in DOMAIN root /\ root[f.base + k] = f.shields[k]

(* of two of its trees, the longer one is the shorter one after its spend  *)
FollowsOn(e, d) ==
  \/ Len(d.root) <= Len(e.root)
  \/ /\ e.req.out1 # e.req.out2
     /\ e.req.out1 \notin Leaves(e.root) /\ e.req.out2 \notin Leaves(e.root)
     /\ d.root = Append(Append(e.root, e.req.out1), e.req.out2)

FixtureOK(f) ==
  /\ f.base \in Nat /\ f.shields \in Seq(Notes)
  /\ \A key \in DOMAIN f.spends :
       EntryOK(f.spends[key]) /\ Foretells(f, f.spends[key].root)
  /\ \A k1, k2 \in DOMAIN f.spends : FollowsOn(f.spends[k1], f.spends[k2])

(* at the moment it is written, the tree is the one its deposits go on     *)
(* from, or the generator has planned for another                          *)
StartsHere(f) ==
  Len(leaves) = f.base =>
    \A key \in DOMAIN f.spends : Extends(leaves, f.spends[key].root)

CanDraw == runs \in Nat /\ runs < Len(Secrets)

(* A generator's notes are notes of the circuit.                           *)
LEMMA NotesDrawn ==
  ASSUME CanDraw, NEW k \in 1 .. 9, NEW v \in Values
  PROVE  NewNote(k, v) \in Notes
<1>1. runs + 1 \in DOMAIN Secrets /\ Secrets[runs + 1] \in Seq(Inners)
  BY FixturesAssumption DEF CanDraw
<1>2. Len(Secrets[runs + 1]) >= 9
  BY <1>1, SecretsAssumption
<1> DEFINE drawn == Secrets[runs + 1]
<1> HIDE DEF drawn
<1>3. drawn \in Seq(Inners) /\ Len(drawn) >= 9
  BY <1>1, <1>2 DEF drawn
<1>4. drawn[k] \in Inners
  BY <1>3
<1>. QED  BY <1>4 DEF NewNote, Notes, drawn

(* Notes drawn with different secrets differ, whatever they are worth.     *)
LEMMA NotesDiffer ==
  ASSUME CanDraw, NEW k \in 1 .. 9, NEW j \in 1 .. 9, k # j, NEW v, NEW w
  PROVE  NewNote(k, v) # NewNote(j, w)
<1>1. runs + 1 \in DOMAIN Secrets /\ Secrets[runs + 1] \in Seq(Inners)
  BY FixturesAssumption DEF CanDraw
<1>2. /\ Len(Secrets[runs + 1]) >= 9
      /\ \A i, h \in DOMAIN Secrets[runs + 1] :
           Secrets[runs + 1][i] = Secrets[runs + 1][h] => i = h
  BY <1>1, SecretsAssumption
<1> DEFINE drawn == Secrets[runs + 1]
<1> HIDE DEF drawn
<1>3. /\ drawn \in Seq(Inners) /\ Len(drawn) >= 9
      /\ \A i, h \in DOMAIN drawn : drawn[i] = drawn[h] => i = h
  BY <1>1, <1>2 DEF drawn
<1>4. drawn[k] # drawn[j]
  BY <1>3
<1>. QED  BY <1>4 DEF NewNote, drawn

(* A witness that a proof was made of is a request whose spend verifies.   *)
LEMMA EntryWritten ==
  ASSUME NEW root \in Seq(Notes), NEW in1 \in Notes, NEW in2 \in Notes,
         NEW out1 \in Notes, NEW out2 \in Notes, NEW amount, NEW fee,
         NEW recipient \in Accounts \cup {NoAccount},
         (amount = 0) = (recipient = NoAccount),
         NEW r, r = BuildWitness(in1, in2, out1, out2, amount, fee, recipient),
         NEW e, e = Entry(root, r), Proved(e)
  PROVE  EntryOK(e)
<1>1. e.root = root /\ e.req = r
  BY DEF Entry
<1>2. /\ r.sender = Pool /\ r.payer = Pool /\ r.domain = PoolDomain
      /\ r.keys = {} /\ r.nonceSeq = 0
      /\ r.publicAmount = amount /\ r.fee = fee /\ r.recipient = recipient
  BY DEF BuildWitness
<1>3. WitnessAsserts(r) /\ CircuitSatisfied(SpendOf(r, root))
  BY <1>1 DEF Proved
<1>4. amount \in 0 .. MaxValue - 1 /\ fee \in 0 .. MaxValue - 1
  BY <1>2, <1>3 DEF WitnessAsserts
<1>5. amount \in Nat /\ fee \in Nat
  BY <1>4, FieldAssumption
<1>6. r \in RequestRecords
  <2>1. /\ Pool \in Accounts /\ PoolDomain \in Domains /\ MaxCost \in Nat \ {0}
        /\ "pool" \in {"pool", "forged"} /\ {} \in SUBSET Nullifiers /\ 0 \in Nat
    BY AccountsAssumption, FixturesAssumption
  <2>. QED  BY <1>5, <2>1 DEF BuildWitness, RequestRecords
<1>. QED  BY <1>1, <1>2, <1>3, <1>6 DEF EntryOK

(* Every value of a witness is a natural number.                           *)
LEMMA WitnessValues ==
  ASSUME NEW e, Proved(e)
  PROVE  /\ e.req.in1.value \in Nat /\ e.req.in2.value \in Nat
         /\ e.req.out1.value \in Nat /\ e.req.out2.value \in Nat
         /\ e.req.publicAmount \in Nat /\ e.req.fee \in Nat
<1> DEFINE All == {e.req.in1.value, e.req.in2.value, e.req.out1.value, e.req.out2.value,
                   e.req.publicAmount, e.req.fee}
<1>1. \A v \in All : v \in 0 .. MaxValue - 1
  BY DEF Proved, WitnessAsserts
<1>2. \A v \in All : v \in Nat
  BY <1>1, FieldAssumption
<1>. QED  BY <1>2

(* What a plan's notes are worth is what the model calls a value.          *)
LEMMA PlannedValue ==
  ASSUME NEW p \in Plans, NEW v \in PlanValues(p), v \in Nat
  PROVE  v \in Values
BY PlansAssumption

(* The smoke test's fixture: one deposit, its transfer, and the withdrawal *)
(* of the transfer's first output.                                         *)
LEMMA SmokeOK ==
  ASSUME CanDraw, NEW p \in Plans, p.kind = "smoke", Writes(p, Smoke(p))
  PROVE  FixtureOK(Smoke(p)) /\ StartsHere(Smoke(p))
<1> DEFINE f == Smoke(p)
           a == NewNote(1, p.shield)
           b == NewNote(2, p.payment)
           change == NewNote(3, p.shield - p.payment - p.fee)
           tree == <<a, b, change>>
           t == BuildWitness(a, NewNote(4, 0), b, change, 0, p.fee, NoAccount)
           w == BuildWitness(b, NewNote(5, 0), NewNote(6, 0), NewNote(7, 0),
                             b.value - p.fee, p.fee, Recipient)
           te == Entry(<<a>>, t)
           we == Entry(tree, w)
<1>1. /\ f.base = 0 /\ f.shields = <<a>> /\ DOMAIN f.spends = {"transfer", "withdraw"}
      /\ f.spends["transfer"] = te /\ f.spends["withdraw"] = we
  BY DEF Smoke, Withdrawal, DummyInput
<1>2. Proved(te) /\ Proved(we) /\ 0 < p.fee /\ p.fee < p.payment
  BY <1>1 DEF Writes
<1>3. /\ b.value = p.payment /\ change.value = p.shield - p.payment - p.fee
      /\ te.req = t /\ we.req = w /\ te.root = <<a>> /\ we.root = tree
      /\ t.out1 = b /\ t.out2 = change
  BY DEF NewNote, Entry, BuildWitness
<1>4. /\ p.shield \in Nat /\ p.payment \in Int /\ p.fee \in Int
  BY PlansAssumption
<1> HIDE DEF f, t, w, te, we, b, change
<1>5. p.payment \in Nat /\ p.shield - p.payment - p.fee \in Nat
  <2>1. change.value \in Nat
    BY <1>2, <1>3, WitnessValues
  <2>. QED  BY <1>2, <1>3, <1>4, <2>1
<1>6. /\ p.shield \in Values /\ p.payment \in Values
      /\ p.shield - p.payment - p.fee \in Values /\ 0 \in Values
  BY <1>4, <1>5, PlannedValue DEF PlanValues
<1>7. /\ a \in Notes /\ b \in Notes /\ change \in Notes
      /\ NewNote(4, 0) \in Notes /\ NewNote(5, 0) \in Notes
      /\ NewNote(6, 0) \in Notes /\ NewNote(7, 0) \in Notes
  BY <1>6, NotesDrawn DEF b, change
<1>8. a # b /\ a # change /\ b # change
  BY NotesDiffer DEF b, change
<1> HIDE DEF a
<1>9. <<a>> \in Seq(Notes) /\ tree \in Seq(Notes)
  BY <1>7
<1>10. EntryOK(te)
  BY <1>2, <1>7, <1>9, EntryWritten DEF te, t
<1>11. EntryOK(we)
  <2>1. b.value - p.fee # 0
    BY <1>2, <1>3, <1>4
  <2>2. Recipient \in Accounts /\ Recipient # NoAccount
    BY FixturesAssumption, AccountsAssumption
  <2>. QED  BY <1>2, <1>7, <1>9, <2>1, <2>2, EntryWritten DEF we, w
<1>12. Foretells(f, te.root) /\ Foretells(f, we.root)
  <2>1. \A k \in DOMAIN <<a>> : k = 1
    OBVIOUS
  <2>2. /\ 1 \in DOMAIN <<a>> /\ <<a>>[1] = a /\ 1 \in DOMAIN tree /\ tree[1] = a
        /\ 0 + 1 = 1
    OBVIOUS
  <2> HIDE DEF tree
  <2>. QED  BY <1>1, <1>3, <2>1, <2>2 DEF Foretells
<1>13. FollowsOn(te, we) /\ FollowsOn(we, te) /\ FollowsOn(te, te) /\ FollowsOn(we, we)
  <2>1. Leaves(<<a>>) = {a}
    BY DEF Leaves
  <2>2. tree = Append(Append(<<a>>, b), change)
    OBVIOUS
  <2>3. Len(<<a>>) = 1 /\ Len(tree) = 3
    OBVIOUS
  <2> HIDE DEF tree
  <2>. QED  BY <1>3, <1>8, <2>1, <2>2, <2>3 DEF FollowsOn
<1>14. f.base \in Nat /\ f.shields \in Seq(Notes)
  BY <1>1, <1>9
<1>15. FixtureOK(f)
  BY <1>1, <1>10, <1>11, <1>12, <1>13, <1>14 DEF FixtureOK
<1>16. StartsHere(f)
  <2>1. Len(te.root) \in Nat /\ Len(we.root) \in Nat
    BY <1>3, <1>9
  <2>. QED  BY <1>1, <2>1 DEF StartsHere, Extends
<1>. QED  BY <1>15, <1>16 DEF f

(* The race's fixture: two deposits and a transfer of each, proved over    *)
(* the same tree.                                                          *)
LEMMA RaceOK ==
  ASSUME CanDraw, leaves \in Seq(Notes), NEW p \in Plans, p.kind = "race",
         Writes(p, Race(p))
  PROVE  FixtureOK(Race(p)) /\ StartsHere(Race(p))
<1> DEFINE f == Race(p)
           tree == IF p.seeded THEN leaves ELSE <<>>
           v == p.shield
           fee == RaceFee(v)
           bob == RaceBob(v)
           rest == v - bob - fee
           a == NewNote(1, v)
           c == NewNote(2, v)
           root == tree \o <<a, c>>
           t == BuildWitness(a, NewNote(5, 0), NewNote(3, bob), NewNote(4, rest),
                             0, fee, NoAccount)
           u == BuildWitness(c, NewNote(8, 0), NewNote(6, bob), NewNote(7, rest),
                             0, fee, NoAccount)
           te == Entry(root, t)
           ue == Entry(root, u)
<1>1. /\ f.base = Len(tree) /\ f.shields = <<a, c>>
      /\ DOMAIN f.spends = {"transfer", "transfer_c"}
      /\ f.spends["transfer"] = te /\ f.spends["transfer_c"] = ue
  BY DEF Race, RaceTree, DummyInput
<1>2. Proved(te) /\ Proved(ue)
  BY <1>1 DEF Writes
<1>3. /\ te.req = t /\ te.root = root /\ ue.root = root
      /\ t.out1.value = bob /\ t.out2.value = rest
  BY DEF NewNote, Entry, BuildWitness
<1>4. v \in Nat
  BY PlansAssumption
<1> HIDE DEF f, t, u, te, ue
<1>5. bob \in Nat /\ rest \in Nat
  BY <1>2, <1>3, WitnessValues
<1>6. v \in Values /\ bob \in Values /\ rest \in Values /\ 0 \in Values
  <2>1. {v, bob, rest, 0} \subseteq PlanValues(p)
    BY DEF PlanValues
  <2>. QED  BY <1>4, <1>5, <2>1, PlannedValue
<1> HIDE DEF v, bob, rest
<1>7. /\ a \in Notes /\ c \in Notes
      /\ \A k \in {3, 6} : NewNote(k, bob) \in Notes
      /\ \A k \in {4, 7} : NewNote(k, rest) \in Notes
      /\ \A k \in {5, 8} : NewNote(k, 0) \in Notes
  BY <1>6, NotesDrawn
<1> HIDE DEF a, c
<1>8. tree \in Seq(Notes)
  OBVIOUS
<1> HIDE DEF tree
<1>9. /\ root \in Seq(Notes) /\ <<a, c>> \in Seq(Notes) /\ Len(root) = Len(tree) + 2
      /\ root[Len(tree) + 1] = a /\ root[Len(tree) + 2] = c
  BY <1>7, <1>8
<1>10. EntryOK(te)
  BY <1>2, <1>7, <1>9, EntryWritten DEF te, t
<1>11. EntryOK(ue)
  BY <1>2, <1>7, <1>9, EntryWritten DEF ue, u
<1> HIDE DEF root
<1>12. Foretells(f, root)
  <2>1. /\ DOMAIN <<a, c>> = {1, 2} /\ <<a, c>>[1] = a /\ <<a, c>>[2] = c
    OBVIOUS
  <2>2. Len(tree) + 1 \in DOMAIN root /\ Len(tree) + 2 \in DOMAIN root
    BY <1>8, <1>9
  <2>. QED  BY <1>1, <1>9, <2>1, <2>2 DEF Foretells
<1>13. FollowsOn(te, ue) /\ FollowsOn(ue, te) /\ FollowsOn(te, te) /\ FollowsOn(ue, ue)
  BY <1>3, <1>9 DEF FollowsOn
<1>14. f.base \in Nat /\ f.shields \in Seq(Notes)
  BY <1>1, <1>8, <1>9
<1>15. FixtureOK(f)
  BY <1>1, <1>3, <1>10, <1>11, <1>12, <1>13, <1>14 DEF FixtureOK
<1>16. StartsHere(f)
  <2>1. Extends(tree, root)
    BY <1>7, <1>8 DEF Extends, root
  <2>2. tree = leaves \/ tree = <<>>
    BY DEF tree
  <2>3. Len(leaves) = Len(tree) => Extends(leaves, root)
    BY <1>8, <1>9, <2>1, <2>2 DEF Extends
  <2>. QED  BY <1>1, <1>3, <2>3 DEF StartsHere
<1>. QED  BY <1>15, <1>16 DEF f

-----------------------------------------------------------------------------
(* Fixtures: its envelopes and the roots it foretells, from step to step *)

FixtureTx(tx) ==
  \E e, ref : EntryOK(e) /\ ref.root = e.root /\ tx = BuildTx(e.req, PoolRef(ref))

(* the spend that runs is proved over a root of this tree *)
RootInFlight == SpendRunning => Extends(SpendInFlight.root, leaves)

(* until the tree has outgrown a root the fixture foretells, it is on its  *)
(* way there                                                               *)
ForetoldInv ==
  undisturbed =>
    \A key \in DOMAIN fix.spends :
      Len(leaves) <= Len(fix.spends[key].root) => Extends(leaves, fix.spends[key].root)

FixturesInv ==
  /\ PoolInv /\ runs \in Nat /\ undisturbed \in BOOLEAN
  /\ FixtureOK(fix) /\ (\A tx \in pending : FixtureTx(tx))
  /\ RootInFlight /\ ForetoldInv

(* What the envelope of a fixture's entry is to the pool.                  *)
LEMMA EntryTx ==
  ASSUME NEW e, EntryOK(e), NEW ref, ref.root = e.root,
         NEW tx, tx = BuildTx(e.req, PoolRef(ref))
  PROVE  /\ e.req \in RequestRecords /\ tx.sender = Pool /\ PayerOf(tx) = Pool
         /\ Len(tx.frames) = 2 /\ tx.refs = <<PoolRef(ref)>> /\ PoolRef(ref).source = Pool
         /\ PoolRef(ref).root = e.root /\ PoolRef(ref).slot = ref.slot
         /\ SettleFrame(tx).call.spend = SpendOf(e.req, e.root)
         /\ SpendTypeOK(SpendOf(e.req, e.root))
<1>1. e.req \in RequestRecords /\ e.req.sender = Pool /\ e.req.payer = Pool
  BY DEF EntryOK
<1>2. /\ PoolRef(ref).source = Pool /\ PoolRef(ref).root = e.root
      /\ PoolRef(ref).slot = ref.slot
  BY DEF PoolRef
<1>3. tx.sender = Pool /\ PayerOf(tx) = Pool /\ Len(tx.frames) = 2
  BY <1>1, BuiltPayer
<1>4. /\ SettleFrame(tx).call.spend = SpendOf(e.req, e.root)
      /\ SpendTypeOK(SpendOf(e.req, e.root))
  BY <1>1, <1>2, BuiltTx
<1>5. tx.refs = <<PoolRef(ref)>>
  BY DEF BuildTx
<1>. QED  BY <1>1, <1>2, <1>3, <1>4, <1>5

(* Frame 0 and settlement take it, whatever the chain looks like.          *)
LEMMA EntryApproved ==
  ASSUME NEW e, EntryOK(e), NEW ref, ref.root = e.root,
         NEW tx, tx = BuildTx(e.req, PoolRef(ref)),
         SettleFrame(tx).call.spend.fee >= tx.maxCost
  PROVE  DispatcherApproves(tx, 1) /\ SettlementAccepts(tx, 2, Pool)
<1> DEFINE r == e.req
           s == SpendOf(r, e.root)
           verify == Frame(Pool, VERIFY, 3, 350000, 0, NoCall)
           settle == Frame(Pool, SENDER, 0, 10000000, 0, SettleCall(r, s))
<1>1. /\ tx.sender = Pool /\ Len(tx.frames) = 2 /\ tx.refs = <<PoolRef(ref)>>
      /\ PoolRef(ref).source = Pool /\ PoolRef(ref).root = e.root
      /\ SettleFrame(tx).call.spend = s /\ SpendTypeOK(s)
  BY EntryTx
<1>2. /\ r.sender = Pool /\ r.payer = Pool /\ r.domain = PoolDomain
      /\ r.keys = {} /\ r.nonceSeq = 0 /\ r.recipient \in Accounts \cup {NoAccount}
      /\ (r.publicAmount = 0) = (r.recipient = NoAccount) /\ CircuitSatisfied(s)
  BY DEF EntryOK, RequestRecords
<1>3. /\ s.domain = PoolDomain /\ s.root = e.root
      /\ s.publicAmount = r.publicAmount /\ s.ctx = r.recipient
  BY <1>2 DEF SpendOf
<1>4. tx.frames = <<verify, settle>>
  <2>1. PoolRef(ref).root = e.root /\ r.payer = r.sender /\ r.sender = Pool
    BY <1>1, <1>2
  <2>2. tx.frames = BuildFrames(r, s)
    BY <2>1 DEF BuildTx
  <2> HIDE DEF s, r
  <2>. QED  BY <2>1, <2>2 DEF BuildFrames
<1>5. tx.keys = {s.nf1, s.nf2} /\ tx.nonceSeq = 0 /\ tx.signatures = 1 /\ ~tx.blobs
  <2>1. SpendOf(r, PoolRef(ref).root) = s
    BY <1>1
  <2> HIDE DEF s
  <2>. QED  BY <1>2, <2>1 DEF BuildTx
<1> HIDE DEF s
<1>6. DispatcherSettleFrame(settle)
  BY <1>2, <1>3, AccountsAssumption DEF DispatcherSettleFrame, Frame, SettleCall
<1>7. DispatcherVerifyFrames(tx.frames, Len(tx.frames) = 2)
  <2>1. tx.frames[1] = verify
    BY <1>4
  <2>. QED  BY <1>1, <2>1 DEF DispatcherVerifyFrames, Frame
<1>8. SettleFrame(tx) = settle
  <2> HIDE DEF verify, settle
  <2>. QED  BY <1>4 DEF SettleFrame, LastFrame
<1> HIDE DEF r, settle, verify
<1>9. DispatcherApproves(tx, 1)
  BY <1>1, <1>2, <1>3, <1>5, <1>6, <1>7, <1>8, ApprovedIf
<1>10. SettlementAccepts(tx, LastFrame(tx), Pool)
  BY <1>9, AccountsAssumption, ApprovedSettles
<1>11. LastFrame(tx) = 2
  BY <1>1 DEF LastFrame
<1>. QED  BY <1>9, <1>10, <1>11

(* The start: no fixture, nothing pending, the pool's own start.           *)
LEMMA FixturesStart == FixturesInit => FixturesInv
<1> SUFFICES ASSUME FixturesInit PROVE FixturesInv
  OBVIOUS
<1>1. /\ PoolInv /\ exec = NoTx /\ fix = NoFixture /\ runs = 0
      /\ undisturbed = FALSE /\ pending = {}
  BY PoolInvInit DEF FixturesInit, Init
<1>2. FixtureOK(fix)
  BY <1>1 DEF FixtureOK, NoFixture
<1>3. RootInFlight /\ ForetoldInv
  BY <1>1 DEF RootInFlight, SpendRunning, Idle, ForetoldInv
<1>. QED  BY <1>1, <1>2, <1>3 DEF FixturesInv

(* Every step is a step of the pool, or none.                              *)
LEMMA FixturesSteps ==
  ASSUME FixturesInv, [FixturesNext]_fvars
  PROVE  [AnyStep]_vars
<1>1. CASE \E p \in Plans : Generate(p)
  BY <1>1 DEF Generate
<1>2. ASSUME NEW k \in DOMAIN fix.shields, ShieldNote(k) PROVE AnyStep
  <2>1. fix.shields[k] \in Notes
    BY DEF FixturesInv, FixtureOK
  <2>2. fix.shields[k].inner \in Inners /\ fix.shields[k].value \in Values
    BY <2>1 DEF Notes
  <2>. QED  BY <1>2, <2>2 DEF ShieldNote, AnyStep
<1>3. ASSUME NEW key \in DOMAIN fix.spends, SpendKey(key) PROVE UNCHANGED vars
  BY <1>3 DEF SpendKey
<1>4. ASSUME NEW tx \in pending, IncludePending(tx) PROVE AnyStep
  <2>1. PICK e, ref : EntryOK(e) /\ ref.root = e.root /\ tx = BuildTx(e.req, PoolRef(ref))
    BY DEF FixturesInv, FixtureTx
  <2>2. e.req \in RequestRecords
    BY <2>1 DEF EntryOK
  <2>. QED  BY <1>4, <2>1, <2>2 DEF IncludePending, AnyStep
<1>5. CASE ExecutePending
  BY <1>5 DEF ExecutePending, AnyStep
<1>6. ASSUME NEW n \in Strangers, StrangerShields(n) PROVE AnyStep
  <2>1. n.inner \in Inners /\ n.value \in Values
    BY FixturesAssumption DEF Notes
  <2>. QED  BY <1>6, <2>1 DEF StrangerShields, AnyStep
<1>7. CASE NextSlot
  BY <1>7 DEF NextSlot, AnyStep
<1>8. CASE UNCHANGED fvars
  BY <1>8 DEF fvars
<1>. QED
  BY <1>1, <1>2, <1>3, <1>4, <1>5, <1>6, <1>7, <1>8 DEF FixturesNext

(* Where the pool does not move, what is known of the tree stays.          *)
LEMMA PoolStands ==
  ASSUME FixturesInv, UNCHANGED vars
  PROVE  PoolInv' /\ RootInFlight'
<1>1. PoolInv'
  BY PoolInvStep DEF FixturesInv
<1>2. leaves' = leaves /\ exec' = exec
  BY DEF vars, storage
<1>. QED
  BY <1>1, <1>2 DEF FixturesInv, RootInFlight, SpendRunning, Idle, SpendInFlight,
                    SettleFrame, LastFrame

(* A generator writes a fixture that starts from the tree there is.        *)
LEMMA GenerateKeeps ==
  ASSUME FixturesInv, NEW p \in Plans, Generate(p)
  PROVE  FixturesInv'
<1> DEFINE f == IF p.kind = "smoke" THEN Smoke(p) ELSE Race(p)
<1>1. /\ runs < Len(Secrets) /\ Writes(p, f) /\ fix' = f
      /\ undisturbed' = (Len(leaves) = f.base) /\ runs' = runs + 1
      /\ UNCHANGED vars /\ pending' = pending
  BY DEF Generate
<1>2. CanDraw /\ leaves \in Seq(Notes) /\ p.kind \in {"smoke", "race"}
  BY <1>1, PlansAssumption DEF CanDraw, FixturesInv, PoolInv, IInv, TypeOK
<1>3. FixtureOK(f) /\ StartsHere(f)
  BY <1>1, <1>2, SmokeOK, RaceOK
<1> HIDE DEF f
<1>4. leaves' = leaves
  BY <1>1 DEF vars, storage
<1>5. FixtureOK(fix')
  BY <1>1, <1>3
<1>6. ForetoldInv'
  BY <1>1, <1>3, <1>4 DEF ForetoldInv, StartsHere
<1>7. PoolInv' /\ RootInFlight'
  BY <1>1, PoolStands
<1>8. runs' \in Nat /\ undisturbed' \in BOOLEAN
  BY <1>1 DEF FixturesInv
<1>. QED  BY <1>1, <1>5, <1>6, <1>7, <1>8 DEF FixturesInv, FixtureOK, FixtureTx

(* The tool adds an envelope of the fixture's.                             *)
LEMMA SpendKeyKeeps ==
  ASSUME FixturesInv, NEW key \in DOMAIN fix.spends, SpendKey(key)
  PROVE  FixturesInv'
<1>1. PICK tx \in Envelopes(key) : pending' = pending \cup {tx}
  BY DEF SpendKey
<1>2. UNCHANGED <<fix, runs, undisturbed>> /\ UNCHANGED vars
  BY DEF SpendKey
<1>3. FixtureTx(tx)
  <2>1. PICK e \in ring : /\ e.root = fix.spends[key].root
                          /\ tx = BuildTx(fix.spends[key].req, PoolRef(e))
    BY <1>1 DEF Envelopes
  <2>. QED  BY <2>1 DEF FixturesInv, FixtureOK, FixtureTx
<1>4. leaves' = leaves
  BY <1>2 DEF vars, storage
<1>5. ForetoldInv'
  BY <1>2, <1>4 DEF FixturesInv, ForetoldInv
<1>6. PoolInv' /\ RootInFlight'
  BY <1>2, PoolStands
<1>7. \A q \in pending' : FixtureTx(q)
  BY <1>1, <1>3 DEF FixturesInv
<1>. QED  BY <1>2, <1>5, <1>6, <1>7 DEF FixturesInv, FixtureOK, FixtureTx

(* The reference of an included envelope names a root of this tree.        *)
LEMMA IncludePendingKeeps ==
  ASSUME FixturesInv, NEW tx \in pending, IncludePending(tx)
  PROVE  FixturesInv'
<1>1. PICK e, ref : EntryOK(e) /\ ref.root = e.root /\ tx = BuildTx(e.req, PoolRef(ref))
  BY DEF FixturesInv, FixtureTx
<1>2. /\ tx.refs = <<PoolRef(ref)>> /\ PoolRef(ref).source = Pool
      /\ PoolRef(ref).root = e.root /\ SettleFrame(tx).call.spend = SpendOf(e.req, e.root)
  BY <1>1, EntryTx
<1>3. Extends(e.root, leaves)
  <2>1. RefValid(PoolRef(ref))
    <3>1. tx.refs[1] = PoolRef(ref) /\ 1 \in DOMAIN tx.refs
      BY <1>2
    <3>. QED  BY <3>1 DEF IncludePending, Validate
  <2>2. PICK f \in ring : f.root = e.root
    BY <1>2, <2>1 DEF RefValid
  <2>. QED  BY <2>2 DEF FixturesInv, PoolInv, IInv, RootsInv
<1>4. /\ leaves' = leaves /\ exec'.tx = tx
      /\ UNCHANGED <<fix, runs, undisturbed, pending>>
  BY DEF IncludePending, Validate, storage
<1>5. RootInFlight'
  <2>1. SpendInFlight' = SpendOf(e.req, e.root)
    BY <1>2, <1>4 DEF SpendInFlight, SettleFrame, LastFrame
  <2>2. SpendInFlight'.root = e.root
    BY <2>1 DEF SpendOf
  <2>. QED  BY <1>3, <1>4, <2>2 DEF RootInFlight
<1>6. ForetoldInv'
  BY <1>4 DEF FixturesInv, ForetoldInv
<1>7. PoolInv'
  <2>1. [FixturesNext]_fvars
    BY DEF FixturesNext
  <2>. QED  BY <2>1, FixturesSteps, PoolInvStep DEF FixturesInv
<1>. QED  BY <1>4, <1>5, <1>6, <1>7 DEF FixturesInv, FixtureOK, FixtureTx

(* A deposit of the fixture's takes the tree a leaf further on its way, if *)
(* it is the next one; out of turn, like a stranger's, it disturbs.        *)
LEMMA ShieldNoteKeeps ==
  ASSUME FixturesInv, NEW k \in DOMAIN fix.shields, ShieldNote(k)
  PROVE  FixturesInv'
<1>1. /\ Idle /\ exec' = exec /\ UNCHANGED <<fix, runs, pending>>
      /\ leaves' = Append(leaves, [inner |-> fix.shields[k].inner,
                                   value |-> fix.shields[k].value])
      /\ undisturbed' = (undisturbed /\ Len(leaves) = fix.base + k - 1)
  BY DEF ShieldNote, Shield
<1>2. fix.shields[k] \in Notes /\ fix.base \in Nat /\ k \in Nat
  BY DEF FixturesInv, FixtureOK
<1>3. leaves' = Append(leaves, fix.shields[k])
  <2>1. [inner |-> fix.shields[k].inner, value |-> fix.shields[k].value] = fix.shields[k]
    BY <1>2 DEF Notes
  <2>. QED  BY <1>1, <2>1
<1>4. leaves \in Seq(Notes) /\ RootInFlight'
  BY <1>1 DEF FixturesInv, PoolInv, IInv, TypeOK, RootInFlight, SpendRunning, Idle
<1>5. ForetoldInv'
  <2> SUFFICES ASSUME undisturbed', NEW key \in DOMAIN fix.spends,
                      Len(leaves') <= Len(fix.spends[key].root)
               PROVE  Extends(leaves', fix.spends[key].root)
    BY <1>1 DEF ForetoldInv
  <2> DEFINE root == fix.spends[key].root
  <2>1. /\ root \in Seq(Notes) /\ root[fix.base + k] = fix.shields[k]
    BY DEF FixturesInv, FixtureOK, EntryOK, Foretells
  <2>2. undisturbed /\ Len(leaves) = fix.base + k - 1
    BY <1>1
  <2>3. Len(leaves') = Len(leaves) + 1 /\ Len(leaves) \in Nat /\ Len(root) \in Nat
    BY <1>2, <1>3, <1>4, <2>1
  <2>4. Extends(leaves, root)
    BY <2>2, <2>3 DEF FixturesInv, ForetoldInv
  <2>5. fix.base + k = Len(leaves) + 1
    BY <1>2, <2>2, <2>3
  <2> HIDE DEF root
  <2>. QED  BY <1>2, <1>3, <1>4, <2>1, <2>3, <2>4, <2>5 DEF Extends, root
<1>6. PoolInv'
  <2>1. [FixturesNext]_fvars
    BY DEF FixturesNext
  <2>. QED  BY <2>1, FixturesSteps, PoolInvStep DEF FixturesInv
<1>7. undisturbed' \in BOOLEAN
  BY <1>1
<1>. QED  BY <1>1, <1>4, <1>5, <1>6, <1>7 DEF FixturesInv, FixtureOK, FixtureTx

(* A stranger's deposit disturbs, and takes nothing else from a fixture.   *)
LEMMA StrangerKeeps ==
  ASSUME FixturesInv, NEW n \in Strangers, StrangerShields(n)
  PROVE  FixturesInv'
<1>1. /\ Idle /\ exec' = exec /\ UNCHANGED <<fix, runs, pending>> /\ undisturbed' = FALSE
  BY DEF StrangerShields, Shield
<1>2. RootInFlight' /\ ForetoldInv'
  BY <1>1 DEF RootInFlight, SpendRunning, Idle, ForetoldInv
<1>3. PoolInv'
  <2>1. [FixturesNext]_fvars
    BY DEF FixturesNext
  <2>. QED  BY <2>1, FixturesSteps, PoolInvStep DEF FixturesInv
<1>. QED  BY <1>1, <1>2, <1>3 DEF FixturesInv, FixtureOK, FixtureTx

(* Time changes nothing that was foretold.                                 *)
LEMMA NextSlotKeeps ==
  ASSUME FixturesInv, NextSlot
  PROVE  FixturesInv'
<1>1. /\ Idle /\ exec' = exec /\ leaves' = leaves
      /\ UNCHANGED <<fix, runs, undisturbed, pending>>
  BY DEF NextSlot, AdvanceSlot, storage
<1>2. RootInFlight' /\ ForetoldInv'
  BY <1>1 DEF RootInFlight, SpendRunning, Idle, FixturesInv, ForetoldInv
<1>3. PoolInv'
  <2>1. [FixturesNext]_fvars
    BY DEF FixturesNext
  <2>. QED  BY <2>1, FixturesSteps, PoolInvStep DEF FixturesInv
<1>. QED  BY <1>1, <1>2, <1>3 DEF FixturesInv, FixtureOK, FixtureTx

(* Two trees of which one extends the other by one insertion of outputs    *)
(* that the first has not are what FollowsOn says of the second, from any  *)
(* tree on the way.                                                        *)
LEMMA InsertionReaches ==
  ASSUME NEW root \in Seq(Notes), NEW o1 \in Notes, NEW o2 \in Notes, o1 # o2,
         o1 \notin Leaves(root), o2 \notin Leaves(root),
         NEW goal, goal = Append(Append(root, o1), o2),
         NEW ls \in Seq(Notes), Extends(root, ls),
         Len(ls) <= Len(goal) => Extends(ls, goal),
         NEW s, SpendTypeOK(s), s.outCm1 = o1, s.outCm2 = o2,
         InsertOutputs(ls, s) # ls, Len(InsertOutputs(ls, s)) <= Len(goal)
  PROVE  Extends(InsertOutputs(ls, s), goal)
<1> DEFINE end == InsertOutputs(ls, s)
           mid == Append(root, o1)
           n == Len(root)
<1>1. /\ end \in Seq(Notes) /\ Len(end) > Len(ls)
  BY InsertOutputsType, InsertOutputsGrows
<1>2. /\ goal \in Seq(Notes) /\ mid \in Seq(Notes) /\ n \in Nat
      /\ Len(goal) = n + 2 /\ Len(mid) = n + 1
      /\ \A i \in 1 .. n : goal[i] = root[i] /\ mid[i] = root[i]
      /\ goal[n + 1] = o1 /\ mid[n + 1] = o1 /\ goal[n + 2] = o2
  OBVIOUS
<1>3. Len(end) \in Nat /\ Len(ls) \in Nat /\ n <= Len(ls) /\ Len(end) <= n + 2
  BY <1>1, <1>2 DEF Extends
<1>4. Len(ls) = n \/ Len(ls) = n + 1
  BY <1>1, <1>2, <1>3
<1>5. Leaves(mid) = Leaves(root) \cup {o1}
  BY LeavesAppended
<1>6. InsertIfNew(mid, o2) = goal
  BY <1>5 DEF InsertIfNew
<1> HIDE DEF mid
<1>7. InsertIfNew(ls, o1) = mid
  <2>1. CASE Len(ls) = n
    <3>1. ls = root
      BY <2>1 DEF Extends
    <3>. QED  BY <3>1 DEF InsertIfNew, mid
  <2>2. CASE Len(ls) = n + 1
    <3>1. Extends(ls, goal)
      BY <1>2, <2>2
    <3>2. \A i \in 1 .. n + 1 : ls[i] = mid[i]
      <4>1. \A i \in 1 .. n + 1 : goal[i] = ls[i]
        BY <2>2, <3>1 DEF Extends
      <4>. QED  BY <1>2, <4>1
    <3>3. ls = mid
      BY <1>2, <2>2, <3>2
    <3>4. o1 \in Leaves(mid)
      BY <1>5
    <3>. QED  BY <3>3, <3>4 DEF InsertIfNew
  <2>. QED  BY <1>4, <2>1, <2>2
<1>8. end = goal
  BY <1>6, <1>7 DEF InsertOutputs
<1>. QED  BY <1>2, <1>8 DEF Extends

(* A settlement that moves the tree without disturbing is of one of the    *)
(* fixture's spends, and takes the tree to where the others expect it.     *)
LEMMA ExecutePendingKeeps ==
  ASSUME FixturesInv, ExecutePending
  PROVE  FixturesInv'
<1> DEFINE s == SpendInFlight
<1>1. /\ ~Idle /\ exec' = NoTx /\ UNCHANGED <<fix, runs, pending>>
      /\ undisturbed' = (undisturbed /\ (RunsThisFixture \/ leaves' = leaves))
  BY DEF ExecutePending, SettleSuccess, SettleRevert
<1>2. leaves \in Seq(Notes) /\ SpendTypeOK(s)
  BY <1>1 DEF FixturesInv, PoolInv, IInv, TypeOK, ExecTypeOK
<1>3. leaves' = leaves \/ (leaves' = InsertOutputs(leaves, s) /\ SpendRunning)
  <2>1. CASE SettleSuccess
    BY <2>1 DEF SettleSuccess, SettleSucceeds, SettlementAccepts, SettlementCaller,
                TransferOrWithdraw, Settle, SpendInFlight, SpendRunning
  <2>2. CASE SettleRevert
    BY <2>2 DEF SettleRevert, storage
  <2>. QED  BY <2>1, <2>2 DEF ExecutePending
<1>4. RootInFlight'
  BY <1>1 DEF RootInFlight, SpendRunning, Idle
<1>5. ForetoldInv'
  <2>1. CASE leaves' = leaves
    BY <1>1, <2>1 DEF FixturesInv, ForetoldInv
  <2>2. CASE leaves' # leaves
    <3> SUFFICES ASSUME undisturbed', NEW key \in DOMAIN fix.spends,
                        Len(leaves') <= Len(fix.spends[key].root)
                 PROVE  Extends(leaves', fix.spends[key].root)
      BY <1>1 DEF ForetoldInv
    <3>1. undisturbed /\ RunsThisFixture
      BY <1>1, <2>2
    <3>2. PICK run \in DOMAIN fix.spends :
            s = SpendOf(fix.spends[run].req, fix.spends[run].root)
      BY <3>1 DEF RunsThisFixture
    <3> DEFINE e == fix.spends[run]
               d == fix.spends[key]
    <3>3. EntryOK(e) /\ EntryOK(d) /\ FollowsOn(e, d)
      BY DEF FixturesInv, FixtureOK
    <3>4. Len(leaves) <= Len(d.root) => Extends(leaves, d.root)
      BY <3>1 DEF FixturesInv, ForetoldInv
    <3> HIDE DEF e, d
    <3>5. /\ s.root = e.root /\ s.outCm1 = e.req.out1 /\ s.outCm2 = e.req.out2
          /\ e.root \in Seq(Notes) /\ d.root \in Seq(Notes)
          /\ e.req.out1 \in Notes /\ e.req.out2 \in Notes
      <4>1. s = SpendOf(e.req, e.root)
        BY <3>2 DEF e
      <4> HIDE DEF s
      <4>. QED  BY <3>3, <4>1 DEF EntryOK, RequestRecords, SpendOf
    <3>6. leaves' = InsertOutputs(leaves, s) /\ SpendRunning
      BY <1>3, <2>2
    <3>7. Extends(e.root, leaves)
      BY <3>5, <3>6 DEF FixturesInv, RootInFlight
    <3> HIDE DEF s
    <3>8. Len(leaves') <= Len(d.root)
      BY DEF d
    <3>9. Len(leaves') > Len(leaves) /\ leaves' \in Seq(Notes)
      BY <1>2, <2>2, <3>6, InsertOutputsGrows, InsertOutputsType
    <3>10. ~(Len(d.root) <= Len(e.root))
      <4>1. Len(e.root) <= Len(leaves)
        BY <3>7 DEF Extends
      <4>2. Len(e.root) \in Nat /\ Len(leaves) \in Nat /\ Len(d.root) \in Nat
            /\ Len(leaves') \in Nat
        BY <1>2, <3>5, <3>9
      <4>. QED  BY <3>8, <3>9, <4>1, <4>2
    <3>11. /\ e.req.out1 # e.req.out2
           /\ e.req.out1 \notin Leaves(e.root) /\ e.req.out2 \notin Leaves(e.root)
           /\ d.root = Append(Append(e.root, e.req.out1), e.req.out2)
      BY <3>3, <3>10 DEF FollowsOn
    <3>12. Extends(InsertOutputs(leaves, s), d.root)
      BY <1>2, <2>2, <3>4, <3>5, <3>6, <3>7, <3>8, <3>11, InsertionReaches
    <3>. QED  BY <3>6, <3>12 DEF d
  <2>. QED  BY <2>1, <2>2
<1>6. PoolInv'
  <2>1. [FixturesNext]_fvars
    BY DEF FixturesNext
  <2>. QED  BY <2>1, FixturesSteps, PoolInvStep DEF FixturesInv
<1>7. undisturbed' \in BOOLEAN
  BY <1>1
<1>. QED  BY <1>1, <1>4, <1>5, <1>6, <1>7 DEF FixturesInv, FixtureOK, FixtureTx

(* Every step of generator, tool and chain keeps the invariant.            *)
LEMMA FixturesStep == FixturesInv /\ [FixturesNext]_fvars => FixturesInv'
<1> SUFFICES ASSUME FixturesInv, [FixturesNext]_fvars PROVE FixturesInv'
  OBVIOUS
<1>1. CASE UNCHANGED fvars
  <2>1. UNCHANGED vars /\ UNCHANGED <<fix, runs, undisturbed, pending>>
    BY <1>1 DEF fvars
  <2>2. leaves' = leaves
    BY <2>1 DEF vars, storage
  <2>3. ForetoldInv'
    BY <2>1, <2>2 DEF FixturesInv, ForetoldInv
  <2>. QED  BY <2>1, <2>3, PoolStands DEF FixturesInv, FixtureOK, FixtureTx
<1>. QED
  BY <1>1, GenerateKeeps, SpendKeyKeeps, IncludePendingKeeps, ShieldNoteKeeps,
     StrangerKeeps, NextSlotKeeps, ExecutePendingKeeps DEF FixturesNext

(* So it always holds.                                                     *)
LEMMA FixturesInvariance == FixturesSpec => []FixturesInv
BY FixturesStart, FixturesStep, PTL DEF FixturesSpec

(* For every plan, secret, tree and order of deposits: what a generator    *)
(* writes after its own checks, frame 0 and settlement take; a spend of a  *)
(* fixture fails for the chain's reasons only.                             *)
THEOREM FixturesAreApproved == FixturesSpec => []WrittenIsApproved
<1>1. FixturesInv => WrittenIsApproved
  <2> SUFFICES ASSUME FixturesInv, NEW key \in DOMAIN fix.spends,
                      NEW tx \in Envelopes(key),
                      SettleFrame(tx).call.spend.fee >= tx.maxCost
               PROVE  DispatcherApproves(tx, 1) /\ SettlementAccepts(tx, 2, Pool)
    BY DEF WrittenIsApproved
  <2>1. PICK ref \in ring : /\ ref.root = fix.spends[key].root
                            /\ tx = BuildTx(fix.spends[key].req, PoolRef(ref))
    BY DEF Envelopes
  <2>2. EntryOK(fix.spends[key])
    BY DEF FixturesInv, FixtureOK
  <2>. QED  BY <2>1, <2>2, EntryApproved
<1>. QED  BY <1>1, FixturesInvariance, PTL

(* The generators' trees are the pool's: with nobody else depositing, each *)
(* root a fixture foretells is current when the tree has got that far,     *)
(* whether its spends settle, revert or insert a leaf that is there.       *)
THEOREM FixturesForetell == FixturesSpec => []RootsForetold
<1>1. FixturesInv => RootsForetold
  <2> SUFFICES ASSUME FixturesInv, undisturbed, NEW key \in DOMAIN fix.spends,
                      Len(leaves) = Len(fix.spends[key].root)
               PROVE  currentRoot = fix.spends[key].root
    BY DEF RootsForetold
  <2> DEFINE root == fix.spends[key].root
  <2>1. leaves \in Seq(Notes) /\ currentRoot = leaves
    BY DEF FixturesInv, PoolInv, IInv, TypeOK, RootsInv
  <2>2. root \in Seq(Notes)
    BY DEF FixturesInv, FixtureOK, EntryOK
  <2>3. Extends(leaves, root) /\ Len(leaves) = Len(root)
    <3>1. Len(leaves) <= Len(root)
      BY <2>1, <2>2
    <3>. QED  BY <3>1 DEF FixturesInv, ForetoldInv
  <2> HIDE DEF root
  <2>4. leaves = root
    BY <2>1, <2>2, <2>3 DEF Extends
  <2>. QED  BY <2>1, <2>4 DEF root
<1>. QED  BY <1>1, FixturesInvariance, PTL

-----------------------------------------------------------------------------
(* Fixtures: spends that do not share a nullifier *)

(* Two slots less than the ring's size apart have places of their own.     *)
LEMMA RingPlaces ==
  ASSUME NEW n \in Nat \ {0}, NEW a \in Nat, NEW b \in Nat, a < b, b - a < n
  PROVE  a % n # b % n
<1> SUFFICES ASSUME a % n = b % n PROVE FALSE
  OBVIOUS
<1> DEFINE q == a \div n
           o == b \div n
           k == a % n
<1>1. a = n * q + k /\ b = n * o + k /\ q \in Int /\ o \in Int /\ k \in Int
  OBVIOUS
<1> HIDE DEF q, o, k
<1>2. b - a = n * (o - q) /\ o - q \in Int
  BY <1>1
<1>3. ASSUME NEW u \in Int, b - a = n * u PROVE FALSE
  <2>1. CASE u <= 0
    <3>1. n * u <= 0
      BY <2>1
    <3>. QED  BY <1>3, <3>1
  <2>2. CASE u >= 1
    <3>1. n * u >= n
      BY <2>2
    <3>. QED  BY <1>3, <3>1
  <2>. QED  BY <2>1, <2>2
<1>. QED  BY <1>2, <1>3

(* Within a slot the pool replaces no entry but the slot's own.            *)
LEMMA EntriesKept ==
  ASSUME [AnyStep]_vars, NEW e \in ring, e.slot % RingSize # slot % RingSize
  PROVE  e \in ring'
<1>1. ASSUME NEW root, PublishRoot(root) PROVE e \in ring'
  BY <1>1 DEF PublishRoot
<1>2. CASE UNCHANGED vars
  BY <1>2 DEF vars
<1>3. ASSUME NEW i \in Inners, NEW v \in Values, Shield(i, v) PROVE e \in ring'
  BY <1>3 DEF Shield, PublishRoot
<1>4. CASE SettleSuccess
  BY <1>4 DEF SettleSuccess, TransferOrWithdraw, Settle, PublishRoot
<1>5. ASSUME NEW tx, Validate(tx) PROVE e \in ring'
  BY <1>5 DEF Validate
<1>6. CASE SettleRevert \/ AdvanceSlot
  BY <1>6 DEF SettleRevert, AdvanceSlot
<1>7. ASSUME NEW who, ClaimWithdrawal(who) \/ ClaimFee(who) PROVE e \in ring'
  BY <1>7 DEF ClaimWithdrawal, ClaimFee
<1>. QED  BY <1>2, <1>3, <1>4, <1>5, <1>6, <1>7 DEF AnyStep

(* the pool has the gas of every pending spend that frame 0 approves *)
PendingCovered ==
  \A tx \in pending :
    NoncesCurrent(tx) /\ RefValid(tx.refs[1]) /\ DispatcherApproves(tx, 1)
      => balance[Pool] >= tx.maxCost

(* The pool is solvent, and a fixture's spend pays for itself out of its   *)
(* inputs, so the pool can front its gas.                                  *)
LEMMA FixturesCovered == FixturesInv => PendingCovered
<1> SUFFICES ASSUME FixturesInv, NEW tx \in pending, NoncesCurrent(tx),
                    RefValid(tx.refs[1]), DispatcherApproves(tx, 1)
             PROVE  balance[Pool] >= tx.maxCost
  BY DEF PendingCovered
<1>1. PICK e, ref : EntryOK(e) /\ ref.root = e.root /\ tx = BuildTx(e.req, PoolRef(ref))
  BY DEF FixturesInv, FixtureTx
<1>2. e.req \in RequestRecords /\ e.req.sender = Pool /\ e.req.payer = Pool
  BY <1>1 DEF EntryOK
<1>3. IInv /\ MoneyInv /\ Solvent
  BY CoveredSolvent DEF FixturesInv, PoolInv, LedgerInv
<1>. QED  BY <1>1, <1>2, <1>3, SelfPayEnough

(* An envelope of a fixture that is valid stays so within the slot, as     *)
(* long as its nullifiers are not consumed: no deposit, settlement, revert *)
(* or refund takes its reference, its approval or its gas away.            *)
THEOREM DisjointSpends == FixturesSpec => DisjointSpendsIndependent
<1> DEFINE Kept == \A tx \in pending :
                     /\ PrefixValid(tx) /\ slot' = slot
                     /\ \A k \in tx.keys : nonceSeq'[k] = nonceSeq[k]
                     => PrefixValid(tx)'
<1>1. FixturesInv /\ PendingCovered' /\ [FixturesNext]_fvars => [Kept]_fvars
  <2> SUFFICES ASSUME FixturesInv, PendingCovered', [FixturesNext]_fvars,
                      NEW tx \in pending, PrefixValid(tx), slot' = slot,
                      \A k \in tx.keys : nonceSeq'[k] = nonceSeq[k]
               PROVE  PrefixValid(tx)'
    OBVIOUS
  <2>1. PICK e, ref : EntryOK(e) /\ ref.root = e.root /\ tx = BuildTx(e.req, PoolRef(ref))
    BY DEF FixturesInv, FixtureTx
  <2>2. /\ tx.sender = Pool /\ PayerOf(tx) = Pool /\ tx.refs = <<PoolRef(ref)>>
        /\ PoolRef(ref).source = Pool
    BY <2>1, EntryTx
  <2>3. tx.refs[1] = PoolRef(ref) /\ DOMAIN tx.refs = {1}
    BY <2>2
  <2>4. NoncesCurrent(tx)'
    BY DEF PrefixValid, NoncesCurrent
  <2>5. RefValid(tx.refs[1])'
    <3> DEFINE entry == [slot |-> PoolRef(ref).slot, root |-> PoolRef(ref).root]
    <3>1. RefValid(PoolRef(ref))
      BY <2>3 DEF PrefixValid
    <3>2. /\ entry \in ring /\ entry.slot = PoolRef(ref).slot
          /\ entry.slot < slot /\ slot - entry.slot < RingSize
      BY <2>2, <3>1 DEF RefValid
    <3>3. entry.slot \in Nat /\ slot \in Nat /\ RingSize \in Nat \ {0}
      <4>1. TypeOK
        BY DEF FixturesInv, PoolInv, IInv
      <4>2. entry.slot \in 0 .. MaxSlot /\ slot \in 0 .. MaxSlot
        BY <3>2, <4>1 DEF TypeOK
      <4>. QED  BY <4>2, RunAssumption, CapacityAssumption
    <3> HIDE DEF entry
    <3>4. entry.slot % RingSize # slot % RingSize
      BY <3>2, <3>3, RingPlaces
    <3>5. entry \in ring'
      BY <3>2, <3>4, FixturesSteps, EntriesKept
    <3>6. RefValid(PoolRef(ref))'
      BY <3>2, <3>5 DEF RefValid, entry
    <3>. QED  BY <2>3, <3>6
  <2>6. DispatcherApproves(tx, 1) /\ SenderApproves(tx) /\ PayFrameApproves(tx)
    BY <2>2 DEF PrefixValid, SenderApproves
  <2>7. tx \in pending'
    BY DEF FixturesNext, Generate, ShieldNote, SpendKey, IncludePending, ExecutePending,
           StrangerShields, NextSlot, fvars
  <2>8. (SenderApproves(tx) /\ PayFrameApproves(tx) /\ DispatcherApproves(tx, 1))'
    BY <2>6
  <2>9. (balance[Pool] >= tx.maxCost)'
    BY <2>4, <2>5, <2>7, <2>8 DEF PendingCovered
  <2>10. (balance[PayerOf(tx)] >= tx.maxCost)'
    BY <2>2, <2>9 DEF PayerOf, LastFrame
  <2>11. (\A i \in DOMAIN tx.refs : RefValid(tx.refs[i]))'
    BY <2>3, <2>5 DEF RefValid
  <2>. QED  BY <2>4, <2>8, <2>10, <2>11 DEF PrefixValid
<1>2. FixturesSpec => [][Kept]_fvars
  <2> HIDE DEF Kept
  <2>. QED  BY <1>1, FixturesInvariance, FixturesCovered, PTL DEF FixturesSpec
<1>. QED  BY <1>2 DEF DisjointSpendsIndependent

-----------------------------------------------------------------------------
(* The tools on the pool's ledger                                          *)

(* A step of the pool, whoever takes it, is a step of the ledger or none.  *)
LEMMA StepOfLedger == PoolInv /\ [AnyStep]_vars => PoolInv' /\ [Ledger!Next]_Ledger!ledger
BY PoolInvStep, MoneyStep DEF PoolInv

(* What the tools do is no step of the pool; what the chain does is one.   *)
LEMMA SubmitSteps ==
  ASSUME SubmitInv, [SubmitNext]_svars
  PROVE  [AnyStep]_vars
<1>1. CASE Include
  BY <1>1, IncludedBuilt DEF AnyStep
<1>2. CASE Execute \/ ChainMoves
  BY <1>2, DepositsAssumption DEF Execute, ChainMoves, AnyStep
<1>3. ASSUME NEW p \in Tools, ToolStep(p) \/ RpcFails(p) \/ RunAgain(p)
      PROVE  UNCHANGED vars
  BY <1>3 DEF ToolStep, SetUp, Simulate, Send, Poll, RpcFails, RunAgain
<1>4. CASE UNCHANGED svars
  BY <1>4 DEF svars
<1>. QED  BY <1>1, <1>2, <1>3, <1>4 DEF SubmitNext

(* However many tools are run, crash, lose answers and are run again, with *)
(* each other's spends and anybody's in the mempool, ETH, note value and   *)
(* credits move as the ledger moves them.                                  *)
THEOREM SubmittersKeepLedger == SubmitSpec => ImplementsLedger
<1>1. SubmitInit => PoolInv /\ Ledger!Init
  BY PoolInvInit, LedgerInit DEF SubmitInit
<1>2. SubmitInv /\ PoolInv /\ [SubmitNext]_svars => PoolInv' /\ [Ledger!Next]_Ledger!ledger
  BY SubmitSteps, StepOfLedger
<1>. QED
  BY <1>1, <1>2, SubmitInvariance, PTL DEF SubmitSpec, ImplementsLedger, Ledger!Spec

(* The same of the generators' fixtures and the runs that take them to a   *)
(* pool on which strangers deposit.                                        *)
THEOREM FixturesKeepLedger == FixturesSpec => ImplementsLedger
<1>1. FixturesInit => Ledger!Init
  BY LedgerInit DEF FixturesInit
<1>2. FixturesInv /\ [FixturesNext]_fvars => [Ledger!Next]_Ledger!ledger
  BY FixturesSteps, StepOfLedger DEF FixturesInv
<1>. QED
  BY <1>1, <1>2, FixturesInvariance, PTL DEF FixturesSpec, ImplementsLedger, Ledger!Spec

=============================================================================
