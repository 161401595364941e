----------------------------- MODULE Submitter ------------------------------
(***************************************************************************)
(* Spends sent with devnet/pool_frametx.py against a live pool.  A tool    *)
(* process builds its envelope against a published root, has the node      *)
(* simulate it at head, refuses to send what does not simulate cleanly,    *)
(* sends the rest and polls for the receipt.  Every step is an RPC of its  *)
(* own: the chain moves between any two of them, and a call may fail after *)
(* the node has acted on it.  The operator may run a tool again.           *)
(***************************************************************************)
EXTENDS Simulation

CONSTANTS
  Tools,      (* processes of the tool                            *)
  Job,        (* the spend each of them submits                   *)
  MaxPolls,   (* receipt polls before it gives up, 30             *)
  MaxRuns     (* bound on the times a tool is run                 *)

ASSUME ToolsAssumption ==
  /\ MaxPolls \in Nat \ {0} /\ MaxRuns \in Nat \ {0}
  /\ \A p \in Tools : Job[p] \in RequestRecords /\ Job[p].sender = Pool

VARIABLES
  mempool,    (* the raw transactions the node has accepted                *)
  receipts,   (* of the pool's included transactions: [tx, settled]        *)
  tool        (* per process: phase, runs, polls, tx, and the leaves it    *)
              (* saw in the tree when it simulated                         *)

svars == <<vars, mempool, receipts, tool>>

Running == {"setup", "built", "clean", "sent"}
Ended == {"refused", "crashed", "timedOut", "mined", "reverted"}

NewRun(phase, runs) ==
  [phase |-> phase, runs |-> runs, polls |-> 0, seen |-> 0, tx |-> NoTx]

Goto(p, phase) == tool' = [tool EXCEPT ![p].phase = phase]

(* the process ends, and what it knew is gone *)
Exit(p, phase) == tool' = [tool EXCEPT ![p] = NewRun(phase, @.runs)]

-----------------------------------------------------------------------------
(* The tool *)

(* spend_setup and build: the publication slot is derived from a block     *)
(* time and checked, with the root, against the committed entry            *)
SetUp(p) ==
  /\ Idle /\ tool[p].phase = "setup"
  /\ \E n \in 0 .. Len(leaves), derived \in 0 .. slot :
       LET e == [slot |-> derived, root |-> SubSeq(leaves, 1, n)]
       IN  IF e \in ring
           THEN tool' = [tool EXCEPT ![p].phase = "built",
                           ![p].tx = BuildTx(Job[p], PoolRef(e))]
           ELSE Exit(p, "refused")
  /\ UNCHANGED <<vars, mempool, receipts>>

(* an endpoint without the simulation method is refused for spends too *)
Simulate(p) ==
  /\ Idle /\ tool[p].phase = "built"
  /\ \/ /\ SimulatesCleanly(tool[p].tx)
        /\ tool' = [tool EXCEPT ![p].phase = "clean", ![p].seen = Len(leaves)]
     \/ ~SimulatesCleanly(tool[p].tx) /\ Exit(p, "refused")
     \/ Exit(p, "refused")
  /\ UNCHANGED <<vars, mempool, receipts>>

(* eth_sendRawTransaction: the node checks the prefix again *)
Send(p) ==
  /\ Idle /\ tool[p].phase = "clean"
  /\ IF PrefixValid(tool[p].tx)
     THEN /\ mempool' = mempool \cup {tool[p].tx}
          /\ tool' = [tool EXCEPT ![p].phase = "sent", ![p].polls = 0]
     ELSE /\ Exit(p, "crashed")
          /\ UNCHANGED mempool
  /\ UNCHANGED <<vars, receipts>>

StatusOf(tx) == {r.settled : r \in {q \in receipts : q.tx = tx}}

(* for the mutation runs: polling for as long as there is no receipt *)
PollForever(p) ==
  /\ tool[p].phase = "sent"
  /\ \/ TRUE \in StatusOf(tool[p].tx) /\ Goto(p, "mined")
     \/ FALSE \in StatusOf(tool[p].tx) /\ Goto(p, "reverted")
  /\ UNCHANGED <<vars, mempool, receipts>>

(* for the mutation runs: a receipt reported without reading its status *)
PollForAnyReceipt(p) ==
  /\ tool[p].phase = "sent"
  /\ IF StatusOf(tool[p].tx) # {} THEN Goto(p, "mined") ELSE Exit(p, "timedOut")
  /\ UNCHANGED <<vars, mempool, receipts>>

Poll(p) ==
  /\ tool[p].phase = "sent"
  /\ \/ TRUE \in StatusOf(tool[p].tx) /\ Goto(p, "mined")
     \/ FALSE \in StatusOf(tool[p].tx) /\ Goto(p, "reverted")
     \/ /\ StatusOf(tool[p].tx) = {}
        /\ IF tool[p].polls + 1 < MaxPolls
           THEN tool' = [tool EXCEPT ![p].polls = @ + 1]
           ELSE Exit(p, "timedOut")
  /\ UNCHANGED <<vars, mempool, receipts>>

(* An RPC times out or its answer is lost, which ends the process; the     *)
(* node may have taken the transaction all the same.                       *)
RpcFails(p) ==
  /\ Idle /\ tool[p].phase \in Running
  /\ Exit(p, "crashed")
  /\ mempool' \in {mempool} \cup
       {mempool \cup {tx} : tx \in {t \in {tool[p].tx} :
                              tool[p].phase = "clean" /\ PrefixValid(t)}}
  /\ UNCHANGED <<vars, receipts>>

(* the operator, not knowing what became of the last run, starts another *)
RunAgain(p) ==
  /\ tool[p].phase \in {"refused", "crashed", "timedOut"}
  /\ tool[p].runs < MaxRuns
  /\ tool' = [tool EXCEPT ![p] = NewRun("setup", @.runs + 1)]
  /\ UNCHANGED <<vars, mempool, receipts>>

-----------------------------------------------------------------------------
(* The chain: the pool's steps, with the transactions of the mempool next  *)
(* to those the other wallets of Requests send                             *)

Include ==
  /\ \/ \E tx \in mempool : Validate(tx)
     \/ \E r \in Requests : \E tx \in TxsOf(r) : Validate(tx)
  /\ UNCHANGED <<mempool, receipts, tool>>

Receipt(settled) == receipts' = receipts \cup {[tx |-> exec.tx, settled |-> settled]}

Execute ==
  /\ \/ SettleSuccess /\ Receipt(TRUE)
     \/ SettleRevert /\ Receipt(FALSE)
  /\ UNCHANGED <<mempool, tool>>

ChainMoves ==
  /\ \/ \E i \in Inners, v \in ShieldValues : Shield(i, v)
     \/ AdvanceSlot
     \/ \E who \in Accounts : ClaimWithdrawal(who) \/ ClaimFee(who)
  /\ UNCHANGED <<mempool, receipts, tool>>

SubmitInit ==
  /\ Init
  /\ mempool = {} /\ receipts = {}
  /\ tool = [p \in Tools |-> NewRun("setup", 1)]

ToolStep(p) == SetUp(p) \/ Simulate(p) \/ Send(p) \/ Poll(p)

SubmitNext ==
  \/ Include \/ Execute \/ ChainMoves
  \/ \E p \in Tools : ToolStep(p) \/ RpcFails(p) \/ RunAgain(p)

(* A process that has not ended gets an answer to its next call eventually *)
(* (the calls have a timeout of 20 s), and a block finishes executing.     *)
(* Nothing obliges the chain to include anything.                          *)
SubmitSpec ==
  /\ SubmitInit /\ [][SubmitNext]_svars
  /\ WF_svars(Execute)
  /\ \A p \in Tools : SF_svars(ToolStep(p))

-----------------------------------------------------------------------------
(* Properties *)

(* What the tool says of a spend is so: a spend reported mined has         *)
(* consumed both nullifiers in one settlement and its outputs are in the   *)
(* tree; one reported reverted is burned, its nullifiers gone and neither  *)
(* spent by a settlement, whoever else sent a copy and however often the   *)
(* tool was run.                                                           *)
ReportTruthful ==
  \A p \in Tools :
    LET s == SettleFrame(tool[p].tx).call.spend
    IN  /\ tool[p].phase = "mined" =>
             /\ noteSpent[s.nf1] = 1 /\ noteSpent[s.nf2] = 1
             /\ {s.outCm1, s.outCm2} \subseteq Leaves(leaves)
        /\ tool[p].phase = "reverted" => {s.nf1, s.nf2} \subseteq Burned

(* The simulation gate leaves one way to burn a note with this tool: the   *)
(* tree has grown between the simulation and the execution.                *)
BurnsOnlyIfRaced ==
  \A p \in Tools :
    tool[p].phase = "reverted" => tool[p].seen < Len(leaves)

(* Lost answers, timeouts and repeated runs put several envelopes for the  *)
(* same notes into the mempool, for different roots: at most one of all    *)
(* envelopes that consume a nullifier is ever included.                    *)
OneOutcome ==
  \A q, r \in receipts :
    q.tx.sender = Pool /\ r.tx.sender = Pool /\ q.tx.keys \cap r.tx.keys # {}
      => q = r

(* Every run of the tool comes to an end, also when the transaction is     *)
(* never included.                                                         *)
ToolEnds ==
  \A p \in Tools : tool[p].phase \in Running ~> tool[p].phase \in Ended

=============================================================================
