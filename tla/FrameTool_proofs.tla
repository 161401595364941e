-------------------------- MODULE FrameTool_proofs --------------------------
(***************************************************************************)
(* What build_and_send guarantees whatever the node answers, however often *)
(* it is run and whatever a frame costs: for any jobs and gas.             *)
(***************************************************************************)
EXTENDS FrameTool, TLAPS

Saws == {"unavailable", "noStatus", "success", "revert", "outOfGas"}

Txs == [job : Jobs, nonce : Nat, measured : Nat, saw : Saws]

(* a transaction a run of job j works on: spends are never sized           *)
Built(j, tx) == tx \in Txs /\ tx.job = j /\ (j \in Spends => tx.measured = 0)

(* one the gate has let through                                            *)
Sendable(tx) ==
  /\ Built(tx.job, tx)
  /\ tx.job \in Spends => tx.saw \in {"success", "noStatus"}

JobDone(j) ==
  IF j \in Spends THEN NoteOf[j] \in settled ELSE deposits[NoteOf[j]] = 1

RunOK(j, t) ==
  /\ t.phase \in Running => Built(j, t.tx)
  /\ t.phase \in {"cleared", "sent"} => Sendable(t.tx)
  /\ t.phase = "sizing" => j \notin Spends /\ t.used \in Nat \ {0} /\ t.sim \in Saws
  /\ t.phase = "mined" => JobDone(j)

ReceiptOK(r) ==
  /\ Sendable(r.tx)
  /\ r.outcome = "success" => JobDone(r.tx.job)
  /\ r.outcome = "outOfGas" => r.need > GasLimit(r.tx)
  /\ r.outcome = "revert" /\ r.tx.job \in Spends => r.full
  /\ r.outcome \in {"success", "outOfGas", "revert"}
  /\ r.need \in Nat

Typed ==
  /\ nonce \in Nat /\ need \in Nat \ {0}
  /\ deposits \in [Notes -> 0 .. 1]
  /\ tool = [j \in Jobs |-> tool[j]]

ToolInv == \A j \in Jobs : RunOK(j, tool[j])
MempoolInv == \A tx \in mempool : Sendable(tx)
ReceiptsInv == \A r \in receipts : ReceiptOK(r)

(* A receipt is kept with the state its transaction met, so that what the  *)
(* tool goes by can be compared with what was done.                        *)
IInv == Typed /\ ToolInv /\ MempoolInv /\ ReceiptsInv

-----------------------------------------------------------------------------
(* The gas *)

(* Gas limits are naturals.                                                *)
LEMMA GasLimitNat == ASSUME NEW tx \in Txs PROVE GasLimit(tx) \in Nat
<1>1. tx.measured \in Nat
  BY DEF Txs
<1>2. tx.measured \div 4 \in Nat
  BY <1>1
<1> QED
  BY <1>1, <1>2, GasAssumption DEF GasLimit, Sized

(* What a node reports as used is a natural.                               *)
LEMMA MeasuredNat ==
  ASSUME Typed, NEW tx \in Txs, NEW used \in Measurements(tx)
  PROVE  used \in Nat
BY GasLimitNat, GasAssumption DEF Measurements, GasUsed, Typed

-----------------------------------------------------------------------------
(* The tool's steps *)

(* a step that gives one run another good state                            *)
LEMMA RunChanged ==
  ASSUME IInv, NEW j \in Jobs, NEW t, RunOK(j, t),
         tool' = [tool EXCEPT ![j] = t], UNCHANGED chain,
         \A tx \in mempool' : Sendable(tx)
  PROVE  IInv'
<1> USE DEF IInv
<1>1. \A i \in Jobs : tool'[i] = IF i = j THEN t ELSE tool[i]
  BY DEF Typed
<1>2. \A i : JobDone(i)' = JobDone(i)
  BY DEF JobDone, chain
<1>3. ToolInv'
  BY <1>1, <1>2 DEF ToolInv, RunOK
<1>4. Typed'
  BY <1>1 DEF Typed, chain
<1>5. MempoolInv'
  BY DEF MempoolInv
<1>6. ReceiptsInv'
  BY <1>2 DEF ReceiptsInv, ReceiptOK, chain
<1> QED
  BY <1>3, <1>4, <1>5, <1>6

(* A run that ends without having sent leaves the invariant intact.        *)
LEMMA Exits ==
  ASSUME IInv, NEW j \in Jobs, NEW phase \in {"idle", "reverted"},
         Exit(j, phase), UNCHANGED chain, \A tx \in mempool' : Sendable(tx)
  PROVE  IInv'
<1>1. RunOK(j, [phase |-> phase])
  BY DEF RunOK, Running
<1> QED
  BY <1>1, RunChanged DEF Exit

(* So does the gate, for an envelope that was built and an answer of the   *)
(* node.                                                                   *)
LEMMA Gates ==
  ASSUME IInv, NEW j \in Jobs, NEW tx, Built(j, tx), NEW sim \in Saws,
         sim = "unavailable" => j \notin Spends,
         Gate(j, tx, sim), UNCHANGED <<chain, mempool>>
  PROVE  IInv'
<1>0. \A m \in mempool' : Sendable(m)
  BY DEF IInv, MempoolInv
<1>1. CASE sim \in {"revert", "outOfGas"}
  BY <1>0, <1>1, Exits DEF Gate
<1>2. CASE sim \notin {"revert", "outOfGas"}
  <2> DEFINE tx2 == IF j \in Spends THEN [tx EXCEPT !.saw = sim] ELSE tx
  <2>1. tx2 \in Txs /\ tx2.job = j /\ tx2.measured = tx.measured
        /\ (j \in Spends => tx2.saw = sim)
    BY DEF Built, Txs
  <2>2. Built(j, tx2) /\ Sendable(tx2)
    BY <1>2, <2>1 DEF Built, Sendable, Saws
  <2>3. RunOK(j, [phase |-> "cleared", tx |-> tx2])
    BY <2>2 DEF RunOK, Running
  <2>4. tool' = [tool EXCEPT ![j] = [phase |-> "cleared", tx |-> tx2]]
    BY <1>2 DEF Gate, Goto
  <2> QED
    BY <1>0, <2>3, <2>4, RunChanged
<1> QED
  BY <1>1, <1>2

(* Every step of a run keeps the invariant.                                *)
LEMMA ToolSteps ==
  ASSUME IInv, NEW j \in Jobs, ToolStep(j) \/ DryRun(j) \/ RpcFails(j)
  PROVE  IInv'
<1> USE DEF IInv
<1>a. RunOK(j, tool[j])
  BY DEF ToolInv
<1>b. mempool' = mempool => \A m \in mempool' : Sendable(m)
  BY DEF MempoolInv
<1>1. CASE Start(j)
  <2>1. Built(j, Build(j))
    BY DEF Built, Build, Txs, Saws, Typed
  <2>2. RunOK(j, [phase |-> "built", tx |-> Build(j)])
    BY <2>1 DEF RunOK, Running
  <2> QED
    BY <1>1, <1>b, <2>2, RunChanged DEF Start, Goto
<1>2. CASE Simulate(j)
  <2> DEFINE tx == tool[j].tx
  <2>1. Built(j, tx) /\ tx \in Txs
    BY <1>2, <1>a DEF Simulate, RunOK, Running, Built
  <2>2. CASE Exit(j, "idle")
    BY <1>2, <1>b, <2>2, Exits DEF Simulate
  <2>3. CASE j \notin Spends /\ Goto(j, "cleared", tx)
    <3>1. Sendable(tx)
      BY <2>1, <2>3 DEF Sendable, Built
    <3>2. RunOK(j, [phase |-> "cleared", tx |-> tx])
      BY <2>1, <3>1 DEF RunOK, Running
    <3> QED
      BY <1>2, <1>b, <2>3, <3>2, RunChanged DEF Simulate, Goto
  <2>4. ASSUME NEW sim \in Simulations(tx), NEW used \in Measurements(tx),
               Sizes(j), used # 0,
               tool' = [tool EXCEPT ![j] =
                          [phase |-> "sizing", tx |-> tx, sim |-> sim, used |-> used]]
        PROVE  IInv'
    <3>1. sim \in Saws
      BY DEF Simulations, Outcome, Saws
    <3>2. used \in Nat \ {0}
      BY <2>1, <2>4, MeasuredNat
    <3>3. RunOK(j, [phase |-> "sizing", tx |-> tx, sim |-> sim, used |-> used])
      BY <2>1, <2>4, <3>1, <3>2 DEF RunOK, Running, Sizes
    <3> QED
      BY <1>2, <1>b, <2>4, <3>3, RunChanged DEF Simulate
  <2>5. ASSUME NEW sim \in Simulations(tx), Gate(j, tx, sim)
        PROVE  IInv'
    <3>1. sim \in Saws /\ sim # "unavailable"
      BY DEF Simulations, Outcome, Saws
    <3> QED
      BY <1>2, <2>1, <2>5, <3>1, Gates DEF Simulate
  <2> QED
    BY <1>2, <2>2, <2>3, <2>4, <2>5 DEF Simulate
<1>3. CASE Resimulate(j)
  <2> DEFINE tx == tool[j].tx
             tx2 == [tx EXCEPT !.measured = tool[j].used]
  <2>1. Built(j, tx) /\ j \notin Spends /\ tool[j].used \in Nat /\ tool[j].sim \in Saws
    BY <1>3, <1>a DEF Resimulate, RunOK, Running
  <2>2. Built(j, tx2)
    BY <2>1 DEF Built, Txs
  <2>3. ASSUME NEW sim \in Simulations(tx2), Gate(j, tx2, sim)
        PROVE  IInv'
    <3>1. sim \in Saws
      BY DEF Simulations, Outcome, Saws
    <3> QED
      BY <1>3, <2>1, <2>2, <2>3, <3>1, Gates DEF Resimulate
  <2>4. CASE Gate(j, tx, tool[j].sim)
    BY <1>3, <2>1, <2>4, Gates DEF Resimulate
  <2> QED
    BY <1>3, <2>3, <2>4 DEF Resimulate
<1>4. CASE Send(j)
  <2> DEFINE tx == tool[j].tx
  <2>1. Built(j, tx) /\ Sendable(tx)
    BY <1>4, <1>a DEF Send, RunOK, Running
  <2>2. CASE mempool' = mempool \cup {tx} /\ Goto(j, "sent", tx)
    <3>1. RunOK(j, [phase |-> "sent", tx |-> tx])
      BY <2>1 DEF RunOK, Running
    <3>2. \A m \in mempool' : Sendable(m)
      BY <2>1, <2>2 DEF MempoolInv
    <3> QED
      BY <1>4, <2>2, <3>1, <3>2, RunChanged DEF Send, Goto
  <2>3. CASE Exit(j, "idle") /\ UNCHANGED mempool
    BY <1>4, <1>b, <2>3, Exits DEF Send
  <2> QED
    BY <1>4, <2>2, <2>3 DEF Send
<1>5. CASE Wait(j)
  <2>1. CASE "success" \in Outcomes(tool[j].tx)
    <3>1. PICK r \in receipts : r.tx = tool[j].tx /\ r.outcome = "success"
      BY <2>1 DEF Outcomes
    <3>2. tool[j].tx.job = j
      BY <1>5, <1>a DEF Wait, RunOK, Running, Built
    <3>3. JobDone(j)
      BY <3>1, <3>2 DEF ReceiptsInv, ReceiptOK
    <3>4. RunOK(j, [phase |-> "mined"])
      BY <3>3 DEF RunOK, Running
    <3>5. Exit(j, "mined")
      BY <1>5, <2>1 DEF Wait
    <3> QED
      BY <1>5, <1>b, <3>4, <3>5, RunChanged DEF Wait, Exit
  <2>2. CASE "success" \notin Outcomes(tool[j].tx)
    <3>1. Exit(j, "idle") \/ Exit(j, "reverted")
      BY <1>5, <2>2 DEF Wait
    <3> QED
      BY <1>5, <1>b, <3>1, Exits DEF Wait
  <2> QED
    BY <2>1, <2>2
<1>6. CASE DryRun(j)
  BY <1>6, <1>b, Exits DEF DryRun
<1>7. CASE RpcFails(j)
  <2>1. tool[j].phase = "cleared" => Sendable(tool[j].tx)
    BY <1>a DEF RunOK
  <2>2. \A m \in mempool' : Sendable(m)
    BY <1>7, <2>1 DEF RpcFails, MempoolInv
  <2> QED
    BY <1>7, <2>2, Exits DEF RpcFails
<1> QED
  BY <1>1, <1>2, <1>3, <1>4, <1>5, <1>6, <1>7 DEF ToolStep

-----------------------------------------------------------------------------
(* The chain's steps *)

(* What a block adds to the receipts is true of it, and what was done      *)
(* stays done.                                                             *)
LEMMA Includes ==
  ASSUME IInv, NEW tx \in mempool, Include(tx)
  PROVE  IInv'
<1> USE DEF IInv
<1> DEFINE note == NoteOf[tx.job]
<1>1. Sendable(tx) /\ tx \in Txs /\ tx.job \in Jobs /\ note \in Notes
  BY DEF MempoolInv, Sendable, Built, Txs, Notes
<1>2. Outcome(tx) = "success" /\ tx.job \notin Spends => deposits[note] = 0
  <2> SUFFICES ASSUME Outcome(tx) = "success", tx.job \notin Spends
               PROVE deposits[note] = 0
    OBVIOUS
  <2>1. ~Reverts(tx)
    BY DEF Outcome
  <2>2. ~(deposits[note] > 0)
    BY <1>1, <2>1 DEF Reverts, Jobs
  <2> QED
    BY <1>1, <2>2 DEF Typed
<1>3. deposits' \in [Notes -> 0 .. 1] /\ \A n \in Notes : deposits[n] = 1 => deposits'[n] = 1
  BY <1>1, <1>2 DEF Include, Typed
<1>4. settled \subseteq settled'
  BY DEF Include
<1>5. \A j \in Jobs : JobDone(j) => JobDone(j)'
  BY <1>3, <1>4 DEF JobDone, Notes
<1>6. Outcome(tx) = "success" => JobDone(tx.job)'
  BY <1>1, <1>2 DEF Include, JobDone, Typed
<1>7. Typed'
  BY <1>3 DEF Include, Typed
<1>8. ToolInv'
  BY <1>5 DEF Include, ToolInv, RunOK
<1>9. MempoolInv'
  BY DEF Include, MempoolInv
<1>10. ReceiptsInv'
  <2> DEFINE new == [tx |-> tx, outcome |-> Outcome(tx), full |-> full, need |-> need]
  <2>1. receipts' = receipts \cup {new}
    BY DEF Include
  <2>2. \A r \in receipts : ReceiptOK(r)'
    <3> SUFFICES ASSUME NEW r \in receipts PROVE ReceiptOK(r)'
      OBVIOUS
    <3>1. r.tx.job \in Jobs
      BY DEF ReceiptsInv, ReceiptOK, Sendable, Built, Txs
    <3> QED
      BY <1>5, <3>1 DEF ReceiptsInv, ReceiptOK
  <2>3. Outcome(tx) \in {"success", "outOfGas", "revert"}
    BY DEF Outcome
  <2>4. Outcome(tx) = "outOfGas" => need > GasLimit(tx)
    BY DEF Outcome
  <2>5. Outcome(tx) = "revert" /\ tx.job \in Spends => full
    BY JobsAssumption DEF Outcome, Reverts
  <2>6. ASSUME NEW r \in {new} PROVE ReceiptOK(r)'
    BY <1>1, <1>6, <2>3, <2>4, <2>5 DEF ReceiptOK, Typed
  <2>7. ASSUME NEW r \in receipts' PROVE ReceiptOK(r)'
    <3>1. r \in receipts \/ r \in {new}
      BY <2>1
    <3> HIDE DEF new
    <3> QED
      BY <2>2, <2>6, <3>1
  <2> QED
    BY <2>7 DEF ReceiptsInv
<1> QED
  BY <1>7, <1>8, <1>9, <1>10

(* Before the first run the invariant holds.                               *)
LEMMA InvInit == Init => IInv
<1> SUFFICES ASSUME Init PROVE IInv
  OBVIOUS
<1>1. Typed
  BY GasAssumption DEF Init, Typed
<1>2. \A j \in Jobs : RunOK(j, NoRun)
  BY DEF RunOK, NoRun, Running
<1>3. ToolInv
  BY <1>2 DEF Init, ToolInv
<1> QED
  BY <1>1, <1>3 DEF Init, IInv, MempoolInv, ReceiptsInv

(* Every step, of the tool or of the chain, keeps it.                      *)
LEMMA InvNext == IInv /\ [Next]_vars => IInv'
<1> SUFFICES ASSUME IInv, [Next]_vars PROVE IInv'
  OBVIOUS
<1>1. ASSUME NEW j \in Jobs, ToolStep(j) \/ DryRun(j) \/ RpcFails(j) PROVE IInv'
  BY <1>1, ToolSteps
<1>2. ASSUME NEW tx \in mempool, Include(tx) PROVE IInv'
  BY <1>2, Includes
<1>3. CASE FillsUp \/ Spike
  BY <1>3, GasAssumption DEF FillsUp, Spike, IInv, Typed, ToolInv, MempoolInv,
     ReceiptsInv, ReceiptOK, RunOK, JobDone
<1>4. CASE UNCHANGED vars
  BY <1>4 DEF vars, chain, IInv, Typed, ToolInv, MempoolInv, ReceiptsInv,
     ReceiptOK, RunOK, JobDone
<1> QED
  BY <1>1, <1>2, <1>3, <1>4 DEF Next

(* No note is paid for twice, for any number of jobs, runs, lost answers   *)
(* and transactions still out.                                             *)
THEOREM NotDepositedTwice == Spec => []DepositedOnce
<1>1. IInv => DepositedOnce
  BY DEF IInv, Typed, DepositedOnce
<1> QED
  BY <1>1, InvInit, InvNext, PTL DEF Spec

(* A run reports success only of what its own transaction has achieved.    *)
THEOREM ReportsAreTrue == Spec => []MinedIsDone
<1>1. IInv => MinedIsDone
  BY DEF IInv, ToolInv, RunOK, JobDone, MinedIsDone
<1> QED
  BY <1>1, InvInit, InvNext, PTL DEF Spec

(* The tool burns no spend it could have known to fail, for any gas and    *)
(* any answers.                                                            *)
THEOREM OnlySurprisesBurn == Spec => []BurnsAreSurprises
<1>1. IInv => BurnsAreSurprises
  <2> SUFFICES ASSUME IInv, NEW r \in receipts,
                      r.tx.job \in Spends, r.outcome # "success"
               PROVE  /\ r.full \/ r.need > DefaultGas
                      /\ r.tx.saw \in {"success", "noStatus"}
    BY DEF BurnsAreSurprises
  <2>1. ReceiptOK(r)
    BY DEF IInv, ReceiptsInv
  <2>2. r.tx.measured = 0
    BY <2>1 DEF ReceiptOK, Sendable, Built
  <2>3. GasLimit(r.tx) = DefaultGas
    BY <2>2 DEF GasLimit
  <2> QED
    BY <2>1, <2>3 DEF ReceiptOK, Sendable
<1> QED
  BY <1>1, InvInit, InvNext, PTL DEF Spec

(* The margin is a quarter for every measurement, although the sizing      *)
(* rounds down.                                                            *)
THEOREM QuarterOfMargin == Spec => []QuarterIsMargin
<1>1. IInv => QuarterIsMargin
  <2> SUFFICES ASSUME IInv, NEW r \in receipts,
                      r.outcome = "outOfGas", r.tx.measured # 0
               PROVE  4 * r.need > 5 * r.tx.measured
    BY DEF QuarterIsMargin
  <2>1. ReceiptOK(r)
    BY DEF IInv, ReceiptsInv
  <2>2. r.tx.measured \in Nat /\ r.need \in Nat
    BY <2>1 DEF ReceiptOK, Sendable, Built, Txs
  <2>3. r.need > r.tx.measured + r.tx.measured \div 4
    BY <2>1 DEF ReceiptOK, GasLimit, Sized
  <2>4. ASSUME NEW m \in Nat, NEW k \in Nat, k > m + m \div 4
        PROVE  4 * k > 5 * m
    BY <2>4
  <2> QED
    BY <2>2, <2>3, <2>4
<1> QED
  BY <1>1, InvInit, InvNext, PTL DEF Spec

=============================================================================
