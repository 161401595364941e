----------------------------- MODULE FrameTool ------------------------------
(***************************************************************************)
(* build_and_send of devnet/pool_frametx.py for both kinds of operation.   *)
(* A deposit is sent from an account with a nonce of its own, and its      *)
(* settle frame is sized from what the node measured; a spend has its      *)
(* nullifiers for nonces and keeps the gas it starts with.  The node may   *)
(* lack the simulation method or leave parts of its answer out.  Every RPC *)
(* is a step: the chain moves between any two, and what a block charges    *)
(* for the same frame varies.                                              *)
(*                                                                         *)
(* The chain is what the tool can tell of it: deposits, consumed notes,    *)
(* whether the tree is full, and the gas a settle frame needs.             *)
(***************************************************************************)
EXTENDS Integers

CONSTANTS
  Shields, Spends,  (* the jobs: command lines the operator wants done     *)
  NoteOf,           (* the note each job deposits or spends                *)
  DefaultGas,       (* sender_gas of build, 10,000,000                     *)
  Needs,            (* what settlement may cost in a block                 *)
  RevertGas,        (* what a settlement that reverts has used             *)
  Answers,          (* how an answer of the node may fall short:           *)
                    (* "unavailable", "noGas", "noStatus"                  *)
  MaxSpikes,        (* bound on the changes of the need                    *)
  MaxNonce          (* bound on the account's nonce                        *)

Jobs == Shields \cup Spends
Notes == {NoteOf[j] : j \in Jobs}

ASSUME JobsAssumption == Shields \cap Spends = {}
ASSUME GasAssumption ==
  /\ Needs \subseteq Nat \ {0} /\ DefaultGas \in Nat /\ RevertGas \in Nat \ {0}
ASSUME BoundsAssumption == MaxSpikes \in Nat /\ MaxNonce \in Nat

VARIABLES
  nonce,      (* of the depositing account                                 *)
  deposits,   (* per note: its leaves in the tree, one payment each        *)
  consumed,   (* notes whose nullifiers are consumed                       *)
  settled,    (* of them, the notes whose spend settled                    *)
  full,       (* the tree has no room left                                 *)
  need,       (* the gas a settle frame needs now                          *)
  spikes,     (* how often that has changed                                *)
  mempool,    (* what the node has accepted and can still include          *)
  receipts,   (* [tx, outcome, full, need]: of a transaction and the state *)
              (* it met                                                    *)
  tool        (* per job: the phase of its run, or what the last one       *)
              (* reported; the transaction, and the gas it is sized from   *)

chain == <<nonce, deposits, consumed, settled, full, need, spikes, receipts>>
vars == <<chain, mempool, tool>>

-----------------------------------------------------------------------------
(* Transactions and what the node makes of them *)

(* measured is the gas the settle frame is sized from, 0 for the default;  *)
(* saw, kept of spends, is what the simulation said of its execution.      *)

(* for the mutation runs: the account's nonce of the earliest state *)
BuildAtEarliest(j) == [job |-> j, nonce |-> 0, measured |-> 0, saw |-> "unavailable"]

Build(j) ==
  [job |-> j, nonce |-> IF j \in Spends THEN 0 ELSE nonce,
   measured |-> 0, saw |-> "unavailable"]

Sized(used) == used + used \div 4

GasLimit(tx) == IF tx.measured = 0 THEN DefaultGas ELSE Sized(tx.measured)

PrefixValid(tx) ==
  IF tx.job \in Spends THEN NoteOf[tx.job] \notin consumed
                       ELSE tx.nonce = nonce

(* for the mutation runs: DuplicateCommitment not checked *)
RevertsWhenFull(tx) == full /\ tx.job \in Jobs

Reverts(tx) ==
  \/ full
  \/ tx.job \in Shields /\ deposits[NoteOf[tx.job]] > 0

Outcome(tx) == IF Reverts(tx) THEN "revert"
               ELSE IF need > GasLimit(tx) THEN "outOfGas" ELSE "success"

GasUsed(tx) == IF Reverts(tx) THEN RevertGas
               ELSE IF need > GasLimit(tx) THEN GasLimit(tx) ELSE need

(* the answers to ethrex_simulateFrameTransaction for a valid prefix *)
Simulations(tx) == {Outcome(tx)} \cup ({"noStatus"} \cap Answers)

Measurements(tx) == {GasUsed(tx)} \cup {0 : a \in {"noGas"} \cap Answers}

-----------------------------------------------------------------------------
(* The tool *)

Running == {"built", "sizing", "cleared", "sent"}

NoRun == [phase |-> "idle"]

Exit(j, phase) == tool' = [tool EXCEPT ![j] = [phase |-> phase]]

Goto(j, phase, tx) == tool' = [tool EXCEPT ![j] = [phase |-> phase, tx |-> tx]]

(* a run, the first or another after one that was not told "mined" *)
Start(j) ==
  /\ tool[j].phase \in {"idle", "reverted"}
  /\ Goto(j, "built", Build(j))
  /\ UNCHANGED <<chain, mempool>>

(* an execution that fails is not sent, one not reported on is *)
Gate(j, tx, sim) ==
  IF sim \in {"revert", "outOfGas"} THEN Exit(j, "idle")
  ELSE Goto(j, "cleared", IF j \in Spends THEN [tx EXCEPT !.saw = sim] ELSE tx)

(* for the mutation runs: the settle frame of a spend sized as well *)
SizesAll(j) == j \in Jobs

Sizes(j) == j \notin Spends

Simulate(j) ==
  /\ tool[j].phase = "built"
  /\ LET tx == tool[j].tx
     IN  \/ /\ "unavailable" \in Answers
            /\ IF j \in Spends THEN Exit(j, "idle") ELSE Goto(j, "cleared", tx)
         \/ ~PrefixValid(tx) /\ Exit(j, "idle")
         \/ /\ PrefixValid(tx)
            /\ \E sim \in Simulations(tx), used \in Measurements(tx) :
                 IF Sizes(j) /\ used # 0
                 THEN tool' = [tool EXCEPT ![j] =
                        [phase |-> "sizing", tx |-> tx, sim |-> sim, used |-> used]]
                 ELSE Gate(j, tx, sim)
  /\ UNCHANGED <<chain, mempool>>

DryRun(j) ==
  /\ tool[j].phase = "built" /\ Exit(j, "idle")
  /\ UNCHANGED <<chain, mempool>>

(* the sized transaction is taken if it simulates, whatever its outcome *)
Resimulate(j) ==
  /\ tool[j].phase = "sizing"
  /\ LET tx2 == [tool[j].tx EXCEPT !.measured = tool[j].used]
     IN  \/ /\ PrefixValid(tx2)
            /\ \E sim \in Simulations(tx2) : Gate(j, tx2, sim)
         \/ /\ ~PrefixValid(tx2) \/ "unavailable" \in Answers
            /\ Gate(j, tool[j].tx, tool[j].sim)
  /\ UNCHANGED <<chain, mempool>>

Send(j) ==
  /\ tool[j].phase = "cleared"
  /\ IF PrefixValid(tool[j].tx)
     THEN mempool' = mempool \cup {tool[j].tx} /\ Goto(j, "sent", tool[j].tx)
     ELSE Exit(j, "idle") /\ UNCHANGED mempool
  /\ UNCHANGED chain

Outcomes(tx) == {r.outcome : r \in {q \in receipts : q.tx = tx}}

(* for the mutation runs: a receipt taken for a success *)
WaitForReceipt(j) ==
  /\ tool[j].phase = "sent"
  /\ Exit(j, IF Outcomes(tool[j].tx) = {} THEN "idle" ELSE "mined")
  /\ UNCHANGED <<chain, mempool>>

(* the last of its polls, or the first with a receipt *)
Wait(j) ==
  /\ tool[j].phase = "sent"
  /\ Exit(j, IF Outcomes(tool[j].tx) = {} THEN "idle"
             ELSE IF "success" \in Outcomes(tool[j].tx) THEN "mined" ELSE "reverted")
  /\ UNCHANGED <<chain, mempool>>

(* a call fails, and the process with it; it may have been the sending *)
RpcFails(j) ==
  /\ tool[j].phase \in Running
  /\ Exit(j, "idle")
  /\ mempool' \in {mempool} \cup
       {mempool \cup {tool[k].tx} : k \in {i \in {j} :
          tool[i].phase = "cleared" /\ PrefixValid(tool[i].tx)}}
  /\ UNCHANGED chain

-----------------------------------------------------------------------------
(* The chain *)

Include(tx) ==
  /\ PrefixValid(tx)
  /\ nonce' = IF tx.job \in Spends THEN nonce ELSE nonce + 1
  /\ nonce' <= MaxNonce
  /\ LET note == NoteOf[tx.job]
         done == Outcome(tx) = "success"
     IN  IF tx.job \in Spends
         THEN /\ consumed' = consumed \cup {note}
              /\ settled' = IF done THEN settled \cup {note} ELSE settled
              /\ UNCHANGED deposits
         ELSE /\ deposits' = [deposits EXCEPT ![note] = IF done THEN @ + 1 ELSE @]
              /\ UNCHANGED <<consumed, settled>>
  /\ receipts' = receipts \cup
       {[tx |-> tx, outcome |-> Outcome(tx), full |-> full, need |-> need]}
  /\ mempool' = {t \in mempool : PrefixValid(t)'}
  /\ UNCHANGED <<full, need, spikes, tool>>

FillsUp ==
  /\ ~full /\ full' = TRUE
  /\ UNCHANGED <<nonce, deposits, consumed, settled, need, spikes, receipts,
                 mempool, tool>>

Spike ==
  /\ spikes < MaxSpikes /\ spikes' = spikes + 1
  /\ need' \in Needs \ {need}
  /\ UNCHANGED <<nonce, deposits, consumed, settled, full, receipts, mempool, tool>>

Init ==
  /\ nonce = 0 /\ deposits = [n \in Notes |-> 0]
  /\ consumed = {} /\ settled = {}
  /\ full = FALSE /\ need \in Needs /\ spikes = 0
  /\ mempool = {} /\ receipts = {}
  /\ tool = [j \in Jobs |-> NoRun]

ToolStep(j) == Start(j) \/ Simulate(j) \/ Resimulate(j) \/ Send(j) \/ Wait(j)

Next ==
  \/ \E j \in Jobs : ToolStep(j) \/ DryRun(j) \/ RpcFails(j)
  \/ \E tx \in mempool : Include(tx)
  \/ FillsUp \/ Spike

Spec == Init /\ [][Next]_vars

(* An operator who keeps trying with a node that keeps answering, and a    *)
(* chain that includes what stays valid.                                   *)
PersistentSpec ==
  /\ Spec
  /\ WF_vars(\E tx \in mempool : Include(tx))
  /\ \A j \in Shields :
       /\ SF_vars(Start(j)) /\ SF_vars(Simulate(j))
       /\ SF_vars(Resimulate(j)) /\ SF_vars(Send(j)) /\ SF_vars(Wait(j))

-----------------------------------------------------------------------------
(* Properties *)

(* No note is paid for twice, whatever the node answers, however often the *)
(* tool is run again and whichever of its transactions are still out.      *)
DepositedOnce == \A n \in Notes : deposits[n] <= 1

(* What a run reports as mined has been done, by that run's transaction.   *)
MinedIsDone ==
  \A j \in Jobs :
    tool[j].phase = "mined" =>
      IF j \in Spends THEN NoteOf[j] \in settled ELSE deposits[NoteOf[j]] = 1

(* A spend that is burned was burned by what nobody could see when it was  *)
(* sent: the tree is full or settlement costs more than the fixed gas, and *)
(* the node had found it clean or had said nothing of its execution.  No   *)
(* measurement of an earlier block burns a note.                           *)
BurnsAreSurprises ==
  \A r \in receipts :
    r.tx.job \in Spends /\ r.outcome # "success" =>
      /\ r.full \/ r.need > DefaultGas
      /\ r.tx.saw \in {"success", "noStatus"}

(* "measured + 25% for state-gas variance": a deposit whose frame was      *)
(* sized runs out of gas only if the need has grown by more than a quarter *)
(* of what was measured, whole numbers and all.                            *)
QuarterIsMargin ==
  \A r \in receipts :
    r.outcome = "outOfGas" /\ r.tx.measured # 0 => 4 * r.need > 5 * r.tx.measured

(* However its runs end, a deposit arrives with an operator who tries      *)
(* again: a nonce another of its runs has used, or a frame sized too       *)
(* small, does not keep it out, unless the tree fills up or a settlement   *)
(* costs more than the default gas.                                        *)
DepositsArrive ==
  \A j \in Shields :
    <>(deposits[NoteOf[j]] = 1 \/ full \/ need > DefaultGas)

=============================================================================
