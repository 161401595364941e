----------------------------- MODULE PoolLedger -----------------------------
(***************************************************************************)
(* What the pool promises about money, and nothing else: ETH that came in  *)
(* with a deposit leaves only as gas the pool itself was authorised to     *)
(* pay, out of the value of the notes that authorised it, or as the payout *)
(* of a credit.  The detailed specification, ShieldedPool, implements this *)
(* one.                                                                    *)
(***************************************************************************)
EXTENDS Integers

CONSTANT Supply   (* the ETH there is *)

VARIABLES
  held,      (* ETH at the pool's address                                  *)
  shielded,  (* total value of the notes that can still be spent           *)
  credited,  (* total of the withdrawal and fee credits                    *)
  reserved,  (* what the approved, unsettled spend may still pay out       *)
  prepaid    (* gas the pool has fronted for that spend                    *)

ledger == <<held, shielded, credited, reserved, prepaid>>

Init ==
  held = 0 /\ shielded = 0 /\ credited = 0 /\ reserved = 0 /\ prepaid = 0

(* shield: the note is worth what was deposited *)
Deposit(amount) ==
  /\ held' = held + amount
  /\ shielded' = shielded + amount
  /\ UNCHANGED <<credited, reserved, prepaid>>

(* approval of a spend of notes worth amount, gas of it fronted by the pool *)
Authorize(amount, gas) ==
  /\ reserved = 0 /\ prepaid = 0
  /\ shielded' = shielded - amount
  /\ reserved' = amount - gas
  /\ prepaid' = gas
  /\ held' = held - gas
  /\ UNCHANGED credited

(* settlement, or its revert (nothing to notes and nothing to credits) *)
Finish(toNotes, toCredit, refund) ==
  /\ toNotes + toCredit <= reserved
  /\ shielded' = shielded + toNotes
  /\ credited' = credited + toCredit
  /\ held' = held + refund
  /\ reserved' = 0 /\ prepaid' = 0

(* claimWithdrawal and claimFee *)
PayOut(amount) ==
  /\ credited' = credited - amount
  /\ held' = held - amount
  /\ UNCHANGED <<shielded, reserved, prepaid>>

Next ==
  \/ \E amount \in 0 .. Supply - held : Deposit(amount)
  \/ \E amount \in 0 .. shielded : \E gas \in 0 .. amount : Authorize(amount, gas)
  \/ \E toNotes, toCredit \in 0 .. reserved, refund \in 0 .. prepaid :
       Finish(toNotes, toCredit, refund)
  \/ \E amount \in 0 .. credited : PayOut(amount)

Spec == Init /\ [][Next]_ledger

-----------------------------------------------------------------------------
(* The types of the ledger's totals. *)
TypeOK ==
  /\ held \in Nat /\ shielded \in Nat /\ credited \in Nat
  /\ reserved \in Nat /\ prepaid \in Nat

(* The pool can pay everything it owes: unspent notes, credits, and the    *)
(* spend that has been approved and not settled.                           *)
Covered == held >= shielded + credited + reserved

=============================================================================
