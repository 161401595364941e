-------------------------- MODULE MCReferencePool ---------------------------
(***************************************************************************)
(* ReferencePool with the requests of MCShieldedPool, sent through         *)
(* POOL_SENDER: what the pool would have paid for itself is paid for by a  *)
(* patron, or by the sender where it is an account with a key.             *)
(***************************************************************************)
EXTENDS ReferencePool, MCShieldedPool

CONSTANT sender

MCRefAccounts == MCAccounts \cup {sender}

Sent(r, payer) ==
  IF r.sender # Pool THEN r
  ELSE [r EXCEPT !.sender = sender,
                 !.payer = IF r.payer = Pool THEN payer ELSE r.payer]

(* a sponsored withdrawal of a deposit, whose fee does not cover its cost *)
Underpaid ==
  [Join(Note(i2, 3), Note(i1, 0), Note(i3, 1), Note(i3, 0), 1, 1, user)
     EXCEPT !.payer = Paymaster, !.maxCost = 2]

MCRefRequests == {Sent(r, Patron) : r \in MCRequests \cup {Underpaid}}

(* what the holder of POOL_SENDER's key may sign: a payment, a withdrawal, *)
(* and those of Deviant that the dispatcher would not have approved        *)
MCSigned ==
  {[Sent(r, sender) EXCEPT !.maxCost = 1] :
     r \in {Pay, Withdraw} \cup
          {d \in Deviant : d.keys # {} \/ d.domain = elsewhere \/ d.rootOf = "forged"
                         \/ d.out1.value = 66 \/ d.out1 = Note(i3, 3)
                         \/ d.sender = Outsider}}

=============================================================================
