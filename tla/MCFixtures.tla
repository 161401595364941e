----------------------------- MODULE MCFixtures -----------------------------
(***************************************************************************)
(* Instances of Fixtures for TLC.  The race deposits two notes of 20 (12   *)
(* paid, 7 change, 1 fee) on top of the pool's leaves or, without --rpc,   *)
(* on an empty tree; the smoke run shields, pays and withdraws in three    *)
(* splits, one of which leaves no change and one of which no witness has.  *)
(* Nine secrets are drawn per run, the same by every run of a seeded       *)
(* generator.                                                              *)
(***************************************************************************)
EXTENDS Fixtures, TLC

CONSTANTS s1, s2, s3, s4, s5, s6, s7, s8, s9, other, here

MCInners == {s1, s2, s3, s4, s5, s6, s7, s8, s9, other}
MCDomains == {here}
MCAccounts == {Pool, Paymaster, Patron, Outsider}
MCRequests == {}

Drawn == <<s1, s2, s3, s4, s5, s6, s7, s8, s9>>
MCOneRun == <<Drawn>>

MCStrangers == {[inner |-> other, value |-> 3]}

RacePlan(v, seeded) == [kind |-> "race", shield |-> v, seeded |-> seeded]
SmokePlan(v, payment, fee) ==
  [kind |-> "smoke", shield |-> v, payment |-> payment, fee |-> fee]

MCPlans ==
  {RacePlan(20, TRUE), RacePlan(20, FALSE),
   SmokePlan(20, 12, 1), SmokePlan(20, 19, 1), SmokePlan(20, 19, 2)}

=============================================================================
