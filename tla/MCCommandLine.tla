--------------------------- MODULE MCCommandLine ----------------------------
(***************************************************************************)
(* An instance of CommandLine for TLC: a deposit of 20, a fixture with two *)
(* transfers and a withdrawal of it, and every command line of up to three *)
(* words.                                                                  *)
(***************************************************************************)
EXTENDS CommandLine, TLC

CONSTANTS i1, i2, i3, here

MCInners == {i1, i2, i3}
MCDomains == {here}
MCAccounts == {Pool, Paymaster, Patron, Outsider}
MCRequests == {}

Note(i, v) == [inner |-> i, value |-> v]
MCDeposit == Note(i1, 20)

Request(out1, out2, publicAmount, fee, recipient) ==
  [sender |-> Pool, payer |-> Pool, domain |-> here,
   in1 |-> MCDeposit, in2 |-> Note(i3, 0), out1 |-> out1, out2 |-> out2,
   publicAmount |-> publicAmount, fee |-> fee, recipient |-> recipient,
   rootOf |-> "pool", keys |-> {}, nonceSeq |-> 0, maxCost |-> 1]

MCSpends ==
  [transfer |-> Request(Note(i2, 12), Note(i3, 3), 0, 5, NoAccount),
   transfer_c |-> Request(Note(i2, 3), Note(i3, 12), 0, 5, NoAccount),
   withdraw |-> Request(Note(i2, 0), Note(i3, 3), 12, 5, Outsider)]

MCAddressOf ==
  "pool" :> Pool @@ "paymaster" :> Paymaster @@ "patron" :> Patron
  @@ "outsider" :> Outsider @@ "0" :> NoAccount @@ "huge" :> TooBig
MCNumberOf == "0" :> 0 @@ "2" :> 2 @@ "-1" :> -1
MCKeyListOf ==
  "one" :> <<Nullifier(here, MCDeposit)>>
  @@ "twice" :> <<Nullifier(here, MCDeposit), Nullifier(here, MCDeposit)>>
  @@ "others" :> <<Nullifier(here, MCDeposit), Nullifier(here, Note(i2, 12))>>
MCAfterEquals == "--paymaster=patron" :> "patron" @@ "--paymaster=" :> ""

MCWords ==
  ValueFlags \cup DOMAIN MCAddressOf \cup DOMAIN MCNumberOf \cup DOMAIN MCKeyListOf
  \cup DOMAIN MCAfterEquals
  \cup {"--sponsored", "--flip-proof", "--dry-run", "transfer_c", "withdraw"}

=============================================================================
