---------------------------- MODULE CommandLine -----------------------------
(***************************************************************************)
(* devnet/pool_frametx.py from its command line to the chain: the options  *)
(* are looked up word by word, fix the envelope together with the fixture, *)
(* and some of them exist to make it a wrong one.  The chain is a pool     *)
(* with the fixture's deposit made and published.                          *)
(*                                                                         *)
(* A word is what it parses to, if it does: AddressOf, NumberOf and        *)
(* KeyListOf have the words int() and split() accept.                      *)
(***************************************************************************)
EXTENDS Simulation, SequencesExt

CONSTANTS
  Words,            (* the words that can follow the five fixed arguments  *)
  MaxWords,         (* bound on how many do                                *)
  AddressOf,        (* int(word, 16), TooBig for 2^160 and more            *)
  NumberOf,         (* int(word, 0)                                        *)
  KeyListOf,        (* a comma-separated list of two or another number of  *)
                    (* nonce keys                                          *)
  AfterEquals,      (* the words "--paymaster=w", and their w              *)
  TooBig, Empty,    (* an address out of range, the empty word             *)
  CfgPaymaster,     (* cfg.get("paymaster")                                *)
  Spends,           (* the fixture's spend entries: requests by key        *)
  ShieldList,       (* whether the fixture has a "shields" array           *)
  ToShield,         (* the note it shields                                 *)
  BaseFee           (* of the latest block                                 *)

ASSUME CommandLineAssumption ==
  /\ MaxWords \in Nat /\ ToShield \in Notes /\ BaseFee \in Nat \ {0}
  /\ \A key \in DOMAIN Spends : Spends[key] \in RequestRecords

(* room for the deposit and the two outputs of a spend of it *)
ASSUME RoomAssumption == Capacity >= 3

(* What a line without overrides relies on: the fixture holds a transfer   *)
(* and a withdrawal of the deposit, with proofs that verify and fees above *)
(* the tool's default of a maximum cost, and the configured paymaster is   *)
(* the deployed one and has the means.                                     *)
ASSUME FixtureAssumption ==
  /\ {"transfer", "withdraw"} \subseteq DOMAIN Spends
  /\ \A key \in {"transfer", "withdraw"} :
       LET r == Spends[key]
       IN  /\ r.domain = PoolDomain /\ r.fee >= 2 * BaseFee + 1
           /\ CircuitSatisfied(SpendOf(r, <<ToShield>>))
           /\ (key = "transfer") = (r.publicAmount = 0)
           /\ (key = "transfer") = (r.recipient = NoAccount)
ASSUME PayerAssumption ==
  /\ CfgPaymaster \in DOMAIN AddressOf /\ AddressOf[CfgPaymaster] = Paymaster
  /\ TooBig \notin Accounts
  /\ InitialFunds >= 2 * BaseFee + 1
ASSUME WindowAssumption == RingSize >= 2

VARIABLES
  op, argv,         (* the command line                                    *)
  verdict,          (* what became of the tool's run                       *)
  raw               (* the transaction it built, saved or sent             *)

cvars == <<vars, op, argv, verdict, raw>>

-----------------------------------------------------------------------------
(* Options *)

ValueFlags ==
  {"--sender", "--note", "--spend-key", "--root-slot", "--settle-gas", "--save-raw",
   "--nonce-keys", "--max-fee-per-gas", "--max-priority-fee-per-gas", "--paymaster"}

Given(flag) == Contains(argv, flag)

(* sys.argv.index(flag), and the word behind it whatever it is *)
Index(flag) == SelectInSeq(argv, LAMBDA w : w = flag)

Value(flag) == argv[Index(flag) + 1]

BadAddress(w) == w \notin DOMAIN AddressOf \/ AddressOf[w] \in {NoAccount, TooBig}

NotANumber(flag) == Given(flag) /\ Value(flag) \notin DOMAIN NumberOf

Fees == {"--max-fee-per-gas", "--max-priority-fee-per-gas"}

(* for the mutation runs: the last word taken for the flag of a value *)
NoWordBehindEarly(flag) == Given(flag) /\ Index(flag) >= Len(argv) - 1

NoWordBehind(flag) == Given(flag) /\ Index(flag) >= Len(argv)

FlagsRefused ==
  \/ \E f \in ValueFlags : NoWordBehind(f)
  \/ Given("--sender") /\ BadAddress(Value("--sender"))
  \/ \E f \in {"--note", "--root-slot", "--settle-gas"} \cup Fees : NotANumber(f)
  \/ \E f \in Fees : Given(f) /\ NumberOf[Value(f)] < 0
  \/ /\ Given("--nonce-keys")
     /\ \/ Value("--nonce-keys") \notin DOMAIN KeyListOf
        \/ Len(KeyListOf[Value("--nonce-keys")]) # 2

(* the last "--paymaster=" wins, then "--paymaster", then the configuration *)
PaymasterWord ==
  LET attached == {i \in DOMAIN argv : argv[i] \in DOMAIN AfterEquals}
  IN  IF attached # {} THEN AfterEquals[argv[Max(attached)]]
      ELSE IF Given("--paymaster") THEN Value("--paymaster")
      ELSE IF Given("--sponsored") THEN CfgPaymaster
      ELSE Empty

PayerRefused ==
  IF PaymasterWord = Empty THEN Given("--sponsored") ELSE BadAddress(PaymasterWord)

Sender == IF Given("--sender") THEN AddressOf[Value("--sender")] ELSE Pool

EntryKey == IF Given("--spend-key") THEN Value("--spend-key") ELSE op

NonceKeys(s) ==
  IF Given("--nonce-keys") THEN ToSet(KeyListOf[Value("--nonce-keys")])
                           ELSE {s.nf1, s.nf2}

SettleGas ==
  IF Given("--settle-gas") THEN NumberOf[Value("--settle-gas")] ELSE 10000000

MaxPriority ==
  IF Given("--max-priority-fee-per-gas")
  THEN NumberOf[Value("--max-priority-fee-per-gas")] ELSE 1

MaxFee ==
  IF Given("--max-fee-per-gas")
  THEN NumberOf[Value("--max-fee-per-gas")] ELSE 2 * BaseFee + MaxPriority

(* the committed entry the reference is checked against; without           *)
(* --root-slot the configuration names the slot of the publication         *)
References ==
  {e \in ring : /\ e.root = <<ToShield>>
                /\ Given("--root-slot") => e.slot = NumberOf[Value("--root-slot")]}

-----------------------------------------------------------------------------
(* The envelope: spend_setup, main and build *)

Call(s) ==
  IF op = "transfer" THEN [op |-> "transfer", spend |-> s]
  ELSE [op |-> "withdraw", spend |-> s, recipient |-> Spends["withdraw"].recipient]

EnvelopeOver(ref) ==
  LET s == SpendOf(Spends[EntryKey], ref.root)
      settle == Frame(Pool, SENDER, 0, SettleGas, 0, Call(s))
  IN  [sender |-> Sender,
       frames |->
         IF PaymasterWord = Empty
         THEN <<Frame(Sender, VERIFY, 3, 350000, 0, NoCall), settle>>
         ELSE <<Frame(Sender, VERIFY, 2, 300000, 0, NoCall),
                Frame(AddressOf[PaymasterWord], VERIFY, 1, 100000, 0,
                      [op |-> "verifyProofOnly", spend |-> s]),
                settle>>,
       keys |-> NonceKeys(s), nonceSeq |-> 0, refs |-> <<PoolRef(ref)>>,
       signatures |-> 1, blobs |-> FALSE, maxCost |-> MaxFee,
       flipped |-> Given("--flip-proof")]

Envelope == EnvelopeOver(CHOOSE e \in References : TRUE)

(* main ends before there is an envelope *)
Exits ==
  \/ FlagsRefused
  \/ op \notin {"shield", "transfer", "withdraw"}
  \/ op = "shield" /\ ShieldList /\ ~Given("--note")
  \/ /\ op # "shield"
     /\ PayerRefused \/ EntryKey \notin DOMAIN Spends \/ References = {}
                     \/ MaxFee < BaseFee \/ MaxPriority > MaxFee

-----------------------------------------------------------------------------
(* The chain's answer *)

(* A flipped proof fails frame 0.  An account without code of its own, the *)
(* sender of its transaction, approves what it has signed; the pool, as    *)
(* the target of a payment frame with calldata, does not approve.          *)
Admitted(tx) ==
  /\ NoncesCurrent(tx) /\ RefValid(tx.refs[1])
  /\ tx.sender = Pool => DispatcherApproves(tx, 1) /\ ~tx.flipped
  /\ Len(tx.frames) = 3 =>
       \/ PayerOf(tx) = Paymaster /\ PaymasterApproves(tx, 2, Pool)
       \/ PayerOf(tx) = Patron
  /\ balance[PayerOf(tx)] >= tx.maxCost

(* The tool's run.  A dry run prints the simulation and sends nothing.     *)
RunTool ==
  /\ verdict = "typed"
  /\ IF Exits
     THEN verdict' = "exit" /\ UNCHANGED raw
     ELSE IF op = "shield"
     THEN /\ verdict' = IF Given("--dry-run") THEN "dry" ELSE "sent"
          /\ UNCHANGED raw
     ELSE /\ raw' = Envelope
          /\ verdict' = IF Given("--dry-run") THEN "dry"
                        ELSE IF Admitted(raw') /\ ExecutionSucceeds(raw')
                             THEN "sent" ELSE "refused"
  /\ UNCHANGED <<vars, op, argv>>

(* what was saved is in anybody's hands, what was sent in the mempool *)
IncludeRaw ==
  /\ verdict = "sent" \/ Given("--save-raw")
  /\ raw # NoTx /\ Admitted(raw) /\ Validate(raw)
  /\ UNCHANGED <<op, argv, verdict, raw>>

IncludeShield ==
  /\ verdict = "sent" /\ op = "shield"
  /\ Shield(ToShield.inner, ToShield.value)
  /\ UNCHANGED <<op, argv, verdict, raw>>

ExecuteRaw == (SettleSuccess \/ SettleRevert) /\ UNCHANGED <<op, argv, verdict, raw>>

(* the state the deposit leaves, one slot later; or the one before it *)
Deposited ==
  /\ leaves = <<ToShield>> /\ currentRoot = leaves
  /\ ring = {[slot |-> 0, root |-> leaves]} /\ slot = 1
  /\ balance = [a \in Accounts |->
                  IF a = Pool THEN ToShield.value ELSE InitialFunds]
  /\ withdrawalCredit = [a \in Accounts |-> 0] /\ feeCredit = withdrawalCredit
  /\ noteSpent = [n \in Nullifiers |-> 0] /\ nonceSeq = noteSpent
  /\ exec = NoTx

CommandLineInit ==
  /\ op \in {"shield", "transfer", "withdraw", "other"}
  /\ argv \in SeqOf(Words, MaxWords)
  /\ IF op = "shield" THEN Init ELSE Deposited
  /\ verdict = "typed" /\ raw = NoTx

CommandLineSpec ==
  CommandLineInit /\ [][RunTool \/ IncludeRaw \/ IncludeShield \/ ExecuteRaw]_cvars

-----------------------------------------------------------------------------
(* Properties *)

Overrides ==
  {"--sender", "--note", "--spend-key", "--root-slot", "--settle-gas",
   "--nonce-keys", "--flip-proof"} \cup Fees

(* A line without overrides works, whatever it asks about the payer, the   *)
(* saved file or a dry run, as long as each word it must give is there     *)
(* and the payer has an address and the means.                             *)
PlainLineWorks ==
  /\ verdict \notin {"typed", "sent", "dry"} /\ op \in {"transfer", "withdraw"}
  => \/ \E f \in Overrides : Given(f)
     \/ \E f \in ValueFlags : Given(f) /\ Index(f) = Len(argv)
     \/ PaymasterWord \notin {Empty, CfgPaymaster}
     \/ PaymasterWord = Empty /\ Given("--sponsored")

(* No command line burns a note, by what the tool sends or by what it      *)
(* saves and somebody else sends: an override that breaks the envelope is  *)
(* caught by the tool or by the validation prefix, before a nullifier of   *)
(* the pool is consumed, or breaks nothing.                                *)
LineNeverBurns == Idle => Burned = {}

=============================================================================
