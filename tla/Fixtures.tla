------------------------------ MODULE Fixtures ------------------------------
(***************************************************************************)
(* The two fixture generators, wallet/gen_smoke.py and                     *)
(* wallet/gen_nonce_race.py, and the runs of devnet/pool_frametx.py that   *)
(* take a fixture to a live pool.  A generator fixes its notes, its        *)
(* proofs and the roots they are proved against before the first deposit   *)
(* is made, so the fixture foretells what the tree will be; the pool is    *)
(* public and other wallets deposit meanwhile.                             *)
(***************************************************************************)
EXTENDS Simulation

CONSTANTS
  Secrets,    (* Secrets[n][k]: the k-th note secret the n-th run of a     *)
              (* generator draws; a seeded generator draws the same again  *)
  Plans,      (* the generator runs an operator may make                   *)
  Strangers,  (* the notes other wallets may deposit                       *)
  Recipient,  (* RECIPIENT                                                 *)
  MaxCost     (* TXPARAM(0x06) of the envelopes                            *)

(* what the notes of a plan are worth, as far as a plan has such a note    *)
RaceFee(v) == (v * 5) \div 100
RaceBob(v) == (v * 60) \div 100

PlanValues(p) ==
  {0, p.shield} \cup
  (IF p.kind = "smoke" THEN {p.payment, p.shield - p.payment - p.fee}
   ELSE {RaceBob(p.shield), p.shield - RaceBob(p.shield) - RaceFee(p.shield)})

ASSUME FixturesAssumption ==
  /\ Secrets \in Seq(Seq(Inners))
  /\ Strangers \subseteq Notes /\ Recipient \in Accounts /\ MaxCost \in Nat \ {0}

(* nine secrets are what the longest generator draws, all different *)
ASSUME SecretsAssumption ==
  \A n \in DOMAIN Secrets :
    /\ Len(Secrets[n]) >= 9
    /\ \A i, j \in DOMAIN Secrets[n] : Secrets[n][i] = Secrets[n][j] => i = j

ASSUME PlansAssumption ==
  \A p \in Plans :
    /\ p.kind \in {"smoke", "race"} /\ p.shield \in Nat
    /\ p.kind = "smoke" => p.payment \in Int /\ p.fee \in Int
    /\ p.kind = "race" => p.seeded \in BOOLEAN
    /\ PlanValues(p) \cap Nat \subseteq Values

VARIABLES
  fix,          (* the fixture on disk                                     *)
  runs,         (* generator runs so far                                   *)
  undisturbed,  (* only this fixture's operations, its deposits in their   *)
                (* order, have changed the tree since it was written       *)
  minedIn,      (* slots of the blocks that mined the fixture's operations *)
  pending       (* raw transactions the node has accepted                  *)

fvars == <<vars, fix, runs, undisturbed, minedIn, pending>>

-----------------------------------------------------------------------------
(* wallet.py *)

NewNote(k, value) == [inner |-> Secrets[runs + 1][k], value |-> value]

DummyInput(k) == NewNote(k, 0)

(* build_witness: what it asserts, and the request the witness stands for *)
BuildWitness(in1, in2, out1, out2, publicAmount, fee, recipient) ==
  [sender |-> Pool, payer |-> Pool, domain |-> PoolDomain,
   in1 |-> in1, in2 |-> in2, out1 |-> out1, out2 |-> out2,
   publicAmount |-> publicAmount, fee |-> fee, recipient |-> recipient,
   rootOf |-> "pool", keys |-> {}, nonceSeq |-> 0, maxCost |-> MaxCost]

WitnessAsserts(r) ==
  /\ r.in1.value + r.in2.value
       = r.out1.value + r.out2.value + r.publicAmount + r.fee
  /\ \A v \in {r.in1.value, r.in2.value, r.out1.value, r.out2.value,
               r.publicAmount, r.fee} : v \in 0 .. MaxValue - 1

-----------------------------------------------------------------------------
(* the generators *)

(* a witness over a tree, and the proof of it when there is one *)
Entry(tree, r) == [root |-> tree, req |-> r]

Proved(e) == WitnessAsserts(e.req) /\ CircuitSatisfied(SpendOf(e.req, e.root))

(* for the mutation runs: the recipient not passed on to build_witness *)
WithdrawalNoContext(b, dummy, out1, out2, fee) ==
  BuildWitness(b, dummy, out1, out2, b.value - fee, fee, NoAccount)

Withdrawal(b, dummy, out1, out2, fee) ==
  BuildWitness(b, dummy, out1, out2, b.value - fee, fee, Recipient)

Smoke(p) ==
  LET a == NewNote(1, p.shield)
      b == NewNote(2, p.payment)
      change == NewNote(3, p.shield - p.payment - p.fee)
  IN  [base |-> 0, shields |-> <<a>>,
       spends |->
         [transfer |-> Entry(<<a>>,
            BuildWitness(a, DummyInput(4), b, change, 0, p.fee, NoAccount)),
          withdraw |-> Entry(<<a, b, change>>,
            Withdrawal(b, DummyInput(5), NewNote(6, 0), NewNote(7, 0), p.fee))],
       unprovable |-> {Entry(<<a>>, BuildWitness(a, a, NewNote(8, p.shield),
                              NewNote(9, p.shield), 0, 0, NoAccount))}]

(* for the mutation runs: the notes appended in the other order *)
RaceTreeSwapped(tree, a, c) == tree \o <<c, a>>

RaceTree(tree, a, c) == tree \o <<a, c>>

Race(p) ==
  LET tree == IF p.seeded THEN leaves ELSE <<>>
      v == p.shield
      fee == RaceFee(v)
      bob == RaceBob(v)
      a == NewNote(1, v)
      c == NewNote(2, v)
      Half(in, k) ==
        Entry(RaceTree(tree, a, c),
          BuildWitness(in, DummyInput(k + 2), NewNote(k, bob),
                       NewNote(k + 1, v - bob - fee), 0, fee, NoAccount))
  IN  [base |-> Len(tree), shields |-> <<a, c>>,
       spends |-> [transfer |-> Half(a, 3), transfer_c |-> Half(c, 6)],
       unprovable |-> {}]

NullifiersOf(e) ==
  {Nullifier(PoolDomain, e.req.in1), Nullifier(PoolDomain, e.req.in2)}

(* what the generators check before they write the file *)
Writes(p, f) ==
  /\ p.kind = "smoke" => 0 < p.fee /\ p.fee < p.payment /\ p.payment < p.shield
  /\ \A k \in DOMAIN f.spends : Proved(f.spends[k])
  /\ \A e \in f.unprovable : WitnessAsserts(e.req) /\ ~Proved(e)
  /\ p.kind = "race" =>
       /\ NullifiersOf(f.spends["transfer"])
            \cap NullifiersOf(f.spends["transfer_c"]) = {}
       /\ f.spends["transfer"].root = f.spends["transfer_c"].root

NoFixture == [base |-> 0, shields |-> <<>>, spends |-> <<>>, unprovable |-> {}]

Generate(p) ==
  /\ Idle /\ runs < Len(Secrets)
  /\ LET f == IF p.kind = "smoke" THEN Smoke(p) ELSE Race(p)
     IN  /\ Writes(p, f)
         /\ fix' = f
         /\ undisturbed' = (Len(leaves) = f.base)
  /\ runs' = runs + 1
  /\ minedIn' = {}
  /\ UNCHANGED <<vars, pending>>

-----------------------------------------------------------------------------
(* pool_frametx.py with the fixture *)

(* shield --note k *)
ShieldNote(k) ==
  /\ Shield(fix.shields[k].inner, fix.shields[k].value)
  /\ minedIn' = minedIn \cup {slot}
  /\ undisturbed' = (undisturbed /\ Len(leaves) = fix.base + k - 1)
  /\ UNCHANGED <<fix, runs, pending>>

(* transfer or withdraw --spend-key key --root-slot s, s being a receipt's *)
Envelopes(key) ==
  {BuildTx(fix.spends[key].req, PoolRef(e)) :
     e \in {f \in ring : f.slot \in minedIn /\ f.root = fix.spends[key].root}}

(* for the mutation runs: a spend held back while another one is pending   *)
SpendKeyAlone(key) ==
  /\ Idle /\ pending = {}
  /\ \E tx \in Envelopes(key) :
       SimulatesCleanly(tx) /\ pending' = pending \cup {tx}
  /\ UNCHANGED <<vars, fix, runs, undisturbed, minedIn>>

SpendKey(key) ==
  /\ Idle
  /\ \E tx \in Envelopes(key) \ pending :
       SimulatesCleanly(tx) /\ pending' = pending \cup {tx}
  /\ UNCHANGED <<vars, fix, runs, undisturbed, minedIn>>

-----------------------------------------------------------------------------
(* the chain *)

IncludePending(tx) ==
  /\ Validate(tx)
  /\ UNCHANGED <<fix, runs, undisturbed, minedIn, pending>>

(* the transaction that runs carries a spend of the fixture on disk *)
RunsThisFixture ==
  \E key \in DOMAIN fix.spends :
    SpendInFlight = SpendOf(fix.spends[key].req, fix.spends[key].root)

ExecutePending ==
  /\ SettleSuccess \/ SettleRevert
  /\ minedIn' = minedIn \cup {slot}
  /\ undisturbed' = (undisturbed /\ (RunsThisFixture \/ leaves' = leaves))
  /\ UNCHANGED <<fix, runs, pending>>

StrangerShields(n) ==
  /\ Shield(n.inner, n.value)
  /\ undisturbed' = FALSE
  /\ UNCHANGED <<fix, runs, minedIn, pending>>

NextSlot == AdvanceSlot /\ UNCHANGED <<fix, runs, undisturbed, minedIn, pending>>

FixturesInit ==
  /\ Init
  /\ fix = NoFixture /\ runs = 0 /\ undisturbed = FALSE
  /\ minedIn = {} /\ pending = {}

Keys == {"transfer", "transfer_c", "withdraw"}

FixturesNext ==
  \/ \E p \in Plans : Generate(p)
  \/ \E k \in DOMAIN fix.shields : ShieldNote(k)
  \/ \E key \in DOMAIN fix.spends : SpendKey(key)
  \/ \E tx \in pending : IncludePending(tx)
  \/ ExecutePending
  \/ \E n \in Strangers : StrangerShields(n)
  \/ NextSlot

(* The operator runs the tool until the node has taken the envelope, the   *)
(* chain includes an envelope that stays valid, and a block finishes.      *)
FixturesSpec ==
  /\ FixturesInit /\ [][FixturesNext]_fvars
  /\ WF_fvars(ExecutePending)
  /\ \A key \in Keys :
       /\ SF_fvars(key \in DOMAIN fix.spends /\ SpendKey(key))
       /\ SF_fvars(/\ key \in DOMAIN fix.spends
                   /\ \E tx \in pending \cap Envelopes(key) : IncludePending(tx))

-----------------------------------------------------------------------------
(* Properties *)

(* The generator's assertions, the circuit, the tool's envelope, frame 0   *)
(* and settlement agree: a spend of a fixture fails for no reason but the  *)
(* chain's, that is its reference, its nonces, its payer or the fee.       *)
WrittenIsApproved ==
  Idle =>
    \A key \in DOMAIN fix.spends : \A tx \in Envelopes(key) :
      SettleFrame(tx).call.spend.fee >= tx.maxCost
        => DispatcherApproves(tx, 1) /\ SettlementAccepts(tx, 2, Pool)

(* The roots a fixture foretells are the pool's, as long as nobody else    *)
(* deposits and the notes are shielded in their order: every spend's root  *)
(* is the current one at the moment its tree is complete.                  *)
RootsForetold ==
  undisturbed /\ Idle =>
    \A key \in DOMAIN fix.spends :
      LET root == fix.spends[key].root
      IN  Len(leaves) = Len(root) => currentRoot = root

(* "Both are admissible in the same block, in any order"                   *)
(* (gen_nonce_race.py): within a slot no step of the pool, a settlement's  *)
(* publication included, takes the validity of an envelope away, unless it *)
(* consumes a nonce key of that envelope.                                  *)
DisjointSpendsIndependent ==
  [][\A tx \in pending :
       /\ PrefixValid(tx) /\ slot' = slot
       /\ \A k \in tx.keys : nonceSeq'[k] = nonceSeq[k]
       => PrefixValid(tx)']_fvars

Settled(key) == \A nf \in NullifiersOf(fix.spends[key]) : noteSpent[nf] = 1

Admissible(key) ==
  key \in DOMAIN fix.spends /\ \E tx \in Envelopes(key) : SimulatesCleanly(tx)

TooLate(key) == \A tx \in Envelopes(key) : ~RefValid(tx.refs[1])

(* The harness gets there: a spend of the fixture that could be included   *)
(* settles in the end, whoever deposits meanwhile, unless its root leaves  *)
(* the window first.                                                       *)
FixtureSettles ==
  \A key \in Keys :
    Admissible(key)
      ~> (key \in DOMAIN fix.spends /\ (Settled(key) \/ TooLate(key)))

=============================================================================
