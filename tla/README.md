# Verification of pq-shielded-pool

TLA+ models of the shielded pool, the TLC runs that check them and the TLAPS
proofs about them. Paths are relative to the repository (`src/`); line numbers
are those of the commit the modules were written from. `PROJECT.json` maps every
definition to the lines it models, every property to the hazard it is for, and
every property to a mutation of the code's model that breaks it.

## 1. The system

A pool of ETH notes. A deposit (`shield`) puts ETH at the pool's address and a
commitment into a Merkle tree. A spend consumes two notes and creates two, with
a Groth16 proof; it may pay a recipient (`withdraw`) and always carries a fee.
Spends travel in frame transactions (EIP-8141) whose `tx.sender` is the pool
itself: nobody signs for it, its code approves. The protocol keeps the spent
set (keyed nonces, EIP-8250: a transaction names its two nullifiers as nonce
keys, which are consumed at payment approval) and the recent roots (EIP-8272: a
ring of 8192 slots per source).

| component | state | operations | hard part |
|---|---|---|---|
| `ShieldedPoolLogic.sol`, settlement | tree frontier, `isLeaf`, `currentRoot`, credits | `shield`, `transfer`, `withdraw`, `claimWithdrawal`, `claimFee` | runs after the nullifiers are consumed: a revert burns notes; does not verify the proof itself |
| `ShieldedPoolDispatcher.yul`, the pool's address | the storage above (proxy) | frame-0 approval, delegatecall | must check ahead everything settlement will check |
| `ProofPaymaster.yul` | its ETH | payment approval | fronts gas for strangers |
| `EnvelopeProbe.yul` | none | reads the envelope | |
| `circuits/spend.circom` | none | the statement of a spend | field arithmetic, zero-value inputs skip membership |
| `wallet/wallet.py`, `gen_nonce_race.py` | a full tree | rebuild from events, paths, witnesses | must agree with the contract's frontier; two RPC reads that race the chain |
| `gen_smoke.py`, `gen_nonce_race.py`, the fixtures | a file of notes, roots and proofs | write a fixture, refuse what has no witness | roots are foretold before the first deposit, in a pool others deposit to |
| `devnet/pool_frametx.py` | one process | build, size, simulate, gate, send, poll | the chain moves between any two calls; lost answers, timeouts, reruns |
| the same, its command line | the words given | look up flags, override any part of the envelope | overrides build wrong envelopes, which may be saved and sent by others |
| protocol (ethrex) | keyed nonces, root ring, balances, mempool | inclusion, approval, refund | external: modelled from how the code above relies on it |
| `ShieldedPool.sol` + `SharedPoolSender.yul` | as the first | the split architecture, proof verified twice | any approval by the sender must be survivable |
| `ShieldedPool.yul` | as the first, in raw slots | dispatcher and settlement in one Yul object | must behave as the Solidity pool does; no types, no reentrancy guard |
| `Groth16Verifier.sol` | none | accepts or rejects a proof | only its interface is modelled |
| `poseidon_bn254.py`, `gen_poseidon_sol.py` | none | the hash, and the assembly that computes it | sums on 256-bit words are reduced late |
| deployment scripts, build tooling, tests | | | not modelled, section 8 |

How they interact: a wallet proves against a root the protocol holds for the
pool; a submitter wraps the proof in an envelope; a block runs the envelope's
VERIFY frames (dispatcher, perhaps paymaster), debits the payer and consumes the
nonces, all or nothing; then it runs the SENDER frame, which calls the pool,
reads the envelope through the probe, inserts the outputs, publishes the root
and records credits. If that frame reverts, only it is rolled back.

What makes the system correct: the pool's ETH covers every unspent note and
credit (`Solvent`); a note is spent once (`NoDoubleSpend`), and only if it was
deposited or created (`SpentWasCommitted`); approval implies settlement, so that
notes are not burned (`BurnsOnlyNearCapacity`); wallets can prove against what
is published (`RootsFollowTree`, and all of `MerkleTree`); whoever fronts gas is
repaid (`PaymasterWhole`, `SelfPayCovered`); the programs that read one calldata
at offsets of their own read one spend (`SpendCalldata`); the second
implementation does what the first does (`MonolithMirrorsReference`,
`TreeStepsLikeReference`); the submission tool burns nothing it could have
foreseen, deposits nothing twice and reports what happened (`Submitter`,
`FrameTool`), whatever its command line says (`LineNeverBurns`); the fixtures
foretell the pool (`RootsForetold`); the generated hash is the reference's
(`MatchesReference`).

## 2. Modules

| module | models | notes |
|---|---|---|
| `SpendCircuit` | notes, commitments, nullifiers, `CircuitSatisfied` | Poseidon is a constructor: a commitment is the record of its note, a root the sequence of leaves under it |
| `FrameTx` | the envelope and all the code that reads it: `DispatcherApproves`, `PaymasterApproves`, `EnvelopeProbe`, `SettlementAccepts` | extends `SpendCircuit`; pure predicates, in the order of the code |
| `ShieldedPool` | the production pool on its chain | extends `FrameTx`; the core |
| `PoolLedger` | what the pool promises about money | abstract; `ShieldedPool` implements it |
| `MerkleTree` | frontier and root of the contract against the wallet's tree and the circuit's path walk | justifies the root-as-sequence abstraction |
| `Simulation` | what a node answers about an envelope at its head | extends `ShieldedPool`; used by the three modules below that need a node |
| `Submitter` | `pool_frametx.py` sending spends to a live pool | extends `Simulation` with the tool, a mempool and receipts |
| `Fixtures` | the fixture generators, the witness assertions of `wallet.py`, and the runs that take a fixture to a live pool | extends `Simulation` |
| `CommandLine` | `main` of `pool_frametx.py`: every flag, the envelope it makes, and the chain's answer | extends `Simulation` |
| `FrameTool` | `build_and_send` for deposits and spends: account nonces, sizing of gas, dry runs, nodes that answer less, reruns | stands alone: what `Submitter` leaves out is gas, so here a settlement is its need |
| `Poseidon` | the reference hash and the generated assembly | stands alone, on machine words |
| `ReferencePool` | `ShieldedPool.sol` behind `POOL_SENDER` | extends `ShieldedPool`: other approvals, other settlement guards |
| `SpendCalldata` | a spend as words: dispatcher, paymaster, ABI decoder, Solidity settlement and Yul pool reading the same bytes | stands alone; the layer below the records of `FrameTx` |
| `YulPool` | the Yul pool's storage, tree, settlement and claims, with payees that call back | its tree is compared with `MerkleTree` step by step |
| `Sums` | the sum of a function over a finite set | under the pool's totals of notes and credits, on the community modules' fold |
| `MC*` | the instances TLC checks | |
| `Pool_proofs` | theorems | about `SpendCircuit`, `ShieldedPool`, `PoolLedger` as the pool instantiates it, and `ReferencePool` |
| `Tools_proofs` | theorems | about `Submitter`, `Fixtures` and `CommandLine`; extends `Pool_proofs`, since the three run on `ShieldedPool` |
| `FrameTool_proofs`, `SpendCalldata_proofs`, `Poseidon_proofs`, `MerkleTree_proofs`, `YulPool_proofs` | theorems | about the module of that name |
| `Sums_proofs` | lemmas | about `Sums`, and two forms of induction over numbers; used by all modules of theorems but `FrameTool_proofs` and `SpendCalldata_proofs` |

### ShieldedPool, state and steps

`leaves` stands for `filledSubtrees`, `nextIndex` and `isLeaf`; `currentRoot`,
`withdrawalCredit` and `feeCredit` are the code's; `noteSpent` counts the
`NoteSpent` events, which is the only trace of a spend the contract leaves.
`nonceSeq`, `ring`, `slot` and `balance` are protocol state. `exec` holds a
transaction between its VERIFY prefix and its SENDER frame.

| action | code |
|---|---|
| `Shield` | `shield`, all of it: duplicate check, insert, root, publication |
| `Validate(tx)` | inclusion: nonces and reference against the state before the transaction, `verifyFrameApprove`, payment approval, debit of the maximum cost, consumption of the keys. One step, since one failing VERIFY frame rolls all of it back |
| `SettleSuccess` | `transfer` or `withdraw` through the proxy, with `_spend`, `_settle` and the refund |
| `SettleRevert` | the same when a guard fails or the tree is full: storage untouched, nonces still consumed, gas still paid |
| `ClaimWithdrawal`, `ClaimFee` | the claims; a payout to the pool itself calls the dispatcher with empty calldata, which reverts |
| `AdvanceSlot` | time |

A transaction that can be built may be included any number of times: that is
the mempool, copies and replays with it. What can be built is `Requests`: an
instance lists spends honest wallets make and envelopes that deviate in one
thing. They range over the published root they prove against.

`MerkleTree` writes the loops over levels as functions of the level (`Pow2`,
`Shifted`, `HashUp`, `Levels`), so that they can be reasoned about as equations.
It keeps the frontier exactly (`_insert` records at the first 0 bit,
levels are never cleared, the filling leaf goes to level DEPTH), the events, and
a wallet that reads events and root in two calls. An insertion is whole
operations: `_settle` inserts up to two leaves and computes one root.

`Submitter` gives each RPC of a tool run a step of its own (`SetUp`,
`Simulate`, `Send`, `Poll`); `RpcFails` ends the process at any call, after
`eth_sendRawTransaction` has taken effect too; `RunAgain` is the operator.

`Fixtures` keeps the file on disk (`fix`), the slots its operations were mined in
(`minedIn`, which `--root-slot` is taken from) and what the node has accepted
(`pending`). `Generate(plan)` is a whole run of a generator: the notes it draws, the
trees it computes, and `Writes`, what it asserts before it writes. `ShieldNote`
and `SpendKey` are runs of the tool with it, `StrangerShields` a deposit of
somebody else at any time; `IncludePending` and `ExecutePending` are the chain. A
seeded race starts from the leaves of the pool, an
unseeded one from the empty tree. `undisturbed` is a history variable: since
the fixture was written, only its own deposits, in their order, and its own
spends have changed the tree (a spend left over from an earlier fixture would
count as a disturbance).

`CommandLine` starts with a command line (`op`, `argv`) and a pool with the
fixture's deposit in it. `RunTool` is `main`: the words are looked up as the code
looks them up (the first occurrence of a flag, the word behind it whatever that
is, the last `--paymaster=`), then comes the envelope (`EnvelopeOver` a
reference), the reference's check and the simulation gate. `IncludeRaw` is the
chain, which also takes what `--save-raw` wrote and the tool never sent. The
module assumes the fixture a plain line needs: a transfer and a withdrawal of
the deposit with proofs that verify, a fee above the tool's default cost, and a
configured paymaster that is the deployed one and has the means.

`FrameTool` has a phase per job (a deposit or a spend): `Start` builds,
`Simulate` and `Resimulate` are the two simulations around the sizing of a
deposit's frame, `Send` and `Wait` the rest; `DryRun`, `RpcFails` and another
`Start` end a run early or follow it. What a frame needs may change between any
two blocks (`Spike`), the tree may fill up (`FillsUp`), and `Answers` says what
the node may leave out of its answers: the method itself, the measured gas, the
execution status.

`Poseidon` takes a step per statement of the generated loop (`Ark`, `Sbox`,
`MixTerm`, `NextRound`, `Output`), for all lanes at once; `Reference` is the
other implementation, a function of the round.

`ReferencePool` lets `POOL_SENDER` either approve anything, and put code of its
own between the SENDER frame and the pool (`Redirected`), or be a
`SharedPoolSender`; `proofAuthorized` says which of the two was deployed.

`SpendCalldata` starts from an envelope as `pool_frametx.py` builds it and
alters it step by step: one word of the settle frame (to zero, the next word,
the second encoding `w + P`, or with a bit above an address), the same word in
both frames, the call's length or selector, one fact of the envelope, or the
keys made to fit again. `DispatcherApproves`, `MonolithApproves`,
`PaymasterApproves`, `LogicOutcome`, `ReferenceOutcome` and `MonolithOutcome`
then read it. An outcome is the name of the first check that fails, so the
order of the checks is part of the model; "empty" is the decoder's refusal
without a reason. The conditions on modes, flags and gas, which `FrameTx` has
one by one, are a single fact here (`grammar`).

`YulPool` keeps the slots of the Yul object as one map: 0 to 20 the frontier, 21
the index, 22 the root, and the maps of bases 23 to 25 under their keys.
`Shield` and `Settle` are whole calls. A claim takes two steps, because it calls
its payee with all the gas left: `Claim` up to the call, `PayeeReturns` or
`PayeeReverts` after it, and anything a payee can do in between, another claim
and its payee included. `PayeeReverts` restores what the claim began with. The
Yul object shifts the index where the Solidity divides it: `Shl1`, `Shr` and
`IndexBit` are those shifts, and agree with `MerkleTree` for up to 20 levels.
The module assumes that there are finitely many accounts (an address is 20
bytes) and that the zero word is nobody's commitment.

## 3. Runs

| run | module, cfg | question | distinct states |
|---|---|---|---|
| `shielded_pool` | `MCShieldedPool` | all safety of the production pool, and that it implements `PoolLedger` | 56 thousand |
| `burns_doc` | `MCShieldedPool`, `MCBurns.cfg` | the README's claim about burned notes; refuted | |
| `merkle_tree` | `MCMerkleTree` | contract, wallet and circuit agree on roots and paths | 1536 |
| `submitter` | `MCSubmitter` | gate, reports, retries and termination of the tool | about ten thousand |
| `fixtures` | `MCFixtures` | the fixtures foretell the pool, pass its approval, and settle | 2318 |
| `command_line` | `MCCommandLine` | plain lines work, no line burns a note | 255 thousand |
| `frame_tool` | `MCFrameTool` | deposits and spends through nodes that answer less and gas that changes | 1.0 million |
| `poseidon` | `MCPoseidon` | the generated hash is the reference's, and no sum wraps | 6375 |
| `reference_pool` | `MCReferencePool` | settlement survives a sender that approves anything; what a `SharedPoolSender` approves settles | 103 thousand |
| `spend_calldata` | `MCSpendCalldata` | every program reads one spend in the same bytes | 103 thousand |
| `monolith_doc` | `MCSpendCalldata`, `MCMonolithDoc.cfg` | a comment on the Yul pool's settlement; refuted | |
| `yul_pool` | `MCYulPool` | the Yul pool's storage, tree and claims under callbacks | 5 thousand |

`MCShieldedPool`: three note secrets, deposits of 3, outputs of 0, 1 and 3, and
66, which is -1 in a field of 67 elements, so that a value wraps; a range bound
of 8. A tree of five leaves is enough for two deposits, two spends and a spend
that finds one leaf free. Two ring entries and four slots make references age
out, positions be reused and publications share a slot. The honest requests are
a payment with a dummy input, a merge, a withdrawal, a sponsored spend of the
payment's output, and a spend paid for by a patron that withdraws to the pool
itself and names one output twice. The deviant ones are a replay at the next
sequence, foreign keys, a foreign domain, a forged root, a fee below the maximum
cost (self-paid and sponsored), created value, proofs over dummies (self-paid
and sponsored), one note twice, value conserved only in the field, and a
settlement called by an outsider. `CHECK_DEADLOCK FALSE` there and in the runs
built on it because slots and leaves are bounded and the model stops when they
run out. `MaxSlot`, `InitialFunds`, `MaxRuns` are bounds of the
models only; `Capacity`, `RingSize`, `MaxPolls`, `MaxValue` and `FieldP` are
small values of the code's constants.

`MCMerkleTree`: depth 3 has every carry pattern of an index up to the full
tree. Commitments are interchangeable, so one insertion order is explored; nine
commitments offer one more than fits.

`MCSubmitter`: four leaves, of which three deposits and a two-output payment
need five, so that the tree can fill between simulation and inclusion; a merge
by another wallet shares a nullifier with the payment. Two polls stand for
thirty: what matters is that the last poll may come before the inclusion.

`MCReferencePool` sends the same requests through `POOL_SENDER` and adds a
sponsored withdrawal whose fee does not cover its cost. An
account with a key is given a payment, a withdrawal and the deviant requests a
dispatcher would refuse (`MCSigned`), paid for by itself.

`MCFixtures`: the race with its own split (5 and 60 per cent of 20), seeded and
not, and the smoke run with change, without change, and with a fee for which no
witness exists. One run of a generator, with nine secrets, which is what the
longest draws; one note other wallets may deposit; eight leaves, so that both
transfers of the race find room and with them one stranger. Four slots and two
ring entries let a root age out before its spend is sent. `FixtureSettles` says
"unless its root leaves the window".

`MCCommandLine`: up to three further words out of every flag and the values
that each parser tells apart (an address of each party, zero, one above 160
bits; numbers zero, positive and negative; key lists of one, of two equal and of
two keys of which one is foreign). Three words hold a flag with its value and
another flag, or a flag whose value is a flag.

`MCFrameTool`: one deposit and one spend, both rerun without bound. Needs of 8,
11 and 12 units with a default of 11: one need is above the default, one more
than a quarter above another and one less. One change of the need per behaviour
and nonces up to two, which is one nonce wasted on a failure and one success.

`MCPoseidon`: a prime of 23 in words of 7 bits. As for BN254 in 256 bits, five
primes fit into a word and six do not. Two full rounds, three partial, two full;
four lanes; round constants and one matrix row at their largest.

`MCSpendCalldata`: words below 64, a field of 29 elements, addresses below 16,
amounts below 8, so that each of the three widths has words on both sides of it
and `w + P` is a word. Two alterations (`MaxChanges`) are what an evasion needs
that changes a word and what is bound to it; three changes were not explored,
and the proof has no bound. Four proofs exist: a transfer, two withdrawals, one
of them with a ctx that is no address, and a transfer of another pool.

`MCYulPool`: depth 2, filled to its fourth leaf, notes worth 0 or 1, two claims
open at once. Inner commitments are interchangeable (`SYMMETRY`, and no
liveness is checked). `CHECK_DEADLOCK FALSE`: a full pool without credits is
done.

Fairness. In `SubmitSpec` a block under execution finishes (weak), and a tool
process gets its next answer (strong, since answers come only between
transactions; the calls have a timeout of 20 s, after which `RpcFails` is what
happens). Inclusion is not assumed: the tool must end without it. The claims of
the other two are about an operator who wants something done, so their
fairness is his and the chain's. In `FixturesSpec` he runs the tool for a key
until the node has taken its envelope, and the chain includes an envelope that
is valid again and again (strong: both are disabled while a block executes). In
`PersistentSpec` he starts another run after one that did not report success,
each call of a run is answered some time, and the
chain includes something of a mempool that stays non-empty; `RpcFails` and
`DryRun` may still happen as often as they like in between. Nothing is assumed
of spends there. The remaining specifications make safety claims only.

## 4. Findings

The README's Limitations say that of the ways to burn notes "the one structural
case left is a full tree". `_insert` can also fail on the second of two outputs,
while one leaf is free (`burns_doc`): the notes of a spend approved at that
moment are burned although the tree is not full and still takes a deposit. What
does hold, and is proved, is `BurnsOnlyNearCapacity`: fewer than two leaves
free.

`ShieldedPoolLogic.sol:242` says that `ShieldedPool.sol` and the Yul monolith
keep verifying the proof in `_spend`. The monolith does not
(`ShieldedPool.yul:397`, and its own comment at 289): `monolith_doc` has its
settlement accept a spend whose proof does not verify. Nothing follows for the
pool, since its frame 0 has verified it (`MonolithApprovesAlike`); a reader who
takes the comment at its word counts one check too many.

Two observations of the same kind, without a run of their own:

* README.md:149-150 says that the tooling "refuses to send a spend that does not
  simulate cleanly". The gate (`pool_frametx.py:357`) refuses an execution that
  is reported as failed; an answer without `executionStatus` passes. A node
  gives that answer when it has validated the prefix and not executed further.
  `BurnsAreSurprises` allows for it: with "noStatus" taken out of its last
  conjunct it fails.
* `gen_nonce_race.py:94` seeds its notes with a constant, so a second run against
  the same pool draws notes that are already deposited, and the deposits revert
  with `DuplicateCommitment`. The vectors' README asks for "a fresh pair of
  shields" and names those commands as the way to get it. `MCFixtures` therefore
  gives one run of a seeded generator.

## 5. Proofs

All of them hold for every value of the constants that satisfies the named
assumptions of the modules (`tlapm`, SMT and Zenon). Every safety property of
the passing runs is proved, type invariants, action properties and the
refinement included; section 6 has what is left.

### The circuit

* `Pool_proofs!ConservesExactly`. Six values below `MaxValue` and a field of more
  than four times that: the two sides of the conservation constraint are below
  the modulus, so equal modulo it means equal. The range checks are what makes
  it true; the mutant that drops them breaks `Solvent`.

### The production pool (`Pool_proofs`)

* `ApprovedSettles`. A transaction `DispatcherApproves` passes
  `SettlementAccepts` with any payer. This is the argument for leaving the
  second proof verification out of `ShieldedPoolLogic.sol`, and for approving
  before settling at all.
* `TypeCorrect`, `NoteSpentOnce`, `OnlyCommittedSpent`, `BurnsNeedFullTree`,
  `RootsCurrent`: `TypeOK`, `NoDoubleSpend`, `SpentWasCommitted`,
  `BurnsOnlyNearCapacity` and `RootsFollowTree` are invariants of `Spec`.
* `PoolRefinesLedger`: every step of the pool is a step of `PoolLedger` or
  leaves its state alone. `LedgerSolvent`: the ledger never owes more than it
  holds. `PoolSolvent` is the two together: `Solvent`.
* `SelfPayAlwaysCovered` and `PaymasterNeverLoses`: `SelfPayCovered` and
  `PaymasterWhole`.

The first group is not inductive alone. The invariant is

    IInv == TypeOK /\ RootsInv /\ SpentInv /\ RunningInv /\ BurnInv

`RunningInv` says of the transaction in `exec` what its approval established: if
the pool is its sender, the dispatcher approved it, its keys stand at exactly
one consumption and are unspent, and its root is a prefix of the leaves, which
survives because leaves are only appended. `SpentInv` ties `noteSpent` to
`nonceSeq`: a nullifier of this pool's domain is spent only if it was consumed,
and never more than once. `RootsInv` makes every ring entry a prefix of
`leaves`, which with `InputOpens` gives membership of the inputs. `BurnInv` says
that with two leaves free every consumed nullifier is spent or belongs to
`exec`; `ApprovedSettles` carries it through the revert step. Each action has a
lemma per conjunct it can disturb; a stuttering case closes the induction.

For the money, `IInv` is joined by

    MoneyInv == PayerInv /\ ConsumedInv /\ HeldInv /\ PaymasterInv

`PayerInv`: the fee of the running spend covers what the pool or the paymaster
has fronted. `ConsumedInv`: a note of value whose nullifier is consumed was in
the tree, so that no deposit is dead on arrival. `HeldInv`: the pool holds no
more than `Len(leaves)` deposits can have brought, which is what makes the
ledger's bound on its supply true of the pool. `PaymasterInv`: unless nullifiers
are burned, the paymaster lacks only what it has fronted for `exec`.

Both invariants, and the step to `PoolLedger`, are proved of `AnyStep`: a step of
the pool with any request record in `Validate` and any note in `Shield`. `Next` is
such a step. So is every step of `Submitter` and of `Fixtures`, which is how
`Tools_proofs` has `PoolInv` (`IInv`, `MoneyInv` and the ledger's `Covered`) of
them without proving it again. The envelopes of `CommandLine` are no such
requests, since an override can put anything into them; its invariant stands
alone.

The sums are folds over finite sets. `Sums_proofs` reduces them to a function
with an equation per element, shows by least counterexample that there is
exactly one, and derives what a sum does when an element is added, removed or
changed. The library's induction principles cannot be applied here; `SmallestSet`
(a finite set of finite sets has a smallest one) and `Upwards` (a set of numbers
that has 0 and successors has all) are proved in their place. The totals are
sums because there are finitely many accounts, which `AccountsAssumption` says.

### The split pool (`Pool_proofs`)

* `OneSettlementPerConsumption`, `SharedSenderBurnsNeedFullTree`,
  `CoveredByItsOwnCheck`: `SettledOncePerConsumption`,
  `SharedSenderBurnsOnlyNearCapacity` and `CoveredWhateverApproved` are
  invariants of `ReferenceSpec`.

It has invariants of its own, because its nonces are another account's and a
settlement need not end the transaction:

    RefInv == RefTypes /\ RefConsumedInv /\ RefRunningInv /\ RefBurnInv
    RefMoneyInv == RefMoneyTypes /\ RefRootsInv /\ RefCoveredInv

While a transaction of `POOL_SENDER` runs, its keys stand one above its sequence
and its notes were spent no more often than that sequence says. Settlement
accepts only the sequence 0, keys that are the two nullifiers and a SENDER frame
that calls the pool itself, so it finds each note unspent and is the last thing
the transaction does: one consumption, one settlement. `SharedSenderSettles` is
the counterpart of `ApprovedSettles`, and carries the burn property through the
revert step. For the money, the keys of a running transaction are consumed, so
its inputs are live no more, but what settlement would still accept is worth
them: `Reserved` is that worth, counted only while settlement accepts, and is
kept covered beside notes and credits.

`ReferenceSenderApproves` asks that the sender of an approved transaction is not
the pool. The condition came from a proof attempt: `ShieldedPool.sol` has no code
that approves, and without the condition the model let it be a sender.

### The layers below

* `SpendCalldata_proofs!WordsSettle`, `ProvedIsSettled`, `PaymasterFeeSettled`,
  `MonolithMirrors`, `MonolithAgrees`: `ApprovedWordsSettle`,
  `SettlesWhatWasProved`, `PaymasterReadsSettledFee`, `MonolithMirrorsReference`
  and `MonolithApprovesAlike`, for every word width, modulus, set of proofs and
  number of alterations. The envelope's type is inductive; the properties then
  follow state by state. A list of checks fails first at nothing exactly when
  all of them hold, lists are joined check by check, and each check of
  settlement is traced to the check of frame 0 that implies it at the same
  offset. For the two implementations, equal lists of verdicts have the same
  first failure; where the lists differ in order or length, the lemmas say which
  earlier check makes the difference invisible.
* `MerkleTree_proofs!RootsAgree`, `EventsSuffice`, `PathsOpen`, `RacesOnly`:
  `RootMatchesWallet`, `EventsRebuildTree`, `PathsOpenExactly` and the action
  property `MismatchOnlyWhenRaced`, for every depth. The recursive functions are
  first shown to satisfy their equations level by level (a function that does
  exists up to every level, so `CHOOSE` finds it). `NodeAt(leaves, d, i)` is then
  the wallet's node `i` of level `d`, and `FrontierOf` says of the contract: at
  every 1 bit of the index it holds the wallet's node that ends there. An
  insertion moves that along through the carries of the index, computing the
  root walks it up, an authentication path is the other way to walk up. `TreeInv`
  adds `isLeaf` and the events, `WalletInv` what a wallet has read so far.
* `YulPool_proofs!PublishedIsRebuilt`, `CoveredDuringCalls`,
  `TreeStepsAreReference`: `PublishedRebuilds`, `CoveredAtEveryCall` and
  `TreeStepsLikeReference`. No two uses of the slots collide, so the storage
  seen as a frontier is what `MerkleTree` has; `InsertAlike` and
  `ComputeRootAlike` show that the shifts and loops of the Yul object do with it
  what the reference does, since a walk up the tree has one result. The
  invariant `YulInv` says of the present state *and of every state on the stack
  of open claims* that it holds one tree, has published its root, and can pay
  its notes and credits. The second half is what a reverting payee brings back;
  without it nothing is inductive.
* `Poseidon_proofs!NoSumWraps` and `GeneratedIsReference`: `SumsFit` and
  `MatchesReference` for every prime, word, constants, lanes and rounds with
  `(T + 1) * P <= Word`. A lane is at most `T * P` when a round constant is added
  and a sum of `j` terms at most `j * P`; that condition is what
  `gen_poseidon_sol.py` says of BN254 and never checks. With no sum wrapping,
  each statement keeps the lanes congruent to the reference's state (`Same`), an
  input that is no field element included, and the last reduction makes them
  equal. The reference is a table of states by round, and a sum over lanes is
  the same sum in the loop's order.

### The tool

* `FrameTool_proofs!NotDepositedTwice`, `ReportsAreTrue` and `OnlySurprisesBurn`:
  `DepositedOnce`, `MinedIsDone` and `BurnsAreSurprises` for every set of jobs,
  gas and ways to answer. A receipt is tied to the state its transaction met, so
  a success means the deposit or the settlement happened; a cleared spend
  carries what the node said of it and never a measurement. `QuarterOfMargin`
  is the arithmetic of the sizing: a frame sized from a measurement `m` runs out
  only of a need above `5/4 m`, rounding included.
* `Tools_proofs!NullifierHasOneOutcome`, `ReportsAreTrue` and `BurnsAreRaces`:
  `OneOutcome`, `ReportTruthful` and `BurnsOnlyIfRaced` for any number of tools
  with any jobs. `SubmitInv` keeps `IInv` (what a mempool holds is validated
  like any other transaction) and adds that every envelope of a tool is its
  job's, that a receipt of the pool says what became of its two keys, that a
  running spend shares no key with a receipt, and that a tool past its gate has
  seen the tree with room: a burn after it needs a longer tree. It assumes that
  a tool's job is a request of the pool itself, which is what
  `pool_frametx.py` sends (`ToolsAssumption`).
* `NoLineBurns` and `PlainLinesSend`: `LineNeverBurns` and `PlainLineWorks` for
  lines of any length over any words and any tables of what they parse to.
  `LineInv` distinguishes three stages of the chain: the deposit made and no
  nullifier of the pool consumed (`BeforeSpend`), the one spend of it running
  with room for its outputs (`DuringSpend`), and both consumed and spent
  (`AfterSpend`). Whatever words the line had, what `DispatcherApproves` admits
  settles (`ApprovedSettles`), and with `RoomAssumption` there is no fourth
  stage. An envelope of another sender consumes no key of the pool and leaves the
  stage as it was. For plain lines, each flag that is absent leaves
  its default, the defaults pass the checks of frame 0 one by one, and the only
  reference with the fixture's root is in the window; this uses
  `FixtureAssumption`, `PayerAssumption` and `WindowAssumption`.
* `FixturesAreApproved` and `FixturesForetell`: `WrittenIsApproved` and
  `RootsForetold` for any plans, any secrets and any number of generator runs,
  given that a run draws different secrets and enough of them
  (`SecretsAssumption`) and that its notes are values the circuit has
  (`PlansAssumption`). `FixturesInv` is `PoolInv` with three parts. `FixtureOK`
  says what a written fixture is: its spends satisfy the circuit over their
  trees, its deposits stand in those trees where they will be made, and of two
  of its trees the longer one is the shorter one after the spend of the shorter
  (`FollowsOn`). `RootInFlight` says the running spend is over its own tree, and
  `ForetoldInv` that an undisturbed pool is a prefix of every tree of the fixture
  it is not yet longer than; it is the induction the property alone does not
  have, since the property says nothing until a tree is complete.
* `DisjointSpends`: the action property `DisjointSpendsIndependent`. The three
  ways to lose validity are closed one by one. A publication replaces what is at its
  slot's place in the ring, and a reference within the window has another place
  (`RingPlaces`, `EntriesKept`); approval of a spend does not read the state;
  the pool can front the gas because it is solvent and the spend's fee comes out
  of inputs that are still unspent (`FixturesCovered`, `SelfPayEnough`). The
  last needs all of `PoolInv`: the independence of two spends rests on the
  pool's solvency.
* `SubmittersKeepLedger` and `FixturesKeepLedger`: the specifications with the
  tools implement `PoolLedger` as the pool alone does.

## 6. Model-checked only

Liveness: `ToolEnds`, `FixtureSettles`, `DepositsArrive`. It rests on fairness
and on which actions are enabled, neither of which this prover handles. The two
refuted claims of section 4 are counterexamples, for TLC.

## 7. What the abstraction assumes

* Proofs verify exactly when `CircuitSatisfied` holds; Poseidon does not
  collide; nullifiers and commitments are never the zero word.
* In `FrameTx` a word is a value, without encodings, offsets or widths;
  `SpendCalldata` is where those are, and shows that approval leaves one reading.
* The predeploy write of a root never fails. No frame runs out of gas, except in
  `FrameTool`; the approval code pins the gas of every frame and this is what
  stands between a resubmitter and an out-of-gas burn.
* Arithmetic on credits does not overflow (checked in Solidity).
* In `ShieldedPool` a claim is one step. The payee's callback is in `YulPool`,
  whose claims are those of the Solidity pool line for line.
* In `YulPool` what approval guarantees (conservation, the fee covers the pool's
  gas) is a guard of `Settle`; `ShieldedPool` is where it comes from.
* In `Simulation` a node that finds a prefix valid also executes the envelope and
  reports on it; `FrameTool` drops that.
* In `FrameTool` the pool is what its transactions see of it: which notes are
  deposited or consumed, whether the tree is full, the gas a settlement takes. A
  revert uses the same gas wherever it happens; the deposits are one account's.
* In `CommandLine` the parsers (`int`, `split`) are tables of the words of an
  instance; a flipped proof is one the verifier refuses.
* In `Poseidon` a step takes a statement of the loop for all lanes; no lane reads
  what another has just written.

## 8. Not modelled

* The pairing behind the verifier (generated cryptography).
* RLP encoding, signature hash and JSON forms in `frametx.py`: a wrong byte is
  refused by the node, and nothing depends on its wording. Field encodings and
  witness files in `wallet.py`, for the same reason.
* Views and memory of the Yul pool.
* A predeploy that refuses a root (`ShieldedPoolLogic.sol:458`), and a pool so
  quiet that its newest root ages out before anything can be proved (line 456).
  Both are the protocol's behaviour, for which the repository has no code to
  model: no property covers these two hazards.
* Deployment and live-run scripts, trusted setup, test vectors, the script that
  splits the Poseidon contract: straight-line I/O around the modelled parts.
* The tests, which were read for what the code is meant to do.

## 9. Plan

Every module planned is written, and every safety property of the runs is
proved. What could be added:

1. The liveness properties rest on TLC alone; a prover with `ENABLED` would need
   the fairness of `FixturesSpec`, `SubmitSpec` and `PersistentSpec` as it is.
2. `Simulation` and `FrameTool` model a node apart: the first executes whatever
   validates, the second leaves answers out. A module over both would let the
   properties of `Submitter` be checked on a node that answers less.
3. The predeploy's refusal and the quiet pool (section 8), once the repository
   has code for either.
