--------------------------- MODULE SpendCalldata ----------------------------
(***************************************************************************)
(* A spend as words.  FrameTx takes a Spend for a record that everybody    *)
(* reads alike; here it is calldata, and each program reads it its own     *)
(* way: the dispatcher through FRAMEDATALOAD at byte offsets it spells     *)
(* out, the paymaster by comparing two calldatas word by word, the Yul     *)
(* pool (devnet/ShieldedPool.yul) relative to a base, and the Solidity     *)
(* contracts through the generated ABI decoder.  Words are unsigned        *)
(* integers wide enough for an address with dirty high bits and for the    *)
(* second encoding nf + P of a field element.                              *)
(*                                                                         *)
(* An envelope is built as pool_frametx.py builds it and then altered, one *)
(* word or fact at a time, by whoever passes it on.  What FrameTx has one  *)
(* by one about modes, flags, gas, values, targets, blobs and signatures   *)
(* is one fact here, grammar: "faithful"; "unseen", departing where        *)
(* settlement does not look; "bent", departing where it does; and          *)
(* "alien", a call that comes from no frame transaction at all.            *)
(***************************************************************************)
EXTENDS Integers, SequencesExt

CONSTANTS
  WordTop,      (* 2^256                                                   *)
  P,            (* the field's modulus                                     *)
  AddressTop,   (* 2^160                                                   *)
  MaxValue,     (* 2^128                                                   *)
  PoolDomain,   (* domainFor(chainid, sourceId), a word                    *)
  PoolSource,   (* sourceId of the pool                                    *)
  Proved,       (* spends somebody has made a proof for                    *)
  Pool, Payer,  (* the addresses of the pool and of a paymaster            *)
  MaxChanges    (* bound on the alterations of one envelope                *)

ASSUME WidthsAssumption ==
  /\ WordTop \in Nat /\ P \in 0 .. WordTop - 1 /\ AddressTop \in 0 .. P
  /\ MaxValue \in 1 .. AddressTop
ASSUME AddressesAssumption ==
  /\ Pool \in 1 .. AddressTop - 1 /\ Payer \in 1 .. AddressTop - 1 /\ Pool # Payer
  /\ PoolDomain \in 0 .. P - 1
ASSUME ChangesAssumption == MaxChanges \in Nat /\ PoolSource \in Nat

Words == 0 .. WordTop - 1

ASSUME ProvedAssumption ==
  Proved \subseteq [root : 0 .. P - 1, domain : 0 .. P - 1, nf1 : 0 .. P - 1, nf2 : 0 .. P - 1,
                    outCm1 : 0 .. P - 1, outCm2 : 0 .. P - 1,
                    publicAmount : 0 .. MaxValue - 1, fee : 0 .. MaxValue - 1,
                    ctx : 0 .. P - 1, proof : [1 .. 8 -> Words]]

VARIABLES
  tx,       (* the envelope *)
  changes   (* the alterations made to it *)

vars == <<tx, changes>>

-----------------------------------------------------------------------------
(* Calldata: a selector and the words at offsets 4, 36, ... behind it.     *)
(* Loading past the end gives zero, in EVM and in FRAMEDATALOAD.           *)

Offsets == {4 + 32 * i : i \in 0 .. 17}
TupleOffsets == {o \in Offsets : o < 548}

Selectors == {"transfer", "withdraw", "verifyProofOnly", "other"}

Load(d, o) == IF o + 32 <= d.length THEN d.word[o] ELSE 0

(* the tuple in the order of SPEND_TUPLE, the proof's words left out *)
Members == <<"root", "domain", "nf1", "nf2", "outCm1", "outCm2",
             "publicAmount", "fee", "ctx">>

ProofWords(d, first) == [i \in 1 .. 8 |-> Load(d, first + 32 * (i - 1))]

(* the ABI decoder: the struct's n-th member *)
Member(d, n) == Load(d, 4 + 32 * (n - 1))

Decoded(d) ==
  [root |-> Member(d, 1), domain |-> Member(d, 2), nf1 |-> Member(d, 3), nf2 |-> Member(d, 4),
   outCm1 |-> Member(d, 5), outCm2 |-> Member(d, 6),
   publicAmount |-> Member(d, 7), fee |-> Member(d, 8), ctx |-> Member(d, 9)]

(* cast calldata "transfer((bytes32,...))" of a fixture's spend *)
Encode(selector, length, s, recipient) ==
  [selector |-> selector, length |-> length,
   word |-> [o \in Offsets |->
               LET i == (o - 4) \div 32 + 1
               IN  IF i <= 9 THEN s[Members[i]]
                   ELSE IF i <= 17 THEN s.proof[i - 9] ELSE recipient]]

-----------------------------------------------------------------------------
(* Proofs *)

PublicSignals(s) == <<s.nf1, s.nf2, s.outCm1, s.outCm2, s.root, s.domain,
                      s.publicAmount, s.fee, s.ctx>>

(* for the mutation runs: the last signal, ctx, not bound *)
VerifierIgnoresCtx(proof, signals) ==
  /\ \A i \in 1 .. 9 : signals[i] < P
  /\ \E s \in Proved : /\ proof = s.proof
                       /\ \A i \in 1 .. 8 : (signals[i] % P) = PublicSignals(s)[i]

(* Groth16Verifier.verifyProof: checkField on every signal, then a pairing *)
(* that sees the signals' residues                                         *)
VerifierAccepts(proof, signals) ==
  /\ \A i \in 1 .. 9 : signals[i] < P
  /\ \E s \in Proved : /\ proof = s.proof
                       /\ \A i \in 1 .. 9 : (signals[i] % P) = PublicSignals(s)[i]

-----------------------------------------------------------------------------
(* Checks in the order of the code: the first that does not hold decides   *)
(* the error; "none" when all hold.                                        *)

Check(error, holds) == [error |-> error, holds |-> holds]

FirstFailure(checks) ==
  LET failed == {i \in DOMAIN checks : ~checks[i].holds}
  IN  IF failed = {} THEN "none" ELSE checks[Min(failed)].error

Lo(a, b) == IF a > b THEN b ELSE a
Hi(a, b) == IF a > b THEN a ELSE b

Canonical(s) ==
  /\ s.root < P /\ s.nf1 < P /\ s.nf2 < P /\ s.outCm1 < P /\ s.outCm2 < P
  /\ s.domain < P /\ s.ctx < P

InAmountRange(s) == s.publicAmount < MaxValue /\ s.fee < MaxValue

-----------------------------------------------------------------------------
(* Frame 0: verifyFrameApprove of the dispatcher *)

FrameZeroEnvelope ==
  /\ tx.pinned /\ tx.grammar = "faithful" /\ tx.frames \in {2, 3}
  /\ tx.nonceSeq = 0 /\ Len(tx.refs) = 1 /\ Len(tx.keys) = 2

(* for the mutation runs: the recipient's high bits not looked at *)
FrameZeroCallAnyRecipient(d) ==
  \/ /\ d.length = 548 /\ d.selector = "transfer"
     /\ Load(d, 196) = 0 /\ Load(d, 260) = 0
  \/ /\ d.length = 580 /\ d.selector = "withdraw"
     /\ Load(d, 196) # 0 /\ Load(d, 548) # 0 /\ Load(d, 260) = Load(d, 548)

FrameZeroCall(d) ==
  \/ /\ d.length = 548 /\ d.selector = "transfer"
     /\ Load(d, 196) = 0 /\ Load(d, 260) = 0
  \/ /\ d.length = 580 /\ d.selector = "withdraw"
     /\ Load(d, 196) # 0
     /\ Load(d, 548) # 0 /\ Load(d, 548) < AddressTop
     /\ Load(d, 260) = Load(d, 548)

FrameZeroBindings(d) ==
  /\ tx.keys = <<Lo(Load(d, 68), Load(d, 100)), Hi(Load(d, 68), Load(d, 100))>>
  /\ tx.refs[1].source = PoolSource /\ tx.refs[1].root = Load(d, 4)

FrameZeroFee(d) == tx.frames = 2 => Load(d, 228) >= tx.maxCost

DispatcherReads(d) ==
  [root |-> Load(d, 4), domain |-> Load(d, 36), nf1 |-> Load(d, 68), nf2 |-> Load(d, 100),
   outCm1 |-> Load(d, 132), outCm2 |-> Load(d, 164),
   publicAmount |-> Load(d, 196), fee |-> Load(d, 228), ctx |-> Load(d, 260)]

VerifyFrameProof(d) ==
  LET s == DispatcherReads(d)
  IN  /\ s.nf1 # 0 /\ s.nf2 # 0 /\ s.domain = PoolDomain
      /\ Canonical(s) /\ InAmountRange(s)
      /\ VerifierAccepts(ProofWords(d, 292), PublicSignals(s))

DispatcherApproves ==
  /\ FrameZeroEnvelope /\ FrameZeroCall(tx.settle) /\ FrameZeroBindings(tx.settle)
  /\ VerifyFrameProof(tx.settle) /\ FrameZeroFee(tx.settle)

-----------------------------------------------------------------------------
(* The paymaster, in frame 1 of three: its own calldata against frame 2's  *)

(* for the mutation runs: the tuples compared up to the root only *)
SameRoot(d, e) == Load(d, 4) = Load(e, 4)

SameTuple(d, e) == \A o \in TupleOffsets : Load(d, o) = Load(e, o)

PaymasterApproves ==
  /\ tx.pinned /\ tx.frames = 3 /\ tx.grammar = "faithful"
  /\ tx.pay.length = 548 /\ tx.pay.selector = "verifyProofOnly"
  /\ Load(tx.pay, 228) >= tx.maxCost
  /\ Len(tx.keys) = 2 /\ tx.nonceSeq = 0
  /\ tx.keys = <<Lo(Load(tx.pay, 68), Load(tx.pay, 100)), Hi(Load(tx.pay, 68), Load(tx.pay, 100))>>
  /\ Len(tx.refs) = 1
  /\ tx.refs[1].source = PoolSource /\ tx.refs[1].root = Load(tx.pay, 4)
  /\ \/ tx.settle.length = 548 /\ tx.settle.selector = "transfer"
     \/ tx.settle.length = 580 /\ tx.settle.selector = "withdraw"
  /\ SameTuple(tx.settle, tx.pay)

-----------------------------------------------------------------------------
(* Settlement in Solidity: transfer, withdraw and verifyProofOnly.  The    *)
(* decoder refuses short calldata and dirty addresses before any body runs *)
(* and says nothing ("empty").  pinned is whether tx.sender, who calls, is *)
(* the contract's execution identity.                                      *)

BadDomainOrRange(s) ==
  << Check("InvalidDomain", s.domain = PoolDomain),
     Check("NotCanonical", Canonical(s)),
     Check("ValueTooLarge", InAmountRange(s)) >>

SoliditySpend(s) ==
  << Check("NotPoolSender", tx.pinned),
     Check("ZeroNullifier", s.nf1 # 0 /\ s.nf2 # 0),
     Check("NotFrameNative", tx.grammar # "alien"),
     Check("NotFaithfulShape", tx.frames \in {2, 3} /\ tx.grammar # "bent"),
     Check("KeySetMismatch", /\ tx.nonceSeq = 0
                             /\ tx.keys = <<Lo(s.nf1, s.nf2), Hi(s.nf1, s.nf2)>>),
     Check("RootNotBoundToReference",
           tx.refs = <<[source |-> PoolSource, root |-> s.root]>>),
     Check("InvalidPayer", tx.payer # 0 /\ tx.payer < AddressTop) >>
  \o BadDomainOrRange(s)

ProofHolds(d, s) == VerifierAccepts(ProofWords(d, 292), PublicSignals(s))

SolidityChecks(d) ==
  LET s == Decoded(d)
  IN  IF d.selector = "transfer" THEN
        << Check("empty", d.length >= 548),
           Check("TransferShape", s.publicAmount = 0 /\ s.ctx = 0) >>
        \o SoliditySpend(s)
      ELSE IF d.selector = "withdraw" THEN
        << Check("empty", d.length >= 580 /\ Load(d, 548) < AddressTop),
           Check("WithdrawShape", s.publicAmount # 0 /\ s.ctx # 0),
           Check("CtxDoesNotNameRecipient", s.ctx = Load(d, 548)) >>
        \o SoliditySpend(s)
      ELSE
        << Check("empty", d.selector = "verifyProofOnly" /\ d.length >= 548),
           Check("ZeroNullifier", s.nf1 # 0 /\ s.nf2 # 0) >>
        \o BadDomainOrRange(s)
        \o << Check("ProofInvalid", ProofHolds(d, s)) >>

(* ShieldedPoolLogic.sol, behind the dispatcher *)
LogicOutcome(d) == FirstFailure(SolidityChecks(d))

(* ShieldedPool.sol verifies the proof in settlement as well *)
ReferenceOutcome(d) ==
  FirstFailure(SolidityChecks(d) \o << Check("ProofInvalid", ProofHolds(d, Decoded(d))) >>)

(* what a settlement does with the words *)
SolidityEffect(d) ==
  LET s == Decoded(d)
  IN  [spent |-> {s.nf1, s.nf2}, outputs |-> <<s.outCm1, s.outCm2>>,
       fee |-> IF s.fee # 0 /\ tx.payer # Pool THEN <<tx.payer, s.fee>> ELSE <<>>,
       withdrawal |-> IF d.selector = "withdraw"
                      THEN <<Load(d, 548), s.publicAmount>> ELSE <<>>]

-----------------------------------------------------------------------------
(* The Yul pool, which reads everything relative to base = 4 *)

At(d, base, offset) == Load(d, base + offset)

MonolithValidate(d, base) ==
  << Check("InvalidDomain", At(d, base, 32) = PoolDomain),
     Check("NotCanonical", \A o \in {0, 64, 96, 128, 160, 32, 256} : At(d, base, o) < P),
     Check("ValueTooLarge", At(d, base, 192) < MaxValue /\ At(d, base, 224) < MaxValue) >>

MonolithSignals(d, base) ==
  << At(d, base, 64), At(d, base, 96), At(d, base, 128), At(d, base, 160), At(d, base, 0),
     At(d, base, 32), At(d, base, 192), At(d, base, 224), At(d, base, 256) >>

MonolithVerifySpend(d, base) ==
  MonolithValidate(d, base)
  \o << Check("ProofInvalid",
              VerifierAccepts(ProofWords(d, base + 288), MonolithSignals(d, base))) >>

(* for the mutation runs: the reference checked before the key set *)
MonolithSpendReordered(d, base) ==
  LET nf1 == At(d, base, 64)
      nf2 == At(d, base, 96)
  IN  << Check("NotPoolSender", tx.pinned),
         Check("ZeroNullifier", nf1 # 0), Check("ZeroNullifier", nf2 # 0),
         Check("NotFrameNative", tx.grammar # "alien"),
         Check("NotFaithfulShape", tx.frames \in {2, 3} /\ tx.grammar # "bent"),
         Check("RootNotBoundToReference",
               tx.refs = <<[source |-> PoolSource, root |-> At(d, base, 0)]>>),
         Check("KeySetMismatch",
               tx.nonceSeq = 0 /\ tx.keys = <<Lo(nf1, nf2), Hi(nf1, nf2)>>),
         Check("InvalidPayer", tx.payer # 0 /\ tx.payer < AddressTop) >>
      \o MonolithValidate(d, base)

MonolithSpend(d, base) ==
  LET nf1 == At(d, base, 64)
      nf2 == At(d, base, 96)
  IN  << Check("NotPoolSender", tx.pinned),
         Check("ZeroNullifier", nf1 # 0), Check("ZeroNullifier", nf2 # 0),
         Check("NotFrameNative", tx.grammar # "alien"),
         Check("NotFaithfulShape", tx.frames \in {2, 3} /\ tx.grammar # "bent"),
         Check("KeySetMismatch",
               tx.nonceSeq = 0 /\ tx.keys = <<Lo(nf1, nf2), Hi(nf1, nf2)>>),
         Check("RootNotBoundToReference",
               tx.refs = <<[source |-> PoolSource, root |-> At(d, base, 0)]>>),
         Check("InvalidPayer", tx.payer # 0 /\ tx.payer < AddressTop) >>
      \o MonolithValidate(d, base)

(* needArgs and addrArg: the reverts of solc's decoder, without a reason *)
NeedArgs(d, n) == Check("empty", d.length - 4 >= n)
AddrArg(d, o) == Check("empty", Load(d, o) < AddressTop)

MonolithChecks(d) ==
  IF d.selector = "transfer" THEN
    << NeedArgs(d, 544),
       Check("TransferShape", Load(d, 196) = 0 /\ Load(d, 260) = 0) >>
    \o MonolithSpend(d, 4)
  ELSE IF d.selector = "withdraw" THEN
    << NeedArgs(d, 576), AddrArg(d, 548),
       Check("WithdrawShape", Load(d, 196) # 0 /\ Load(d, 260) # 0),
       Check("CtxDoesNotNameRecipient", Load(d, 260) = Load(d, 548) % AddressTop) >>
    \o MonolithSpend(d, 4)
  ELSE
    << Check("empty", d.selector = "verifyProofOnly"), NeedArgs(d, 544),
       Check("ZeroNullifier", Load(d, 68) # 0), Check("ZeroNullifier", Load(d, 100) # 0) >>
    \o MonolithVerifySpend(d, 4)

MonolithOutcome(d) == FirstFailure(MonolithChecks(d))

MonolithEffect(d) ==
  [spent |-> {At(d, 4, 64), At(d, 4, 96)}, outputs |-> <<At(d, 4, 128), At(d, 4, 160)>>,
   fee |-> IF tx.payer # Pool /\ At(d, 4, 224) # 0
           THEN <<tx.payer, At(d, 4, 224)>> ELSE <<>>,
   withdrawal |-> IF d.selector = "withdraw"
                  THEN <<Load(d, 548), Load(d, 196)>> ELSE <<>>]

(* for the mutation runs: the copy one word short *)
CopyShort(d) ==
  [selector |-> "verifyProofOnly", length |-> 548,
   word |-> [o \in Offsets |-> IF o < 516 THEN Load(d, o) ELSE 0]]

(* the tuple copied out of the settle frame for the call to itself *)
MonolithCopy(d) ==
  [selector |-> "verifyProofOnly", length |-> 548,
   word |-> [o \in Offsets |-> IF o < 548 THEN Load(d, o) ELSE 0]]

(* its verifyFrameApprove has the dispatcher's checks in the dispatcher's  *)
(* order, but for the proof, which it has verified by verifyProofOnly      *)
MonolithApproves ==
  /\ FrameZeroEnvelope /\ FrameZeroCall(tx.settle) /\ FrameZeroBindings(tx.settle)
  /\ MonolithOutcome(MonolithCopy(tx.settle)) = "none"
  /\ FrameZeroFee(tx.settle)

-----------------------------------------------------------------------------
(* Envelopes *)

Build(s, recipient, frames) ==
  [frames |-> frames, grammar |-> "faithful", pinned |-> TRUE,
   payer |-> IF frames = 2 THEN Pool ELSE Payer, maxCost |-> s.fee,
   keys |-> <<Lo(s.nf1, s.nf2), Hi(s.nf1, s.nf2)>>, nonceSeq |-> 0,
   refs |-> <<[source |-> PoolSource, root |-> s.root]>>,
   pay |-> Encode("verifyProofOnly", 548, s, 0),
   settle |-> IF s.publicAmount = 0 THEN Encode("transfer", 548, s, 0)
              ELSE Encode("withdraw", 580, s, recipient)]

(* the other words of interest in the place of w: nothing, the next one,   *)
(* the field's second encoding of w and w with a dirty high bit            *)
Others(w) == {0, w + 1, w + P, w + AddressTop} \cap (Words \ {w})

AlterSettleWord ==
  \E o \in Offsets : \E w \in Others(tx.settle.word[o]) :
    tx' = [tx EXCEPT !.settle.word[o] = w]

AlterBothTuples ==
  \E o \in TupleOffsets : \E w \in Others(tx.settle.word[o]) :
    tx' = [tx EXCEPT !.settle.word[o] = w, !.pay.word[o] = w]

(* the keys made to fit the tuple again *)
RefitKeys ==
  LET nf1 == Load(tx.settle, 68)
      nf2 == Load(tx.settle, 100)
  IN  /\ nf1 # nf2      \* keys are strictly increasing
      /\ tx' = [tx EXCEPT !.keys = <<Lo(nf1, nf2), Hi(nf1, nf2)>>]

AlterCall ==
  \/ \E n \in {516, 548, 580, 612} : tx' = [tx EXCEPT !.settle.length = n]
  \/ \E f \in Selectors : tx' = [tx EXCEPT !.settle.selector = f]

AlterEnvelope ==
  \/ \E f \in {2, 3, 4} : tx' = [tx EXCEPT !.frames = f]
  \/ \E g \in {"faithful", "unseen", "bent", "alien"} : tx' = [tx EXCEPT !.grammar = g]
  \/ \E b \in BOOLEAN : tx' = [tx EXCEPT !.pinned = b]
  \/ \E w \in {0, AddressTop, Pool, Payer} : tx' = [tx EXCEPT !.payer = w]
  \/ tx' = [tx EXCEPT !.maxCost = @ + 1]
  \/ tx' = [tx EXCEPT !.nonceSeq = 1]
  \/ \E i \in DOMAIN tx.keys : tx' = [tx EXCEPT !.keys = RemoveAt(@, i)]
  \/ tx' = [tx EXCEPT !.refs = <<>>]
  \/ \E i \in DOMAIN tx.refs :
       \/ tx' = [tx EXCEPT !.refs[i].root = @ + 1]
       \/ tx' = [tx EXCEPT !.refs[i].source = @ + 1]

Init ==
  /\ \E s \in Proved, f \in {2, 3} : tx = Build(s, s.ctx, f)
  /\ changes = 0

Next ==
  /\ changes < MaxChanges /\ changes' = changes + 1
  /\ \/ AlterSettleWord \/ AlterBothTuples \/ RefitKeys
     \/ AlterCall \/ AlterEnvelope

Spec == Init /\ [][Next]_vars

-----------------------------------------------------------------------------
(* Properties *)

Calldata == [selector : Selectors, length : Nat, word : [Offsets -> Words]]

References == [source : Nat, root : Nat]

Envelopes ==
  [frames : 2 .. 4, grammar : {"faithful", "unseen", "bent", "alien"},
   pinned : BOOLEAN, payer : Words, maxCost : Nat, keys : Seq(Words), nonceSeq : {0, 1},
   refs : Seq(References), pay : Calldata, settle : Calldata]

(* The types of an envelope, altered or not.                               *)
TypeOK == tx \in Envelopes /\ changes \in 0 .. MaxChanges

PayerResolved == tx.payer \in 1 .. AddressTop - 1

(* Word for word, what frame 0 approves is accepted by the decoder and by  *)
(* every check of settlement, so that an encoding the two read differently *)
(* cannot burn notes.                                                      *)
ApprovedWordsSettle ==
  DispatcherApproves /\ PayerResolved => LogicOutcome(tx.settle) = "none"

(* And settlement, which never sees the proof, does with these words what  *)
(* somebody proved: the same notes spent under their only encodings, the   *)
(* same outputs and amounts, and the payment to the address in ctx.        *)
SettlesWhatWasProved ==
  DispatcherApproves =>
    \E s \in Proved :
      /\ Range(tx.keys) = {s.nf1, s.nf2}
      /\ SolidityEffect(tx.settle) = SolidityEffect(Encode(
            tx.settle.selector, tx.settle.length, s, s.ctx))

(* The fee a paymaster compares with its cost is the fee settlement will   *)
(* credit it with, although the two are in different calldatas.            *)
PaymasterReadsSettledFee ==
  PaymasterApproves /\ tx.payer = Payer =>
    SolidityEffect(tx.settle).fee
      = IF Load(tx.pay, 228) = 0 THEN <<>> ELSE <<Payer, Load(tx.pay, 228)>>

(* "Both implementations must fail the SAME check first through every      *)
(* settlement-side check" (YulPoolDifferential.t.sol), except for the      *)
(* proof, and do the same with the words they accept.                      *)
MonolithMirrorsReference ==
  LET reference == ReferenceOutcome(tx.settle)
      monolith == MonolithOutcome(tx.settle)
  IN  /\ \/ reference = monolith
         \/ reference = "ProofInvalid" /\ monolith = "none"
      /\ monolith = "none" => MonolithEffect(tx.settle) = SolidityEffect(tx.settle)

(* The two frame-0 programs approve the same envelopes, though one reads   *)
(* the proof in place and the other calls itself with a copy.              *)
MonolithApprovesAlike == MonolithApproves <=> DispatcherApproves

(* What ShieldedPoolLogic.sol says of the Yul pool: it keeps verifying the *)
(* proof in settlement.                                                    *)
MonolithReverifies ==
  MonolithOutcome(tx.settle) = "none" =>
    ProofHolds(tx.settle, Decoded(tx.settle))

=============================================================================
