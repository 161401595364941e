------------------------ MODULE SpendCalldata_proofs ------------------------
(***************************************************************************)
(* What frame 0 approves, settlement accepts, for words of any width.      *)
(* Settlement's checks are a list, so the proof shows that each of its     *)
(* parts holds and puts the parts together.                                *)
(***************************************************************************)
EXTENDS SpendCalldata, WellFoundedInduction, SequenceTheorems, TLAPS

AllHold(checks) == \A i \in DOMAIN checks : checks[i].holds

Errors == {"empty", "NotPoolSender", "ZeroNullifier", "NotFrameNative",
           "NotFaithfulShape", "KeySetMismatch", "RootNotBoundToReference", "InvalidPayer",
           "InvalidDomain", "NotCanonical", "ValueTooLarge",
           "TransferShape", "WithdrawShape", "CtxDoesNotNameRecipient", "ProofInvalid"}

Checks == [error : Errors, holds : BOOLEAN]

(* A list of checks that all hold fails with nothing.                      *)
LEMMA NoFailure ==
  ASSUME NEW checks, AllHold(checks)
  PROVE  FirstFailure(checks) = "none"
BY DEF AllHold, FirstFailure

(* Otherwise it fails with the first that does not.                        *)
LEMMA Failure ==
  ASSUME NEW checks \in Seq(Checks), NEW i \in DOMAIN checks, ~checks[i].holds,
         \A j \in 1 .. i - 1 : checks[j].holds
  PROVE  FirstFailure(checks) = checks[i].error
<1> DEFINE failed == {j \in DOMAIN checks : ~checks[j].holds}
<1>1. i \in failed /\ \A j \in failed : i <= j
  OBVIOUS
<1>2. \A m \in failed : (\A j \in failed : m <= j) => m = i
  BY <1>1
<1>3. Min(failed) = i
  <2> HIDE DEF failed
  <2> QED BY <1>1, <1>2 DEF Min
<1> QED BY <1>1, <1>3 DEF FirstFailure

(* When some check fails, one of them fails first.                         *)
LEMMA FirstFailing ==
  ASSUME NEW checks \in Seq(Checks), ~AllHold(checks)
  PROVE  \E i \in DOMAIN checks : ~checks[i].holds /\ \A j \in 1 .. i - 1 : checks[j].holds
<1> DEFINE failed == {j \in DOMAIN checks : ~checks[j].holds}
<1>1. failed \in SUBSET Nat /\ failed # {}
  BY DEF AllHold
<1>2. PICK i \in failed : \A j \in failed : i <= j
  <2> HIDE DEF failed
  <2>1. PICK i \in failed : \A j \in failed : ~(<<j, i>> \in OpToRel(<, Nat))
    BY <1>1, NatLessThanWellFounded, WFMin
  <2>2. ASSUME NEW j \in failed PROVE ~(j < i)
    <3>1. <<j, i>> \in Nat \X Nat /\ <<j, i>>[1] = j /\ <<j, i>>[2] = i
      BY <1>1
    <3>2. j < i => <<j, i>> \in OpToRel(<, Nat)
      BY <3>1, Zenon DEF OpToRel
    <3> QED BY <2>1, <3>2
  <2> QED BY <1>1, <2>2
<1>3. \A j \in 1 .. i - 1 : j \in DOMAIN checks /\ j \notin failed
  BY <1>2
<1> QED BY <1>2, <1>3

(* All checks hold exactly when none is reported.                          *)
LEMMA FailureError ==
  ASSUME NEW checks \in Seq(Checks)
  PROVE  AllHold(checks) <=> FirstFailure(checks) = "none"
<1>1. CASE AllHold(checks)
  BY <1>1, NoFailure
<1>2. CASE ~AllHold(checks)
  <2>1. PICK i \in DOMAIN checks : ~checks[i].holds /\ \A j \in 1 .. i - 1 : checks[j].holds
    BY <1>2, FirstFailing
  <2>2. FirstFailure(checks) = checks[i].error /\ checks[i] \in Checks
    BY <2>1, Failure
  <2> QED BY <1>2, <2>2 DEF Checks, Errors
<1> QED BY <1>1, <1>2

(* Two lists that hold make one that holds.                                *)
LEMMA HoldTogether ==
  ASSUME NEW S, NEW a \in Seq(S), NEW b \in Seq(S), AllHold(a), AllHold(b)
  PROVE  a \o b \in Seq(S) /\ AllHold(a \o b)
<1>1. a \o b \in Seq(S) /\ Len(a \o b) = Len(a) + Len(b)
  OBVIOUS
<1>2. ASSUME NEW i \in 1 .. Len(a \o b) PROVE (a \o b)[i].holds
  <2>1. CASE i <= Len(a)
    <3>1. (a \o b)[i] = a[i] /\ i \in DOMAIN a
      BY <1>1, <2>1
    <3> QED BY <3>1 DEF AllHold
  <2>2. CASE i > Len(a)
    <3>1. (a \o b)[i] = b[i - Len(a)] /\ i - Len(a) \in DOMAIN b
      BY <1>1, <2>2
    <3> QED BY <3>1 DEF AllHold
  <2> QED BY <1>1, <2>1, <2>2
<1> QED BY <1>1, <1>2 DEF AllHold

(* The decoder's members are the words the dispatcher reads.               *)
LEMMA DecodedAsRead ==
  ASSUME NEW d
  PROVE  Decoded(d) = DispatcherReads(d)
BY DEF Decoded, DispatcherReads, Member

-----------------------------------------------------------------------------
(* Types *)

(* A spend encoded as calldata is calldata.                                *)
LEMMA EncodeType ==
  ASSUME NEW selector \in Selectors, NEW length \in Nat,
         NEW s \in Proved, NEW recipient \in Words
  PROVE  Encode(selector, length, s, recipient) \in Calldata
<1> DEFINE at(o) == (o - 4) \div 32 + 1
           word(o) == IF at(o) <= 9 THEN s[Members[at(o)]]
                      ELSE IF at(o) <= 17 THEN s.proof[at(o) - 9] ELSE recipient
<1>1. ASSUME NEW o \in Offsets PROVE word(o) \in Words
  <2>1. PICK i \in 0 .. 17 : o = 4 + 32 * i
    BY DEF Offsets
  <2>2. at(o) = i + 1
    BY <2>1
  <2>3. CASE i <= 8
    <3>1. /\ s.root \in Words /\ s.domain \in Words /\ s.nf1 \in Words /\ s.nf2 \in Words
          /\ s.outCm1 \in Words /\ s.outCm2 \in Words /\ s.publicAmount \in Words
          /\ s.fee \in Words /\ s.ctx \in Words
      BY ProvedAssumption, WidthsAssumption DEF Words
    <3>2. i \in {0, 1, 2, 3, 4, 5, 6, 7, 8}
      BY <2>3
    <3>3. s[Members[i + 1]] \in Words
      BY <3>1, <3>2 DEF Members
    <3> QED BY <2>2, <2>3, <3>3
  <2>4. CASE i > 8
    BY <2>2, <2>4, ProvedAssumption
  <2> QED BY <2>3, <2>4
<1> HIDE DEF word, at
<1>2. [o \in Offsets |-> word(o)] \in [Offsets -> Words]
  BY <1>1
<1> QED BY <1>2 DEF Encode, Calldata, word, at

(* The envelopes that are built have their types.                          *)
LEMMA InitTyped == Init => TypeOK
<1> SUFFICES ASSUME NEW s \in Proved, NEW f \in {2, 3}, tx = Build(s, s.ctx, f), changes = 0
             PROVE  TypeOK
  BY DEF Init
<1>1. /\ s.nf1 \in Words /\ s.nf2 \in Words /\ s.ctx \in Words /\ 0 \in Words
      /\ s.root \in Nat /\ s.fee \in Nat /\ Pool \in Words /\ Payer \in Words
  BY ProvedAssumption, WidthsAssumption, AddressesAssumption DEF Words
<1>2. /\ Encode("verifyProofOnly", 548, s, 0) \in Calldata
      /\ Encode("transfer", 548, s, 0) \in Calldata
      /\ Encode("withdraw", 580, s, s.ctx) \in Calldata
  <2>1. "verifyProofOnly" \in Selectors /\ "transfer" \in Selectors /\ "withdraw" \in Selectors
    BY DEF Selectors
  <2>2. Encode("verifyProofOnly", 548, s, 0) \in Calldata
    BY <1>1, <2>1, EncodeType
  <2>3. Encode("transfer", 548, s, 0) \in Calldata
    BY <1>1, <2>1, EncodeType
  <2>4. Encode("withdraw", 580, s, s.ctx) \in Calldata
    BY <1>1, <2>1, EncodeType
  <2> QED BY <2>2, <2>3, <2>4
<1>3. <<Lo(s.nf1, s.nf2), Hi(s.nf1, s.nf2)>> \in Seq(Words)
  BY <1>1 DEF Lo, Hi
<1>4. <<[source |-> PoolSource, root |-> s.root]>> \in Seq(References)
  BY <1>1, ChangesAssumption DEF References
<1> DEFINE settle == IF s.publicAmount = 0 THEN Encode("transfer", 548, s, 0)
                     ELSE Encode("withdraw", 580, s, s.ctx)
           payer == IF f = 2 THEN Pool ELSE Payer
<1>5. settle \in Calldata /\ payer \in Words
  BY <1>1, <1>2
<1> HIDE DEF settle, payer
<1>6. [frames |-> f, grammar |-> "faithful", pinned |-> TRUE, payer |-> payer,
       maxCost |-> s.fee, keys |-> <<Lo(s.nf1, s.nf2), Hi(s.nf1, s.nf2)>>, nonceSeq |-> 0,
       refs |-> <<[source |-> PoolSource, root |-> s.root]>>,
       pay |-> Encode("verifyProofOnly", 548, s, 0), settle |-> settle] \in Envelopes
  BY <1>1, <1>2, <1>3, <1>4, <1>5 DEF Envelopes
<1>7. Build(s, s.ctx, f) \in Envelopes
  BY <1>6 DEF Build, settle, payer
<1> QED BY <1>7, ChangesAssumption DEF TypeOK

WithWord(d, o, w) == [d EXCEPT !.word = [d.word EXCEPT ![o] = w]]

(* Calldata with a word replaced is calldata.                              *)
LEMMA WordReplaced ==
  ASSUME NEW d \in Calldata, NEW o \in Offsets, NEW w \in Words
  PROVE  WithWord(d, o, w) \in Calldata
BY DEF WithWord, Calldata

(* An envelope with one field replaced is an envelope.                     *)
LEMMA FieldReplaced ==
  ASSUME NEW e \in Envelopes
  PROVE  /\ \A v \in 2 .. 4 : [e EXCEPT !.frames = v] \in Envelopes
         /\ \A v \in {"faithful", "unseen", "bent", "alien"} :
              [e EXCEPT !.grammar = v] \in Envelopes
         /\ \A v \in BOOLEAN : [e EXCEPT !.pinned = v] \in Envelopes
         /\ \A v \in Words : [e EXCEPT !.payer = v] \in Envelopes
         /\ \A v \in Nat : [e EXCEPT !.maxCost = v] \in Envelopes
         /\ \A v \in Seq(Words) : [e EXCEPT !.keys = v] \in Envelopes
         /\ \A v \in {0, 1} : [e EXCEPT !.nonceSeq = v] \in Envelopes
         /\ \A v \in Seq(References) : [e EXCEPT !.refs = v] \in Envelopes
         /\ \A v \in Calldata : [e EXCEPT !.settle = v] \in Envelopes
BY DEF Envelopes

(* Every alteration leaves an envelope.                                    *)
LEMMA NextTyped == TypeOK /\ [Next]_vars => TypeOK'
<1> SUFFICES ASSUME TypeOK, [Next]_vars PROVE TypeOK'
  OBVIOUS
<1>1. CASE UNCHANGED vars
  BY <1>1 DEF vars, TypeOK
<1>2. CASE Next
  <2> tx \in Envelopes
    BY DEF TypeOK
  <2>1. changes' \in 0 .. MaxChanges
    BY <1>2, ChangesAssumption DEF Next, TypeOK
  <2>2. ASSUME AlterSettleWord PROVE tx' \in Envelopes
    <3>1. PICK o \in Offsets : \E w \in Others(tx.settle.word[o]) :
            tx' = [tx EXCEPT !.settle.word[o] = w]
      BY <2>2 DEF AlterSettleWord
    <3>2. PICK w \in Words : tx' = [tx EXCEPT !.settle.word[o] = w]
      BY <3>1 DEF Others
    <3>3. WithWord(tx.settle, o, w) \in Calldata
      BY WordReplaced DEF Envelopes
    <3>4. tx' = [tx EXCEPT !.settle = WithWord(tx.settle, o, w)]
      BY <3>2 DEF WithWord
    <3> QED BY <3>3, <3>4 DEF Envelopes
  <2>3. ASSUME AlterBothTuples PROVE tx' \in Envelopes
    <3>1. PICK o \in TupleOffsets : \E w \in Others(tx.settle.word[o]) :
            tx' = [tx EXCEPT !.settle.word[o] = w, !.pay.word[o] = w]
      BY <2>3 DEF AlterBothTuples
    <3>2. PICK w \in Words : tx' = [tx EXCEPT !.settle.word[o] = w, !.pay.word[o] = w]
      BY <3>1 DEF Others
    <3>3. /\ WithWord(tx.settle, o, w) \in Calldata
          /\ WithWord(tx.pay, o, w) \in Calldata
      BY WordReplaced DEF Envelopes, TupleOffsets
    <3>4. tx' = [tx EXCEPT !.settle = WithWord(tx.settle, o, w),
                           !.pay = WithWord(tx.pay, o, w)]
      BY <3>2 DEF WithWord, Envelopes
    <3> QED BY <3>3, <3>4 DEF Envelopes
  <2>4. ASSUME RefitKeys PROVE tx' \in Envelopes
    <3> DEFINE nf1 == Load(tx.settle, 68)
               nf2 == Load(tx.settle, 100)
    <3>1. nf1 \in Words /\ nf2 \in Words
      <4>1. 68 \in Offsets /\ 100 \in Offsets
        <5>1. 68 = 4 + 32 * 2 /\ 100 = 4 + 32 * 3 /\ 2 \in 0 .. 17 /\ 3 \in 0 .. 17
          OBVIOUS
        <5> QED BY <5>1 DEF Offsets
      <4> QED BY <4>1, WidthsAssumption DEF Envelopes, Calldata, Load, Words
    <3>2. <<Lo(nf1, nf2), Hi(nf1, nf2)>> \in Seq(Words)
      BY <3>1 DEF Lo, Hi
    <3>3. tx' = [tx EXCEPT !.keys = <<Lo(nf1, nf2), Hi(nf1, nf2)>>]
      BY <2>4 DEF RefitKeys
    <3> HIDE DEF nf1, nf2
    <3> QED BY <3>2, <3>3 DEF Envelopes
  <2>5. ASSUME AlterCall PROVE tx' \in Envelopes
    <3>1. PICK c \in Calldata : tx' = [tx EXCEPT !.settle = c]
      <4>1. CASE \E n \in {516, 548, 580, 612} : tx' = [tx EXCEPT !.settle.length = n]
        <5>1. PICK n \in {516, 548, 580, 612} : tx' = [tx EXCEPT !.settle.length = n]
          BY <4>1
        <5>2. [tx.settle EXCEPT !.length = n] \in Calldata
          BY DEF Envelopes, Calldata
        <5>3. tx' = [tx EXCEPT !.settle = [tx.settle EXCEPT !.length = n]]
          BY <5>1
        <5> QED BY <5>2, <5>3
      <4>2. CASE \E g \in Selectors : tx' = [tx EXCEPT !.settle.selector = g]
        <5>1. PICK g \in Selectors : tx' = [tx EXCEPT !.settle.selector = g]
          BY <4>2
        <5>2. [tx.settle EXCEPT !.selector = g] \in Calldata
          BY DEF Envelopes, Calldata
        <5>3. tx' = [tx EXCEPT !.settle = [tx.settle EXCEPT !.selector = g]]
          BY <5>1
        <5> QED BY <5>2, <5>3
      <4> QED BY <2>5, <4>1, <4>2 DEF AlterCall
    <3> QED BY <3>1 DEF Envelopes
  <2>6. ASSUME AlterEnvelope PROVE tx' \in Envelopes
    <3>1. /\ tx.pinned \in BOOLEAN /\ tx.maxCost \in Nat /\ tx.keys \in Seq(Words)
          /\ tx.refs \in Seq(References)
      BY DEF Envelopes
    <3>2. CASE \E f \in {2, 3, 4} : tx' = [tx EXCEPT !.frames = f]
      <4>1. PICK f \in {2, 3, 4} : tx' = [tx EXCEPT !.frames = f]
        BY <3>2
      <4>2. f \in 2 .. 4
        OBVIOUS
      <4> QED BY <4>1, <4>2, FieldReplaced
    <3>3. CASE \E g \in {"faithful", "unseen", "bent", "alien"} : tx' = [tx EXCEPT !.grammar = g]
      BY <3>3, FieldReplaced
    <3>4. CASE \E b \in BOOLEAN : tx' = [tx EXCEPT !.pinned = b]
      BY <3>4, FieldReplaced
    <3>5. CASE \E w \in {0, AddressTop, Pool, Payer} : tx' = [tx EXCEPT !.payer = w]
      <4>1. PICK w \in {0, AddressTop, Pool, Payer} : tx' = [tx EXCEPT !.payer = w]
        BY <3>5
      <4>2. w \in Words
        BY WidthsAssumption, AddressesAssumption DEF Words
      <4> QED BY <4>1, <4>2, FieldReplaced
    <3>6. CASE tx' = [tx EXCEPT !.maxCost = @ + 1]
      <4>1. tx.maxCost + 1 \in Nat
        BY <3>1
      <4> QED BY <3>6, <4>1, FieldReplaced
    <3>7. CASE tx' = [tx EXCEPT !.nonceSeq = 1]
      <4>1. 1 \in {0, 1}
        OBVIOUS
      <4> QED BY <3>7, <4>1, FieldReplaced
    <3>8. CASE \E i \in DOMAIN tx.keys : tx' = [tx EXCEPT !.keys = RemoveAt(@, i)]
      <4>1. PICK i \in DOMAIN tx.keys : tx' = [tx EXCEPT !.keys = RemoveAt(tx.keys, i)]
        BY <3>8
      <4>2. RemoveAt(tx.keys, i) \in Seq(Words)
        BY <3>1 DEF RemoveAt
      <4> QED BY <4>1, <4>2, FieldReplaced
    <3>9. CASE tx' = [tx EXCEPT !.refs = <<>>]
      <4>1. <<>> \in Seq(References)
        OBVIOUS
      <4> QED BY <3>9, <4>1, FieldReplaced
    <3>10. CASE \E i \in DOMAIN tx.refs : \/ tx' = [tx EXCEPT !.refs[i].root = @ + 1]
                                         \/ tx' = [tx EXCEPT !.refs[i].source = @ + 1]
      <4>1. PICK i \in DOMAIN tx.refs : \/ tx' = [tx EXCEPT !.refs[i].root = @ + 1]
                                        \/ tx' = [tx EXCEPT !.refs[i].source = @ + 1]
        BY <3>10
      <4>2. \E r \in References : tx' = [tx EXCEPT !.refs = [tx.refs EXCEPT ![i] = r]]
        <5>1. tx.refs[i] \in References
          BY <3>1, <4>1
        <5>2. /\ [tx.refs[i] EXCEPT !.root = @ + 1] \in References
              /\ [tx.refs[i] EXCEPT !.source = @ + 1] \in References
          BY <5>1 DEF References
        <5>3. CASE tx' = [tx EXCEPT !.refs[i].root = @ + 1]
          BY <5>2, <5>3
        <5>4. CASE tx' = [tx EXCEPT !.refs[i].source = @ + 1]
          BY <5>2, <5>4
        <5> QED BY <4>1, <5>3, <5>4
      <4>3. PICK r \in References : tx' = [tx EXCEPT !.refs = [tx.refs EXCEPT ![i] = r]]
        BY <4>2
      <4>4. [tx.refs EXCEPT ![i] = r] \in Seq(References)
        BY <3>1
      <4> QED BY <4>3, <4>4, FieldReplaced
    <3> QED BY <2>6, <3>2, <3>3, <3>4, <3>5, <3>6, <3>7, <3>8, <3>9, <3>10
            DEF AlterEnvelope
  <2> QED BY <2>1, <2>2, <2>3, <2>4, <2>5, <2>6, <1>2 DEF Next, TypeOK
<1> QED BY <1>1, <1>2

(* An envelope, altered as often as one likes, has its type.               *)
THEOREM Typed == Spec => []TypeOK
BY InitTyped, NextTyped, PTL DEF Spec

-----------------------------------------------------------------------------
(* Approval and settlement *)

Held(error) == Check(error, TRUE)

(* A check that holds is a held check.                                     *)
LEMMA Holding ==
  ASSUME NEW error, NEW holds \in BOOLEAN, holds
  PROVE  Check(error, holds) = Held(error)
<1>1. holds = TRUE
  OBVIOUS
<1> QED BY <1>1 DEF Held, Check

(* What the dispatcher approves has the members settlement checks.         *)
LEMMA ApprovedMembers ==
  ASSUME TypeOK, DispatcherApproves
  PROVE  LET s == DispatcherReads(tx.settle)
         IN  /\ tx.pinned = TRUE /\ tx.grammar = "faithful" /\ tx.frames \in {2, 3}
             /\ tx.nonceSeq = 0 /\ s.nf1 # 0 /\ s.nf2 # 0
             /\ tx.keys = <<Lo(s.nf1, s.nf2), Hi(s.nf1, s.nf2)>>
             /\ tx.refs = <<[source |-> PoolSource, root |-> s.root]>>
             /\ s.domain = PoolDomain /\ Canonical(s) /\ InAmountRange(s)
<1> DEFINE s == DispatcherReads(tx.settle)
<1>1. /\ s.root = Load(tx.settle, 4) /\ s.nf1 = Load(tx.settle, 68)
      /\ s.nf2 = Load(tx.settle, 100)
  BY DEF DispatcherReads
<1>2. tx.pinned = TRUE
  BY DEF DispatcherApproves, FrameZeroEnvelope, TypeOK, Envelopes
<1>3. /\ tx.grammar = "faithful" /\ tx.frames \in {2, 3} /\ tx.nonceSeq = 0
      /\ Len(tx.refs) = 1
  BY DEF DispatcherApproves, FrameZeroEnvelope
<1>4. /\ tx.keys = <<Lo(Load(tx.settle, 68), Load(tx.settle, 100)),
                     Hi(Load(tx.settle, 68), Load(tx.settle, 100))>>
      /\ tx.refs[1].source = PoolSource /\ tx.refs[1].root = Load(tx.settle, 4)
  BY DEF DispatcherApproves, FrameZeroBindings
<1>5. tx.refs \in Seq(References)
  BY DEF TypeOK, Envelopes
<1>6. tx.refs[1] \in References
  BY <1>3, <1>5
<1>7. tx.refs[1] = [source |-> PoolSource, root |-> Load(tx.settle, 4)]
  BY <1>4, <1>6 DEF References
<1>8. tx.refs = <<tx.refs[1]>>
  BY <1>3, <1>5
<1>9. /\ s.nf1 # 0 /\ s.nf2 # 0 /\ s.domain = PoolDomain
      /\ Canonical(s) /\ InAmountRange(s)
  BY DEF DispatcherApproves, VerifyFrameProof
<1> HIDE DEF s
<1>10. /\ tx.keys = <<Lo(s.nf1, s.nf2), Hi(s.nf1, s.nf2)>>
       /\ tx.refs = <<[source |-> PoolSource, root |-> s.root]>>
  BY <1>1, <1>4, <1>7, <1>8
<1> QED BY <1>2, <1>3, <1>9, <1>10 DEF s

(* Settlement's own checks hold of what frame 0 approved.                  *)
LEMMA SpendHolds ==
  ASSUME TypeOK, DispatcherApproves, PayerResolved
  PROVE  LET checks == SoliditySpend(DispatcherReads(tx.settle))
         IN  checks \in Seq(Checks) /\ AllHold(checks)
<1> DEFINE s == DispatcherReads(tx.settle)
<1>1. /\ tx.pinned = TRUE /\ tx.grammar = "faithful" /\ tx.frames \in {2, 3}
      /\ tx.nonceSeq = 0 /\ s.nf1 # 0 /\ s.nf2 # 0
      /\ tx.keys = <<Lo(s.nf1, s.nf2), Hi(s.nf1, s.nf2)>>
      /\ tx.refs = <<[source |-> PoolSource, root |-> s.root]>>
      /\ s.domain = PoolDomain /\ Canonical(s) /\ InAmountRange(s)
  BY ApprovedMembers
<1> HIDE DEF s
<1>2. Check("NotPoolSender", tx.pinned) = Held("NotPoolSender")
  BY <1>1 DEF Held, Check
<1>3. Check("ZeroNullifier", s.nf1 # 0 /\ s.nf2 # 0) = Held("ZeroNullifier")
  BY <1>1, Holding
<1>4. Check("NotFrameNative", tx.grammar # "alien") = Held("NotFrameNative")
  BY <1>1, Holding
<1>5. Check("NotFaithfulShape", tx.frames \in {2, 3} /\ tx.grammar # "bent")
        = Held("NotFaithfulShape")
  BY <1>1, Holding
<1>6. Check("KeySetMismatch", /\ tx.nonceSeq = 0
                              /\ tx.keys = <<Lo(s.nf1, s.nf2), Hi(s.nf1, s.nf2)>>)
        = Held("KeySetMismatch")
  BY <1>1, Holding
<1>7. Check("RootNotBoundToReference",
            tx.refs = <<[source |-> PoolSource, root |-> s.root]>>)
        = Held("RootNotBoundToReference")
  BY <1>1, Holding
<1>8. Check("InvalidPayer", tx.payer # 0 /\ tx.payer < AddressTop) = Held("InvalidPayer")
  <2>1. tx.payer # 0 /\ tx.payer < AddressTop
    BY AddressesAssumption, WidthsAssumption DEF PayerResolved
  <2> QED BY <2>1, Holding
<1>9. Check("InvalidDomain", s.domain = PoolDomain) = Held("InvalidDomain")
  BY <1>1, Holding
<1>10. Check("NotCanonical", Canonical(s)) = Held("NotCanonical")
  <2>1. Canonical(s) \in BOOLEAN
    BY DEF Canonical
  <2> QED BY <1>1, <2>1, Holding
<1>11. Check("ValueTooLarge", InAmountRange(s)) = Held("ValueTooLarge")
  <2>1. InAmountRange(s) \in BOOLEAN
    BY DEF InAmountRange
  <2> QED BY <1>1, <2>1, Holding
<1> DEFINE head == << Held("NotPoolSender"), Held("ZeroNullifier"), Held("NotFrameNative"),
                      Held("NotFaithfulShape"), Held("KeySetMismatch"),
                      Held("RootNotBoundToReference"), Held("InvalidPayer") >>
           tail == << Held("InvalidDomain"), Held("NotCanonical"), Held("ValueTooLarge") >>
<1>12. BadDomainOrRange(s) = tail
  BY <1>9, <1>10, <1>11 DEF BadDomainOrRange
<1>13. SoliditySpend(s) = head \o tail
  BY <1>2, <1>3, <1>4, <1>5, <1>6, <1>7, <1>8, <1>12 DEF SoliditySpend
<1>14. head \in Seq(Checks) /\ AllHold(head) /\ tail \in Seq(Checks) /\ AllHold(tail)
  BY DEF AllHold, Held, Check, Checks, Errors
<1> HIDE DEF head, tail
<1> QED BY <1>13, <1>14, HoldTogether DEF s

(* The checks of a call frame 0 approved all hold.                         *)
LEMMA CallHolds ==
  ASSUME TypeOK, DispatcherApproves, PayerResolved
  PROVE  AllHold(SolidityChecks(tx.settle))
<1> DEFINE d == tx.settle
           s == DispatcherReads(d)
<1>1. /\ d.length = 548 \/ d.length = 580
      /\ Load(d, 196) = s.publicAmount /\ Load(d, 260) = s.ctx
  BY DEF DispatcherApproves, FrameZeroCall, DispatcherReads
<1>2. SoliditySpend(s) \in Seq(Checks) /\ AllHold(SoliditySpend(s))
  BY SpendHolds
<1>3. Decoded(d) = s
  BY DecodedAsRead
<1>4. FrameZeroCall(d)
  BY DEF DispatcherApproves
<1> HIDE DEF d, s
<1>5. CASE /\ d.length = 548 /\ d.selector = "transfer"
           /\ Load(d, 196) = 0 /\ Load(d, 260) = 0
  <2>1. Check("empty", d.length >= 548) = Held("empty")
    <3>1. (d.length >= 548) = TRUE
      BY <1>5
    <3> QED BY <3>1 DEF Held
  <2>2. Check("TransferShape", s.publicAmount = 0 /\ s.ctx = 0) = Held("TransferShape")
    BY <1>1, <1>5, Holding
  <2> DEFINE head == <<Held("empty"), Held("TransferShape")>>
  <2>3. SolidityChecks(d) = head \o SoliditySpend(s)
    BY <1>3, <1>5, <2>1, <2>2 DEF SolidityChecks
  <2>4. head \in Seq(Checks) /\ AllHold(head)
    BY DEF AllHold, Held, Check, Checks, Errors
  <2> HIDE DEF head
  <2> QED BY <1>2, <2>3, <2>4, HoldTogether DEF d
<1>6. CASE /\ d.length = 580 /\ d.selector = "withdraw"
           /\ Load(d, 196) # 0
           /\ Load(d, 548) # 0 /\ Load(d, 548) < AddressTop
           /\ Load(d, 260) = Load(d, 548)
  <2>1. Check("empty", d.length >= 580 /\ Load(d, 548) < AddressTop) = Held("empty")
    <3>1. (d.length >= 580 /\ Load(d, 548) < AddressTop) = TRUE
      BY <1>6
    <3> QED BY <3>1 DEF Held
  <2>2. /\ Check("WithdrawShape", s.publicAmount # 0 /\ s.ctx # 0) = Held("WithdrawShape")
        /\ Check("CtxDoesNotNameRecipient", s.ctx = Load(d, 548))
             = Held("CtxDoesNotNameRecipient")
    <3>1. s.publicAmount # 0 /\ s.ctx # 0 /\ s.ctx = Load(d, 548)
      BY <1>1, <1>6
    <3> QED BY <3>1, Holding
  <2> DEFINE head == <<Held("empty"), Held("WithdrawShape"), Held("CtxDoesNotNameRecipient")>>
  <2>3. SolidityChecks(d) = head \o SoliditySpend(s)
    BY <1>3, <1>6, <2>1, <2>2 DEF SolidityChecks
  <2>4. head \in Seq(Checks) /\ AllHold(head)
    BY DEF AllHold, Held, Check, Checks, Errors
  <2> HIDE DEF head
  <2> QED BY <1>2, <2>3, <2>4, HoldTogether DEF d
<1> QED BY <1>4, <1>5, <1>6 DEF FrameZeroCall

(* Whatever an envelope has been altered to, words frame 0 approves are    *)
(* words settlement accepts, for every field and every word width.         *)
THEOREM WordsSettle == Spec => []ApprovedWordsSettle
<1>1. TypeOK => ApprovedWordsSettle
  BY CallHolds, NoFailure DEF ApprovedWordsSettle, LogicOutcome
<1> QED BY <1>1, Typed, PTL

(* A list in two parts fails with its second part when the first holds.    *)
LEMMA InTwoParts ==
  ASSUME NEW a \in Seq(Checks), NEW b \in Seq(Checks)
  PROVE  FirstFailure(a \o b) = IF AllHold(a) THEN FirstFailure(b) ELSE FirstFailure(a)
<1>1. a \o b \in Seq(Checks) /\ Len(a \o b) = Len(a) + Len(b)
  OBVIOUS
<1>2. CASE AllHold(a) /\ AllHold(b)
  BY <1>2, HoldTogether, NoFailure
<1>3. CASE AllHold(a) /\ ~AllHold(b)
  <2>1. PICK i \in DOMAIN b : ~b[i].holds /\ \A j \in 1 .. i - 1 : b[j].holds
    BY <1>3, FirstFailing
  <2>2. /\ Len(a) + i \in DOMAIN (a \o b) /\ (a \o b)[Len(a) + i] = b[i]
        /\ \A j \in 1 .. Len(a) + i - 1 :
             (a \o b)[j] = IF j <= Len(a) THEN a[j] ELSE b[j - Len(a)]
    BY <1>1, <2>1
  <2>3. \A j \in 1 .. Len(a) + i - 1 : (a \o b)[j].holds
    <3> TAKE j \in 1 .. Len(a) + i - 1
    <3>1. CASE j <= Len(a)
      BY <1>3, <2>2, <3>1 DEF AllHold
    <3>2. CASE j > Len(a)
      <4>1. j - Len(a) \in 1 .. i - 1
        BY <2>1, <3>2
      <4> QED BY <2>1, <2>2, <3>2, <4>1
    <3> QED BY <3>1, <3>2
  <2>4. FirstFailure(a \o b) = b[i].error
    <3> DEFINE l == a \o b
               k == Len(a) + i
    <3>1. /\ l \in Seq(Checks) /\ k \in DOMAIN l /\ l[k] = b[i] /\ ~l[k].holds
          /\ \A j \in 1 .. k - 1 : l[j].holds
      BY <1>1, <2>1, <2>2, <2>3
    <3> HIDE DEF l, k
    <3>2. FirstFailure(l) = l[k].error
      BY <3>1, Failure
    <3> QED BY <3>1, <3>2 DEF l
  <2> QED BY <1>3, <2>1, <2>4, Failure
<1>4. CASE ~AllHold(a)
  <2>1. PICK i \in DOMAIN a : ~a[i].holds /\ \A j \in 1 .. i - 1 : a[j].holds
    BY <1>4, FirstFailing
  <2>2. /\ i \in DOMAIN (a \o b) /\ (a \o b)[i] = a[i]
        /\ \A j \in 1 .. i - 1 : (a \o b)[j] = a[j]
    BY <1>1, <2>1
  <2>3. FirstFailure(a \o b) = a[i].error
    BY <1>1, <2>1, <2>2, Failure
  <2> QED BY <1>4, <2>1, <2>3, Failure
<1> QED BY <1>2, <1>3, <1>4

-----------------------------------------------------------------------------
(* The words settlement acts on *)

(* The decoder finds in an encoded spend the spend.                        *)
LEMMA EncodedReads ==
  ASSUME NEW selector, NEW length \in {548, 580}, NEW s, NEW recipient
  PROVE  LET e == Encode(selector, length, s, recipient)
         IN  /\ e.selector = selector /\ e.length = length
             /\ Decoded(e).root = s.root /\ Decoded(e).nf1 = s.nf1 /\ Decoded(e).nf2 = s.nf2
             /\ Decoded(e).outCm1 = s.outCm1 /\ Decoded(e).outCm2 = s.outCm2
             /\ Decoded(e).publicAmount = s.publicAmount /\ Decoded(e).fee = s.fee
             /\ length = 580 => Load(e, 548) = recipient
<1> DEFINE e == Encode(selector, length, s, recipient)
           at(o) == (o - 4) \div 32 + 1
           word(o) == IF at(o) <= 9 THEN s[Members[at(o)]]
                      ELSE IF at(o) <= 17 THEN s.proof[at(o) - 9] ELSE recipient
<1>1. /\ e.selector = selector /\ e.length = length
      /\ e.word = [o \in Offsets |-> word(o)]
  BY DEF Encode
<1>2. ASSUME NEW i \in 0 .. 17
      PROVE  4 + 32 * i \in Offsets /\ at(4 + 32 * i) = i + 1
  BY DEF Offsets
<1>3. ASSUME NEW n \in 1 .. 9 PROVE Member(e, n) = s[Members[n]]
  <2>1. n - 1 \in 0 .. 17 /\ 4 + 32 * (n - 1) + 32 <= length
    OBVIOUS
  <2>2. 4 + 32 * (n - 1) \in Offsets /\ at(4 + 32 * (n - 1)) = n
    BY <1>2, <2>1
  <2>3. word(4 + 32 * (n - 1)) = s[Members[n]]
    BY <2>2
  <2> HIDE DEF word, at, e
  <2> QED BY <1>1, <2>1, <2>2, <2>3 DEF Member, Load
<1>4. ASSUME length = 580 PROVE Load(e, 548) = recipient
  <2>1. 548 = 4 + 32 * 17 /\ 17 \in 0 .. 17
    OBVIOUS
  <2>2. 548 \in Offsets /\ at(548) = 18
    BY <1>2, <2>1
  <2>3. word(548) = recipient
    BY <2>2
  <2> HIDE DEF word, at, e
  <2> QED BY <1>1, <1>4, <2>2, <2>3 DEF Load
<1> HIDE DEF e, word, at
<1>5. /\ Members[1] = "root" /\ Members[3] = "nf1" /\ Members[4] = "nf2"
      /\ Members[5] = "outCm1" /\ Members[6] = "outCm2"
      /\ Members[7] = "publicAmount" /\ Members[8] = "fee"
  BY DEF Members
<1> QED BY <1>1, <1>3, <1>4, <1>5 DEF Decoded, e

(* A word loaded from calldata is a word.                                  *)
LEMMA LoadWord ==
  ASSUME NEW d \in Calldata, NEW i \in 0 .. 17
  PROVE  Load(d, 4 + 32 * i) \in Words
<1>1. 4 + 32 * i \in Offsets /\ 0 \in Words
  BY WidthsAssumption DEF Offsets, Words
<1> QED BY <1>1 DEF Load, Calldata

(* The pairing sees residues, and settlement reads only words below P.     *)
LEMMA VerifiedSignals ==
  ASSUME NEW proof, NEW signals \in [1 .. 9 -> Nat], VerifierAccepts(proof, signals)
  PROVE  \E s \in Proved : \A i \in 1 .. 9 : signals[i] = PublicSignals(s)[i]
<1>1. PICK s \in Proved : \A i \in 1 .. 9 : (signals[i] % P) = PublicSignals(s)[i]
  BY DEF VerifierAccepts
<1>2. ASSUME NEW i \in 1 .. 9 PROVE signals[i] = PublicSignals(s)[i]
  <2>1. signals[i] \in Nat /\ signals[i] < P /\ P \in Nat
    BY WidthsAssumption DEF VerifierAccepts
  <2>2. signals[i] % P = signals[i]
    BY <2>1
  <2> QED BY <1>1, <2>2
<1> QED BY <1>2

(* What frame 0 approves, settlement settles as it was proved.             *)
THEOREM ProvedIsSettled == Spec => []SettlesWhatWasProved
<1>1. TypeOK => SettlesWhatWasProved
  <2> SUFFICES ASSUME TypeOK, DispatcherApproves
               PROVE  \E s \in Proved :
                        /\ Range(tx.keys) = {s.nf1, s.nf2}
                        /\ SolidityEffect(tx.settle) = SolidityEffect(Encode(
                              tx.settle.selector, tx.settle.length, s, s.ctx))
    BY DEF SettlesWhatWasProved
  <2> DEFINE d == tx.settle
             r == DispatcherReads(d)
             signals == PublicSignals(r)
  <2>1. d \in Calldata
    BY DEF TypeOK, Envelopes
  <2>2. /\ r.root \in Words /\ r.domain \in Words /\ r.nf1 \in Words /\ r.nf2 \in Words
        /\ r.outCm1 \in Words /\ r.outCm2 \in Words /\ r.publicAmount \in Words
        /\ r.fee \in Words /\ r.ctx \in Words
    <3>1. \A i \in 0 .. 17 : Load(d, 4 + 32 * i) \in Words
      BY <2>1, LoadWord
    <3>2. /\ 4 = 4 + 32 * 0 /\ 36 = 4 + 32 * 1 /\ 68 = 4 + 32 * 2 /\ 100 = 4 + 32 * 3
          /\ 132 = 4 + 32 * 4 /\ 164 = 4 + 32 * 5 /\ 196 = 4 + 32 * 6 /\ 228 = 4 + 32 * 7
          /\ 260 = 4 + 32 * 8
      OBVIOUS
    <3> HIDE DEF d
    <3>3. /\ Load(d, 4) \in Words /\ Load(d, 36) \in Words /\ Load(d, 68) \in Words
          /\ Load(d, 100) \in Words /\ Load(d, 132) \in Words /\ Load(d, 164) \in Words
          /\ Load(d, 196) \in Words /\ Load(d, 228) \in Words /\ Load(d, 260) \in Words
      <4>1. /\ 0 \in 0 .. 17 /\ 1 \in 0 .. 17 /\ 2 \in 0 .. 17 /\ 3 \in 0 .. 17 /\ 4 \in 0 .. 17
            /\ 5 \in 0 .. 17 /\ 6 \in 0 .. 17 /\ 7 \in 0 .. 17 /\ 8 \in 0 .. 17
        OBVIOUS
      <4> QED BY <3>1, <3>2, <4>1
    <3> QED BY <3>3 DEF DispatcherReads
  <2>3. VerifierAccepts(ProofWords(d, 292), signals)
    BY DEF DispatcherApproves, VerifyFrameProof
  <2>4. signals \in [1 .. 9 -> Nat]
    <3> HIDE DEF r
    <3> QED BY <2>2 DEF PublicSignals, Words
  <2>5. PICK s \in Proved : \A i \in 1 .. 9 : signals[i] = PublicSignals(s)[i]
    <3> HIDE DEF signals
    <3> QED BY <2>3, <2>4, VerifiedSignals
  <2>6. /\ r.nf1 = s.nf1 /\ r.nf2 = s.nf2 /\ r.outCm1 = s.outCm1 /\ r.outCm2 = s.outCm2
        /\ r.publicAmount = s.publicAmount /\ r.fee = s.fee /\ r.ctx = s.ctx
    <3> HIDE DEF r
    <3>1. \A i \in {1, 2, 3, 4, 7, 8, 9} : PublicSignals(r)[i] = PublicSignals(s)[i]
      BY <2>5
    <3> QED BY <3>1 DEF PublicSignals
  <2>7. Range(tx.keys) = {s.nf1, s.nf2}
    <3>1. tx.keys = <<Lo(r.nf1, r.nf2), Hi(r.nf1, r.nf2)>>
      BY ApprovedMembers
    <3> HIDE DEF r
    <3>2. Range(tx.keys) = {Lo(r.nf1, r.nf2), Hi(r.nf1, r.nf2)}
      BY <3>1 DEF Range
    <3>3. {Lo(r.nf1, r.nf2), Hi(r.nf1, r.nf2)} = {r.nf1, r.nf2}
      BY DEF Lo, Hi
    <3> QED BY <2>6, <3>2, <3>3
  <2> DEFINE e == Encode(d.selector, d.length, s, s.ctx)
  <2>8. /\ d.length \in {548, 580}
        /\ d.selector = "withdraw" => d.length = 580
        /\ d.selector = "withdraw" => Load(d, 548) = r.ctx
    BY DEF DispatcherApproves, FrameZeroCall, DispatcherReads
  <2>9. Decoded(d) = r
    BY DecodedAsRead
  <2> HIDE DEF d, r
  <2>10. /\ e.selector = d.selector
         /\ Decoded(e).nf1 = s.nf1 /\ Decoded(e).nf2 = s.nf2
         /\ Decoded(e).outCm1 = s.outCm1 /\ Decoded(e).outCm2 = s.outCm2
         /\ Decoded(e).publicAmount = s.publicAmount /\ Decoded(e).fee = s.fee
         /\ d.length = 580 => Load(e, 548) = s.ctx
    <3> DEFINE g == d.selector
               n == d.length
               to == s.ctx
    <3>1. n \in {548, 580}
      BY <2>8
    <3> HIDE DEF g, n, to
    <3>2. /\ Encode(g, n, s, to).selector = g
          /\ Decoded(Encode(g, n, s, to)).nf1 = s.nf1
          /\ Decoded(Encode(g, n, s, to)).nf2 = s.nf2
          /\ Decoded(Encode(g, n, s, to)).outCm1 = s.outCm1
          /\ Decoded(Encode(g, n, s, to)).outCm2 = s.outCm2
          /\ Decoded(Encode(g, n, s, to)).publicAmount = s.publicAmount
          /\ Decoded(Encode(g, n, s, to)).fee = s.fee
          /\ n = 580 => Load(Encode(g, n, s, to), 548) = to
      BY <3>1, EncodedReads
    <3> QED BY <3>2 DEF g, n, to
  <2> HIDE DEF e
  <2>11. SolidityEffect(d) = SolidityEffect(e)
    <3> DEFINE x == Decoded(d)
               y == Decoded(e)
    <3>1. /\ x.nf1 = y.nf1 /\ x.nf2 = y.nf2 /\ x.outCm1 = y.outCm1 /\ x.outCm2 = y.outCm2
          /\ x.publicAmount = y.publicAmount /\ x.fee = y.fee
      BY <2>6, <2>9, <2>10
    <3>2. /\ d.selector = e.selector
          /\ d.selector = "withdraw" => Load(d, 548) = Load(e, 548)
      BY <2>6, <2>8, <2>10
    <3> HIDE DEF x, y
    <3>3. (IF d.selector = "withdraw" THEN <<Load(d, 548), x.publicAmount>> ELSE <<>>)
          = (IF e.selector = "withdraw" THEN <<Load(e, 548), y.publicAmount>> ELSE <<>>)
      BY <3>1, <3>2
    <3>4. [spent |-> {x.nf1, x.nf2}, outputs |-> <<x.outCm1, x.outCm2>>,
           fee |-> IF x.fee # 0 /\ tx.payer # Pool THEN <<tx.payer, x.fee>> ELSE <<>>,
           withdrawal |-> IF d.selector = "withdraw"
                          THEN <<Load(d, 548), x.publicAmount>> ELSE <<>>]
          = [spent |-> {y.nf1, y.nf2}, outputs |-> <<y.outCm1, y.outCm2>>,
             fee |-> IF y.fee # 0 /\ tx.payer # Pool THEN <<tx.payer, y.fee>> ELSE <<>>,
             withdrawal |-> IF e.selector = "withdraw"
                            THEN <<Load(e, 548), y.publicAmount>> ELSE <<>>]
      BY <3>1, <3>3
    <3> QED BY <3>4 DEF SolidityEffect, x, y
  <2> QED BY <2>7, <2>11 DEF d, e
<1> QED BY <1>1, Typed, PTL

(* The fee a paymaster reads is the fee it is credited with.               *)
THEOREM PaymasterFeeSettled == Spec => []PaymasterReadsSettledFee
<1>1. PaymasterReadsSettledFee
  <2> SUFFICES ASSUME PaymasterApproves, tx.payer = Payer
               PROVE  SolidityEffect(tx.settle).fee
                        = IF Load(tx.pay, 228) = 0 THEN <<>> ELSE <<Payer, Load(tx.pay, 228)>>
    BY DEF PaymasterReadsSettledFee
  <2>1. 228 \in TupleOffsets
    <3>1. 228 = 4 + 32 * 7 /\ 7 \in 0 .. 17 /\ 228 < 548
      OBVIOUS
    <3> QED BY <3>1 DEF TupleOffsets, Offsets
  <2>2. Load(tx.settle, 228) = Load(tx.pay, 228)
    BY <2>1 DEF PaymasterApproves, SameTuple
  <2>3. Decoded(tx.settle).fee = Load(tx.settle, 228)
    BY DEF Decoded, Member
  <2> QED BY <2>2, <2>3, AddressesAssumption DEF SolidityEffect
<1> QED BY <1>1, PTL

-----------------------------------------------------------------------------
(* The Yul pool and the Solidity pool.  Their lists of checks differ in    *)
(* how they are cut up, not in which check fails first.                    *)

(* Lists whose parts fail alike fail alike.                                *)
LEMMA FailAlike ==
  ASSUME NEW a \in Seq(Checks), NEW b \in Seq(Checks), FirstFailure(a) = FirstFailure(b),
         NEW c \in Seq(Checks), NEW e \in Seq(Checks), FirstFailure(c) = FirstFailure(e)
  PROVE  /\ a \o c \in Seq(Checks) /\ b \o e \in Seq(Checks)
         /\ FirstFailure(a \o c) = FirstFailure(b \o e)
<1>1. AllHold(a) <=> AllHold(b)
  BY FailureError
<1>2. /\ FirstFailure(a \o c) = IF AllHold(a) THEN FirstFailure(c) ELSE FirstFailure(a)
      /\ FirstFailure(b \o e) = IF AllHold(b) THEN FirstFailure(e) ELSE FirstFailure(b)
  BY InTwoParts
<1> QED BY <1>1, <1>2

(* A list that has two others as its parts is their concatenation.         *)
LEMMA Glue ==
  ASSUME NEW S, NEW a \in Seq(S), NEW b \in Seq(S), NEW l \in Seq(S),
         Len(l) = Len(a) + Len(b),
         \A i \in 1 .. Len(a) : l[i] = a[i], \A i \in 1 .. Len(b) : l[Len(a) + i] = b[i]
  PROVE  a \o b = l
<1>1. /\ a \o b \in Seq(S) /\ Len(a \o b) = Len(l)
      /\ \A i \in 1 .. Len(a) + Len(b) :
           (a \o b)[i] = IF i <= Len(a) THEN a[i] ELSE b[i - Len(a)]
  BY ConcatProperties
<1>2. ASSUME NEW i \in 1 .. Len(a \o b) PROVE (a \o b)[i] = l[i]
  <2>1. CASE i <= Len(a)
    BY <1>1, <2>1
  <2>2. CASE i > Len(a)
    <3>1. i - Len(a) \in 1 .. Len(b) /\ Len(a) + (i - Len(a)) = i
      BY <1>1, <2>2
    <3> QED BY <1>1, <2>2, <3>1
  <2> QED BY <1>1, <2>1, <2>2
<1> QED BY <1>1, <1>2, SeqEqual

(* Two checks, joined, are a list of two.                                  *)
LEMMA Pair ==
  ASSUME NEW S, NEW x \in S, NEW y \in S
  PROVE  <<x>> \o <<y>> = <<x, y>>
<1> DEFINE a == <<x>>
           b == <<y>>
           l == <<x, y>>
<1>1. /\ a \in Seq(S) /\ b \in Seq(S) /\ l \in Seq(S)
      /\ Len(a) = 1 /\ Len(b) = 1 /\ Len(l) = 2
      /\ a[1] = x /\ b[1] = y /\ l[1] = x /\ l[2] = y
  OBVIOUS
<1> HIDE DEF a, b, l
<1>2. /\ Len(l) = Len(a) + Len(b)
      /\ \A i \in 1 .. Len(a) : l[i] = a[i]
      /\ \A i \in 1 .. Len(b) : l[Len(a) + i] = b[i]
  BY <1>1
<1>3. a \o b = l
  BY <1>1, <1>2, Glue
<1> QED BY <1>3 DEF a, b, l

(* A settlement's list around its check, or checks, of the nullifiers.     *)
LEMMA Around ==
  ASSUME NEW S, NEW x \in S, NEW y \in S, NEW z \in S,
         NEW c1 \in S, NEW c2 \in S, NEW c3 \in S, NEW c4 \in S, NEW c5 \in S
  PROVE  /\ <<x, y>> \o <<c1, c2, c3, c4, c5>> = <<x, y, c1, c2, c3, c4, c5>>
         /\ (<<x>> \o <<y, z>>) \o <<c1, c2, c3, c4, c5>> = <<x, y, z, c1, c2, c3, c4, c5>>
<1> DEFINE b == <<c1, c2, c3, c4, c5>>
<1>1. /\ b \in Seq(S) /\ Len(b) = 5
      /\ b[1] = c1 /\ b[2] = c2 /\ b[3] = c3 /\ b[4] = c4 /\ b[5] = c5
  OBVIOUS
<1>2. <<x, y>> \o b = <<x, y, c1, c2, c3, c4, c5>>
  <2> DEFINE a == <<x, y>>
             l == <<x, y, c1, c2, c3, c4, c5>>
  <2>1. /\ a \in Seq(S) /\ l \in Seq(S) /\ Len(a) = 2 /\ Len(l) = 7 /\ a[1] = x /\ a[2] = y
        /\ l[1] = x /\ l[2] = y /\ l[3] = c1 /\ l[4] = c2 /\ l[5] = c3 /\ l[6] = c4
        /\ l[7] = c5
    OBVIOUS
  <2> HIDE DEF a, b, l
  <2>2. /\ Len(l) = Len(a) + Len(b)
        /\ \A i \in 1 .. Len(a) : l[i] = a[i]
        /\ \A i \in 1 .. Len(b) : l[Len(a) + i] = b[i]
    BY <1>1, <2>1
  <2>3. a \o b = l
    BY <1>1, <2>1, <2>2, Glue
  <2> QED BY <2>3 DEF a, l
<1>3. (<<x>> \o <<y, z>>) \o b = <<x, y, z, c1, c2, c3, c4, c5>>
  <2> DEFINE a == <<x>> \o <<y, z>>
             l == <<x, y, z, c1, c2, c3, c4, c5>>
  <2>1. /\ a \in Seq(S) /\ Len(a) = 3 /\ a[1] = x /\ a[2] = y /\ a[3] = z
        /\ l \in Seq(S) /\ Len(l) = 8
        /\ l[1] = x /\ l[2] = y /\ l[3] = z /\ l[4] = c1 /\ l[5] = c2 /\ l[6] = c3
        /\ l[7] = c4 /\ l[8] = c5
    OBVIOUS
  <2> HIDE DEF a, b, l
  <2>2. /\ Len(l) = Len(a) + Len(b)
        /\ \A i \in 1 .. Len(a) : l[i] = a[i]
        /\ \A i \in 1 .. Len(b) : l[Len(a) + i] = b[i]
    BY <1>1, <2>1
  <2>3. a \o b = l
    BY <1>1, <2>1, <2>2, Glue
  <2> QED BY <2>3 DEF a, l
<1> QED BY <1>2, <1>3

(* A list of one check reports that check.                                 *)
LEMMA OneCheck ==
  ASSUME NEW c \in Checks
  PROVE  /\ <<c>> \in Seq(Checks)
         /\ FirstFailure(<<c>>) = IF c.holds THEN "none" ELSE c.error
<1>1. <<c>> \in Seq(Checks) /\ DOMAIN <<c>> = {1} /\ <<c>>[1] = c
  OBVIOUS
<1>2. ASSUME c.holds PROVE FirstFailure(<<c>>) = "none"
  BY <1>1, <1>2, NoFailure DEF AllHold
<1>3. ASSUME ~c.holds PROVE FirstFailure(<<c>>) = c.error
  <2> DEFINE l == <<c>>
  <2>1. l \in Seq(Checks) /\ 1 \in DOMAIN l /\ l[1] = c /\ \A j \in 1 .. 1 - 1 : l[j].holds
    BY <1>1
  <2> HIDE DEF l
  <2>2. FirstFailure(l) = l[1].error
    BY <1>3, <2>1, Failure
  <2> QED BY <2>1, <2>2 DEF l
<1> QED BY <1>1, <1>2, <1>3

(* A check is its error and its condition.                                 *)
LEMMA CheckType ==
  ASSUME NEW error \in Errors, NEW holds \in BOOLEAN
  PROVE  /\ Check(error, holds) \in Checks
         /\ Check(error, holds).error = error /\ Check(error, holds).holds = holds
BY DEF Check, Checks

(* A check of two facts fails as two checks of one each.                   *)
LEMMA SplitCheck ==
  ASSUME NEW error \in Errors, NEW f \in BOOLEAN, NEW g \in BOOLEAN
  PROVE  /\ <<Check(error, f), Check(error, g)>> \in Seq(Checks)
         /\ <<Check(error, f /\ g)>> \in Seq(Checks)
         /\ FirstFailure(<<Check(error, f), Check(error, g)>>)
              = FirstFailure(<<Check(error, f /\ g)>>)
<1> DEFINE x == Check(error, f)
           y == Check(error, g)
           z == Check(error, f /\ g)
<1>1. /\ x \in Checks /\ x.error = error /\ x.holds = f
      /\ y \in Checks /\ y.error = error /\ y.holds = g
      /\ z \in Checks /\ z.error = error /\ z.holds = (f /\ g)
  BY CheckType
<1> HIDE DEF x, y, z
<1>2. <<x>> \in Seq(Checks) /\ <<y>> \in Seq(Checks) /\ <<z>> \in Seq(Checks)
  BY <1>1
<1>3. <<x, y>> = <<x>> \o <<y>>
  BY <1>1, Pair
<1>4. FirstFailure(<<x, y>>) = IF AllHold(<<x>>) THEN FirstFailure(<<y>>)
                                                ELSE FirstFailure(<<x>>)
  BY <1>2, <1>3, InTwoParts
<1>5. /\ FirstFailure(<<x>>) = IF f THEN "none" ELSE error
      /\ FirstFailure(<<y>>) = IF g THEN "none" ELSE error
      /\ FirstFailure(<<z>>) = IF f /\ g THEN "none" ELSE error
  BY <1>1, OneCheck
<1>6. AllHold(<<x>>) <=> FirstFailure(<<x>>) = "none"
  BY <1>2, FailureError
<1>7. error # "none"
  BY DEF Errors
<1>8. FirstFailure(<<x, y>>) = FirstFailure(<<z>>)
  BY <1>4, <1>5, <1>6, <1>7
<1> QED BY <1>1, <1>2, <1>8 DEF x, y, z

(* Relative to base 4 the Yul pool reads the decoder's members.            *)
LEMMA YulReads ==
  ASSUME NEW d
  PROVE  /\ At(d, 4, 0) = Decoded(d).root /\ At(d, 4, 32) = Decoded(d).domain
         /\ At(d, 4, 64) = Decoded(d).nf1 /\ At(d, 4, 96) = Decoded(d).nf2
         /\ At(d, 4, 128) = Decoded(d).outCm1 /\ At(d, 4, 160) = Decoded(d).outCm2
         /\ At(d, 4, 192) = Decoded(d).publicAmount /\ At(d, 4, 224) = Decoded(d).fee
         /\ At(d, 4, 256) = Decoded(d).ctx
BY DEF At, Decoded, Member

(* The monolith's range checks are the reference's, read at offset 4.      *)
LEMMA SameValidate ==
  ASSUME NEW d
  PROVE  /\ MonolithValidate(d, 4) = BadDomainOrRange(Decoded(d))
         /\ BadDomainOrRange(Decoded(d)) \in Seq(Checks)
<1> DEFINE s == Decoded(d)
<1>1. Check("InvalidDomain", At(d, 4, 32) = PoolDomain)
      = Check("InvalidDomain", s.domain = PoolDomain)
  BY YulReads
<1>2. Check("NotCanonical", \A o \in {0, 64, 96, 128, 160, 32, 256} : At(d, 4, o) < P)
      = Check("NotCanonical", Canonical(s))
  <2>1. (\A o \in {0, 64, 96, 128, 160, 32, 256} : At(d, 4, o) < P) <=> Canonical(s)
    <3>1. (\A o \in {0, 64, 96, 128, 160, 32, 256} : At(d, 4, o) < P)
          <=> /\ At(d, 4, 0) < P /\ At(d, 4, 64) < P /\ At(d, 4, 96) < P
              /\ At(d, 4, 128) < P /\ At(d, 4, 160) < P /\ At(d, 4, 32) < P
              /\ At(d, 4, 256) < P
      OBVIOUS
    <3> HIDE DEF s
    <3> QED BY <3>1, YulReads DEF Canonical, s
  <2> HIDE DEF s
  <2>2. (\A o \in {0, 64, 96, 128, 160, 32, 256} : At(d, 4, o) < P) = Canonical(s)
    BY <2>1 DEF Canonical
  <2> QED BY <2>2
<1>3. Check("ValueTooLarge", At(d, 4, 192) < MaxValue /\ At(d, 4, 224) < MaxValue)
      = Check("ValueTooLarge", InAmountRange(s))
  BY YulReads DEF InAmountRange
<1> HIDE DEF s
<1>4. MonolithValidate(d, 4) = BadDomainOrRange(s)
  BY <1>1, <1>2, <1>3 DEF MonolithValidate, BadDomainOrRange
<1>5. BadDomainOrRange(s) \in Seq(Checks)
  <2>1. Canonical(s) \in BOOLEAN /\ InAmountRange(s) \in BOOLEAN
    BY DEF Canonical, InAmountRange
  <2>2. /\ Check("InvalidDomain", s.domain = PoolDomain) \in Checks
        /\ Check("NotCanonical", Canonical(s)) \in Checks
        /\ Check("ValueTooLarge", InAmountRange(s)) \in Checks
    BY <2>1 DEF Check, Checks, Errors
  <2> QED BY <2>2 DEF BadDomainOrRange
<1> QED BY <1>4, <1>5 DEF s

(* The settlement bodies fail alike: they differ in where the nullifiers   *)
(* are checked together or one by one.                                     *)
LEMMA SameSpend ==
  ASSUME NEW d, TypeOK
  PROVE  /\ MonolithSpend(d, 4) \in Seq(Checks)
         /\ SoliditySpend(Decoded(d)) \in Seq(Checks)
         /\ FirstFailure(MonolithSpend(d, 4)) = FirstFailure(SoliditySpend(Decoded(d)))
<1> DEFINE s == Decoded(d)
           x == Check("NotPoolSender", tx.pinned)
           y1 == Check("ZeroNullifier", s.nf1 # 0)
           y2 == Check("ZeroNullifier", s.nf2 # 0)
           y == Check("ZeroNullifier", s.nf1 # 0 /\ s.nf2 # 0)
           c1 == Check("NotFrameNative", tx.grammar # "alien")
           c2 == Check("NotFaithfulShape", tx.frames \in {2, 3} /\ tx.grammar # "bent")
           c3 == Check("KeySetMismatch", /\ tx.nonceSeq = 0
                                         /\ tx.keys = <<Lo(s.nf1, s.nf2), Hi(s.nf1, s.nf2)>>)
           c4 == Check("RootNotBoundToReference",
                       tx.refs = <<[source |-> PoolSource, root |-> s.root]>>)
           c5 == Check("InvalidPayer", tx.payer # 0 /\ tx.payer < AddressTop)
           body == <<c1, c2, c3, c4, c5>>
           v == BadDomainOrRange(s)
<1>1. /\ x \in Checks /\ y1 \in Checks /\ y2 \in Checks /\ y \in Checks
      /\ c1 \in Checks /\ c2 \in Checks /\ c3 \in Checks /\ c4 \in Checks /\ c5 \in Checks
  <2>1. tx.pinned \in BOOLEAN
    BY DEF TypeOK, Envelopes
  <2> HIDE DEF s
  <2> QED BY <2>1 DEF Check, Checks, Errors
<1>2. /\ MonolithValidate(d, 4) = v /\ v \in Seq(Checks)
  BY SameValidate
<1>3. MonolithSpend(d, 4) = <<x, y1, y2, c1, c2, c3, c4, c5>> \o v
  <2>1. /\ At(d, 4, 0) = s.root /\ At(d, 4, 64) = s.nf1 /\ At(d, 4, 96) = s.nf2
    BY YulReads
  <2> DEFINE list(root, nf1, nf2) ==
        << Check("NotPoolSender", tx.pinned),
           Check("ZeroNullifier", nf1 # 0), Check("ZeroNullifier", nf2 # 0),
           Check("NotFrameNative", tx.grammar # "alien"),
           Check("NotFaithfulShape", tx.frames \in {2, 3} /\ tx.grammar # "bent"),
           Check("KeySetMismatch",
                 tx.nonceSeq = 0 /\ tx.keys = <<Lo(nf1, nf2), Hi(nf1, nf2)>>),
           Check("RootNotBoundToReference",
                 tx.refs = <<[source |-> PoolSource, root |-> root]>>),
           Check("InvalidPayer", tx.payer # 0 /\ tx.payer < AddressTop) >>
  <2>2. MonolithSpend(d, 4)
        = list(At(d, 4, 0), At(d, 4, 64), At(d, 4, 96)) \o MonolithValidate(d, 4)
    BY DEF MonolithSpend
  <2>3. list(s.root, s.nf1, s.nf2) = <<x, y1, y2, c1, c2, c3, c4, c5>>
    OBVIOUS
  <2> HIDE DEF list, s, v, x, y1, y2, c1, c2, c3, c4, c5
  <2> QED BY <1>2, <2>1, <2>2, <2>3
<1>4. SoliditySpend(s) = <<x, y, c1, c2, c3, c4, c5>> \o v
  <2> HIDE DEF s
  <2> QED BY DEF SoliditySpend
<1>5. /\ <<y1, y2>> \in Seq(Checks) /\ <<y>> \in Seq(Checks)
      /\ FirstFailure(<<y1, y2>>) = FirstFailure(<<y>>)
  <2>1. "ZeroNullifier" \in Errors
    BY DEF Errors
  <2>2. (s.nf1 # 0) \in BOOLEAN /\ (s.nf2 # 0) \in BOOLEAN
    OBVIOUS
  <2> DEFINE f == s.nf1 # 0
             g == s.nf2 # 0
  <2> HIDE DEF f, g
  <2>3. /\ <<Check("ZeroNullifier", f), Check("ZeroNullifier", g)>> \in Seq(Checks)
        /\ <<Check("ZeroNullifier", f /\ g)>> \in Seq(Checks)
        /\ FirstFailure(<<Check("ZeroNullifier", f), Check("ZeroNullifier", g)>>)
            = FirstFailure(<<Check("ZeroNullifier", f /\ g)>>)
    <3>1. f \in BOOLEAN /\ g \in BOOLEAN
      BY DEF f, g
    <3> QED BY <2>1, <3>1, SplitCheck
  <2> QED BY <2>3 DEF f, g
<1> HIDE DEF s, x, y1, y2, y, c1, c2, c3, c4, c5, v
<1>6. /\ <<x, y1, y2, c1, c2, c3, c4, c5>> = (<<x>> \o <<y1, y2>>) \o body
      /\ <<x, y, c1, c2, c3, c4, c5>> = <<x, y>> \o body
      /\ <<x, y>> = <<x>> \o <<y>>
  BY <1>1, Around, Pair
<1> DEFINE first == <<x>>
           two == <<y1, y2>>
           one == <<y>>
<1>7. first \in Seq(Checks) /\ body \in Seq(Checks)
  BY <1>1
<1> HIDE DEF body, first, two, one
<1>8. /\ two \in Seq(Checks) /\ one \in Seq(Checks) /\ FirstFailure(two) = FirstFailure(one)
  BY <1>5 DEF two, one
<1>9. /\ first \o two \in Seq(Checks) /\ first \o one \in Seq(Checks)
      /\ FirstFailure(first \o two) = FirstFailure(first \o one)
  BY <1>7, <1>8, FailAlike
<1> DEFINE here == first \o two
           there == first \o one
<1> HIDE DEF here, there
<1>10. /\ here \o body \in Seq(Checks) /\ there \o body \in Seq(Checks)
       /\ FirstFailure(here \o body) = FirstFailure(there \o body)
  <2>1. /\ here \in Seq(Checks) /\ there \in Seq(Checks)
        /\ FirstFailure(here) = FirstFailure(there)
    BY <1>9 DEF here, there
  <2> QED BY <1>7, <2>1, FailAlike
<1> DEFINE most == here \o body
           rest == there \o body
<1> HIDE DEF most, rest
<1>11. /\ most \o v \in Seq(Checks) /\ rest \o v \in Seq(Checks)
       /\ FirstFailure(most \o v) = FirstFailure(rest \o v)
  <2>1. /\ most \in Seq(Checks) /\ rest \in Seq(Checks)
        /\ FirstFailure(most) = FirstFailure(rest) /\ v \in Seq(Checks)
    BY <1>2, <1>10 DEF most, rest
  <2> QED BY <2>1, FailAlike
<1>12. MonolithSpend(d, 4) = most \o v /\ SoliditySpend(s) = rest \o v
  BY <1>3, <1>4, <1>6 DEF most, rest, here, there, first, two, one
<1> QED BY <1>11, <1>12 DEF s

(* Longer lists from their parts.                                          *)
LEMMA Halves ==
  ASSUME NEW S, NEW x \in S, NEW y \in S, NEW z \in S, NEW w \in S
  PROVE  /\ <<x>> \o <<y, z>> = <<x, y, z>>
         /\ <<x, y>> \o <<z, w>> = <<x, y, z, w>>
<1>1. <<x>> \o <<y, z>> = <<x, y, z>>
  <2> DEFINE a == <<x>>
             b == <<y, z>>
             l == <<x, y, z>>
  <2>1. /\ a \in Seq(S) /\ b \in Seq(S) /\ l \in Seq(S) /\ Len(a) = 1 /\ Len(b) = 2
        /\ Len(l) = 3 /\ a[1] = x /\ b[1] = y /\ b[2] = z
        /\ l[1] = x /\ l[2] = y /\ l[3] = z
    OBVIOUS
  <2> HIDE DEF a, b, l
  <2>2. /\ Len(l) = Len(a) + Len(b)
        /\ \A i \in 1 .. Len(a) : l[i] = a[i]
        /\ \A i \in 1 .. Len(b) : l[Len(a) + i] = b[i]
    BY <2>1
  <2>3. a \o b = l
    BY <2>1, <2>2, Glue
  <2> QED BY <2>3 DEF a, b, l
<1>2. <<x, y>> \o <<z, w>> = <<x, y, z, w>>
  <2> DEFINE a == <<x, y>>
             b == <<z, w>>
             l == <<x, y, z, w>>
  <2>1. /\ a \in Seq(S) /\ b \in Seq(S) /\ l \in Seq(S) /\ Len(a) = 2 /\ Len(b) = 2
        /\ Len(l) = 4 /\ a[1] = x /\ a[2] = y /\ b[1] = z /\ b[2] = w
        /\ l[1] = x /\ l[2] = y /\ l[3] = z /\ l[4] = w
    OBVIOUS
  <2> HIDE DEF a, b, l
  <2>2. /\ Len(l) = Len(a) + Len(b)
        /\ \A i \in 1 .. Len(a) : l[i] = a[i]
        /\ \A i \in 1 .. Len(b) : l[Len(a) + i] = b[i]
    BY <2>1
  <2>3. a \o b = l
    BY <2>1, <2>2, Glue
  <2> QED BY <2>3 DEF a, b, l
<1> QED BY <1>1, <1>2

AlikeChecks(d) ==
  /\ SolidityChecks(d) \in Seq(Checks) /\ MonolithChecks(d) \in Seq(Checks)
  /\ FirstFailure(SolidityChecks(d)) = FirstFailure(MonolithChecks(d))

(* For a transfer, the monolith's checks and the reference's fail alike.   *)
LEMMA AlikeTransfer ==
  ASSUME TypeOK, NEW d \in Calldata, d.selector = "transfer"
  PROVE  AlikeChecks(d)
<1> DEFINE s == Decoded(d)
           e == Check("empty", d.length >= 548)
           f == Check("TransferShape", s.publicAmount = 0 /\ s.ctx = 0)
           head == <<e, f>>
<1>1. e = NeedArgs(d, 544)
  <2>1. d.length \in Nat
    BY DEF Calldata
  <2>2. (d.length >= 548) = (d.length - 4 >= 544)
    BY <2>1
  <2> QED BY <2>2 DEF NeedArgs
<1>2. f = Check("TransferShape", Load(d, 196) = 0 /\ Load(d, 260) = 0)
  BY DEF Decoded, Member
<1>3. head \in Seq(Checks)
  BY DEF Check, Checks, Errors
<1>4. SolidityChecks(d) = head \o SoliditySpend(s)
  BY DEF SolidityChecks
<1>5. MonolithChecks(d) = head \o MonolithSpend(d, 4)
  <2> HIDE DEF e, f
  <2> QED BY <1>1, <1>2 DEF MonolithChecks
<1> HIDE DEF head, s
<1>6. /\ SoliditySpend(s) \in Seq(Checks) /\ MonolithSpend(d, 4) \in Seq(Checks)
      /\ FirstFailure(SoliditySpend(s)) = FirstFailure(MonolithSpend(d, 4))
  BY SameSpend DEF s
<1> QED BY <1>3, <1>4, <1>5, <1>6, FailAlike DEF AlikeChecks

(* For a withdrawal too.                                                   *)
LEMMA AlikeWithdraw ==
  ASSUME TypeOK, NEW d \in Calldata, d.selector = "withdraw"
  PROVE  AlikeChecks(d)
<1> DEFINE s == Decoded(d)
           long == d.length >= 580
           clean == Load(d, 548) < AddressTop
           n == Check("empty", long)
           a == Check("empty", clean)
           e == Check("empty", long /\ clean)
           f == Check("WithdrawShape", s.publicAmount # 0 /\ s.ctx # 0)
           g == Check("CtxDoesNotNameRecipient", s.ctx = Load(d, 548))
           h == Check("CtxDoesNotNameRecipient", s.ctx = Load(d, 548) % AddressTop)
<1>1. /\ n \in Checks /\ a \in Checks /\ e \in Checks /\ f \in Checks /\ g \in Checks
      /\ h \in Checks
  BY DEF Check, Checks, Errors
<1>2. /\ <<n, a>> \in Seq(Checks) /\ <<e>> \in Seq(Checks)
      /\ FirstFailure(<<n, a>>) = FirstFailure(<<e>>)
  <2>1. long \in BOOLEAN /\ clean \in BOOLEAN /\ "empty" \in Errors
    BY DEF Errors
  <2> HIDE DEF long, clean
  <2> QED BY <2>1, SplitCheck
<1>3. e.holds => g = h
  <2> SUFFICES ASSUME clean PROVE g = h
    BY DEF Check
  <2>1. Load(d, 548) \in Nat
    <3>1. 548 = 4 + 32 * 17 /\ 17 \in 0 .. 17
      OBVIOUS
    <3> QED BY <3>1, LoadWord DEF Words
  <2>2. Load(d, 548) % AddressTop = Load(d, 548)
    BY <2>1, WidthsAssumption
  <2> QED BY <2>2
<1>4. SolidityChecks(d) = <<e, f, g>> \o SoliditySpend(s)
  BY DEF SolidityChecks
<1>5. MonolithChecks(d) = <<n, a, f, h>> \o MonolithSpend(d, 4)
  <2>1. n = NeedArgs(d, 576)
    <3>1. d.length \in Nat
      BY DEF Calldata
    <3>2. (d.length >= 580) = (d.length - 4 >= 576)
      BY <3>1
    <3> QED BY <3>2 DEF NeedArgs
  <2>2. a = AddrArg(d, 548)
    BY DEF AddrArg
  <2>3. /\ f = Check("WithdrawShape", Load(d, 196) # 0 /\ Load(d, 260) # 0)
        /\ h = Check("CtxDoesNotNameRecipient", Load(d, 260) = Load(d, 548) % AddressTop)
    BY DEF Decoded, Member
  <2> HIDE DEF n, a, f, h
  <2> QED BY <2>1, <2>2, <2>3 DEF MonolithChecks
<1> HIDE DEF s, n, a, e, f, g, h
<1>6. <<e, f, g>> = <<e>> \o <<f, g>> /\ <<n, a, f, h>> = <<n, a>> \o <<f, h>>
  BY <1>1, Halves
<1> DEFINE one == <<e>>
           two == <<n, a>>
           fg == <<f, g>>
           fh == <<f, h>>
<1>7. /\ fg \in Seq(Checks) /\ fh \in Seq(Checks)
      /\ e.holds => fg = fh
      /\ FirstFailure(one) = IF e.holds THEN "none" ELSE e.error
      /\ e.error # "none" /\ e.holds \in BOOLEAN
      /\ one \in Seq(Checks) /\ two \in Seq(Checks) /\ FirstFailure(two) = FirstFailure(one)
  <2>1. fg \in Seq(Checks) /\ fh \in Seq(Checks) /\ (e.holds => fg = fh)
    BY <1>1, <1>3
  <2>2. FirstFailure(one) = IF e.holds THEN "none" ELSE e.error
    BY <1>1, OneCheck
  <2>3. e.error # "none" /\ e.holds \in BOOLEAN
    BY <1>1 DEF Checks, Errors
  <2> QED BY <1>2, <2>1, <2>2, <2>3
<1> HIDE DEF one, two, fg, fh
<1>8. /\ one \o fg \in Seq(Checks) /\ two \o fh \in Seq(Checks)
      /\ FirstFailure(one \o fg) = FirstFailure(two \o fh)
  <2>1. AllHold(one) <=> e.holds
    BY <1>7, FailureError
  <2>2. AllHold(two) <=> e.holds
    BY <1>7, FailureError
  <2>3. /\ FirstFailure(one \o fg) = IF AllHold(one) THEN FirstFailure(fg)
                                                     ELSE FirstFailure(one)
        /\ FirstFailure(two \o fh) = IF AllHold(two) THEN FirstFailure(fh)
                                                     ELSE FirstFailure(two)
    BY <1>7, InTwoParts
  <2>4. one \o fg \in Seq(Checks) /\ two \o fh \in Seq(Checks)
    BY <1>7, ConcatProperties
  <2> QED BY <1>7, <2>1, <2>2, <2>3, <2>4
<1>9. /\ SoliditySpend(s) \in Seq(Checks) /\ MonolithSpend(d, 4) \in Seq(Checks)
      /\ FirstFailure(SoliditySpend(s)) = FirstFailure(MonolithSpend(d, 4))
  BY SameSpend DEF s
<1> DEFINE sol == one \o fg
           yul == two \o fh
<1>10. /\ sol \in Seq(Checks) /\ yul \in Seq(Checks) /\ FirstFailure(sol) = FirstFailure(yul)
       /\ SolidityChecks(d) = sol \o SoliditySpend(s)
       /\ MonolithChecks(d) = yul \o MonolithSpend(d, 4)
  BY <1>4, <1>5, <1>6, <1>8 DEF one, two, fg, fh
<1> HIDE DEF sol, yul
<1> QED BY <1>9, <1>10, FailAlike DEF AlikeChecks

(* verifyProofOnly verifies the proof in both.                             *)
LEMMA VerifySame ==
  ASSUME NEW d
  PROVE  LET proof == Check("ProofInvalid", ProofHolds(d, Decoded(d)))
         IN  /\ proof \in Checks
             /\ MonolithVerifySpend(d, 4) = BadDomainOrRange(Decoded(d)) \o <<proof>>
<1> DEFINE s == Decoded(d)
           proof == Check("ProofInvalid", ProofHolds(d, s))
<1>1. proof \in Checks
  <2>1. ProofHolds(d, s) \in BOOLEAN
    BY DEF ProofHolds, VerifierAccepts
  <2> QED BY <2>1 DEF Check, Checks, Errors
<1>2. MonolithSignals(d, 4) = PublicSignals(s)
  <2>1. /\ At(d, 4, 0) = s.root /\ At(d, 4, 32) = s.domain
        /\ At(d, 4, 64) = s.nf1 /\ At(d, 4, 96) = s.nf2
        /\ At(d, 4, 128) = s.outCm1 /\ At(d, 4, 160) = s.outCm2
        /\ At(d, 4, 192) = s.publicAmount /\ At(d, 4, 224) = s.fee /\ At(d, 4, 256) = s.ctx
    BY YulReads
  <2> HIDE DEF s
  <2> QED BY <2>1 DEF MonolithSignals, PublicSignals
<1>3. Check("ProofInvalid", VerifierAccepts(ProofWords(d, 4 + 288), MonolithSignals(d, 4)))
      = proof
  <2>1. 4 + 288 = 292
    OBVIOUS
  <2> HIDE DEF s
  <2> QED BY <1>2, <2>1 DEF ProofHolds
<1>4. MonolithVerifySpend(d, 4) = BadDomainOrRange(s) \o <<proof>>
  <2>1. MonolithValidate(d, 4) = BadDomainOrRange(s)
    BY SameValidate
  <2> HIDE DEF s, proof
  <2> QED BY <1>3, <2>1 DEF MonolithVerifySpend
<1> QED BY <1>1, <1>4

(* Joining lists of checks is associative.                                 *)
LEMMA Regroup ==
  ASSUME NEW a \in Seq(Checks), NEW b \in Seq(Checks), NEW c \in Seq(Checks)
  PROVE  (a \o b) \o c = a \o (b \o c)
BY ConcatAssociative

(* And for every other selector, which both refuse.                        *)
LEMMA AlikeVerify ==
  ASSUME TypeOK, NEW d \in Calldata, d.selector # "transfer", d.selector # "withdraw"
  PROVE  AlikeChecks(d)
<1> DEFINE s == Decoded(d)
           called == d.selector = "verifyProofOnly"
           long == d.length >= 548
           f == s.nf1 # 0
           g == s.nf2 # 0
           proof == Check("ProofInvalid", ProofHolds(d, s))
           v == BadDomainOrRange(s)
<1>1. /\ called \in BOOLEAN /\ long \in BOOLEAN /\ f \in BOOLEAN /\ g \in BOOLEAN
      /\ "empty" \in Errors /\ "ZeroNullifier" \in Errors
  BY DEF Errors
<1>2. SolidityChecks(d)
      = (<< Check("empty", called /\ long), Check("ZeroNullifier", f /\ g) >> \o v) \o <<proof>>
  BY DEF SolidityChecks
<1>3. MonolithChecks(d)
      = << Check("empty", called), Check("empty", long),
           Check("ZeroNullifier", f), Check("ZeroNullifier", g) >> \o (v \o <<proof>>)
  <2>1. Check("empty", long) = NeedArgs(d, 544)
    <3>1. d.length \in Nat
      BY DEF Calldata
    <3>2. (d.length >= 548) = (d.length - 4 >= 544)
      BY <3>1
    <3> QED BY <3>2 DEF NeedArgs
  <2>2. /\ Check("ZeroNullifier", f) = Check("ZeroNullifier", Load(d, 68) # 0)
        /\ Check("ZeroNullifier", g) = Check("ZeroNullifier", Load(d, 100) # 0)
    BY DEF Decoded, Member
  <2>3. MonolithVerifySpend(d, 4) = v \o <<proof>>
    BY VerifySame
  <2> HIDE DEF s, long, f, g, v, proof
  <2> QED BY <2>1, <2>2, <2>3 DEF MonolithChecks
<1>4. v \in Seq(Checks) /\ proof \in Checks
  BY SameValidate, VerifySame
<1> HIDE DEF s, called, long, f, g, proof, v
<1> DEFINE e1 == Check("empty", called)
           e2 == Check("empty", long)
           e == Check("empty", called /\ long)
           z1 == Check("ZeroNullifier", f)
           z2 == Check("ZeroNullifier", g)
           z == Check("ZeroNullifier", f /\ g)
<1>5. /\ <<e1, e2>> \in Seq(Checks) /\ <<e>> \in Seq(Checks)
      /\ FirstFailure(<<e>>) = FirstFailure(<<e1, e2>>)
      /\ <<z1, z2>> \in Seq(Checks) /\ <<z>> \in Seq(Checks)
      /\ FirstFailure(<<z>>) = FirstFailure(<<z1, z2>>)
  BY <1>1, SplitCheck
<1>6. e1 \in Checks /\ e2 \in Checks /\ e \in Checks /\ z1 \in Checks /\ z2 \in Checks /\ z \in Checks
  BY <1>1, CheckType
<1> HIDE DEF e1, e2, e, z1, z2, z
<1>7. <<e, z>> = <<e>> \o <<z>> /\ <<e1, e2, z1, z2>> = <<e1, e2>> \o <<z1, z2>>
  BY <1>6, Pair, Halves
<1> DEFINE es == <<e1, e2>>
           zs == <<z1, z2>>
           ee == <<e>>
           zz == <<z>>
           p == <<proof>>
<1>8. /\ es \in Seq(Checks) /\ ee \in Seq(Checks) /\ FirstFailure(ee) = FirstFailure(es)
      /\ zs \in Seq(Checks) /\ zz \in Seq(Checks) /\ FirstFailure(zz) = FirstFailure(zs)
      /\ p \in Seq(Checks)
  BY <1>4, <1>5
<1>9. SolidityChecks(d) = ((ee \o zz) \o v) \o p /\ MonolithChecks(d) = (es \o zs) \o (v \o p)
  BY <1>2, <1>3, <1>7 DEF e1, e2, e, z1, z2, z
<1> HIDE DEF es, zs, ee, zz, p
<1> DEFINE sol == ee \o zz
           yul == es \o zs
           vp == v \o p
<1>10. /\ sol \in Seq(Checks) /\ yul \in Seq(Checks) /\ vp \in Seq(Checks)
       /\ FirstFailure(sol) = FirstFailure(yul)
  BY <1>4, <1>8, FailAlike, ConcatProperties
<1>11. (sol \o v) \o p = sol \o vp
  <2> HIDE DEF sol
  <2>1. sol \in Seq(Checks) /\ v \in Seq(Checks) /\ p \in Seq(Checks)
    BY <1>4, <1>8, <1>10
  <2> QED BY <2>1, Regroup
<1> HIDE DEF sol, yul, vp
<1>12. /\ sol \o vp \in Seq(Checks) /\ yul \o vp \in Seq(Checks)
       /\ FirstFailure(sol \o vp) = FirstFailure(yul \o vp)
  BY <1>10, FailAlike
<1> QED BY <1>9, <1>11, <1>12 DEF AlikeChecks, sol, yul, vp

(* Whatever a settlement's words are, the two pools refuse them for the    *)
(* same reason, the proof apart, or do the same with them.                 *)
THEOREM MonolithMirrors == Spec => []MonolithMirrorsReference
<1>1. TypeOK => MonolithMirrorsReference
  <2> SUFFICES ASSUME TypeOK PROVE MonolithMirrorsReference
    OBVIOUS
  <2> DEFINE d == tx.settle
             proof == Check("ProofInvalid", ProofHolds(d, Decoded(d)))
             checks == SolidityChecks(d)
  <2>1. d \in Calldata
    BY DEF TypeOK, Envelopes
  <2>2. AlikeChecks(d)
    <3> HIDE DEF d
    <3> QED BY <2>1, AlikeTransfer, AlikeWithdraw, AlikeVerify
  <2>3. /\ proof \in Checks /\ <<proof>> \in Seq(Checks)
        /\ FirstFailure(<<proof>>) = IF proof.holds THEN "none" ELSE proof.error
        /\ proof.error = "ProofInvalid"
    <3>1. proof \in Checks
      BY VerifySame
    <3>2. proof.error = "ProofInvalid"
      BY DEF Check
    <3> HIDE DEF proof
    <3> QED BY <3>1, <3>2, OneCheck
  <2>4. ReferenceOutcome(d) = FirstFailure(checks \o <<proof>>)
    BY DEF ReferenceOutcome
  <2>5. checks \in Seq(Checks) /\ MonolithOutcome(d) = FirstFailure(checks)
    BY <2>2 DEF AlikeChecks, MonolithOutcome
  <2>6. \/ ReferenceOutcome(d) = MonolithOutcome(d)
        \/ ReferenceOutcome(d) = "ProofInvalid" /\ MonolithOutcome(d) = "none"
    <3> HIDE DEF d, proof, checks
    <3>1. FirstFailure(checks \o <<proof>>)
          = IF AllHold(checks) THEN FirstFailure(<<proof>>) ELSE FirstFailure(checks)
      BY <2>3, <2>5, InTwoParts
    <3>2. AllHold(checks) <=> FirstFailure(checks) = "none"
      BY <2>5, FailureError
    <3> QED BY <2>3, <2>4, <2>5, <3>1, <3>2
  <2>7. MonolithEffect(d) = SolidityEffect(d)
    <3> DEFINE s == Decoded(d)
    <3>1. /\ At(d, 4, 64) = s.nf1 /\ At(d, 4, 96) = s.nf2
          /\ At(d, 4, 128) = s.outCm1 /\ At(d, 4, 160) = s.outCm2
          /\ At(d, 4, 192) = s.publicAmount /\ At(d, 4, 224) = s.fee
          /\ Load(d, 196) = s.publicAmount
      BY YulReads DEF Decoded, Member
    <3> HIDE DEF s, d
    <3> QED BY <3>1 DEF MonolithEffect, SolidityEffect, s
  <2> QED BY <2>6, <2>7 DEF MonolithMirrorsReference
<1> QED BY <1>1, Typed, PTL

(* The copy has the tuple's words at the tuple's offsets.                  *)
LEMMA CopyReads ==
  ASSUME NEW d \in Calldata
  PROVE  /\ MonolithCopy(d) \in Calldata
         /\ MonolithCopy(d).selector = "verifyProofOnly" /\ MonolithCopy(d).length = 548
         /\ Decoded(MonolithCopy(d)) = DispatcherReads(d)
         /\ ProofWords(MonolithCopy(d), 292) = ProofWords(d, 292)
<1> DEFINE m == MonolithCopy(d)
<1>1. /\ m.selector = "verifyProofOnly" /\ m.length = 548
      /\ m.word = [o \in Offsets |-> IF o < 548 THEN Load(d, o) ELSE 0]
  BY DEF MonolithCopy
<1>2. m \in Calldata
  <2>1. ASSUME NEW o \in Offsets PROVE Load(d, o) \in Words /\ 0 \in Words
    <3>1. PICK i \in 0 .. 17 : o = 4 + 32 * i
      BY DEF Offsets
    <3> QED BY <3>1, LoadWord, WidthsAssumption DEF Words
  <2>2. [o \in Offsets |-> IF o < 548 THEN Load(d, o) ELSE 0] \in [Offsets -> Words]
    BY <2>1
  <2> QED BY <2>2 DEF MonolithCopy, Calldata, Selectors
<1> HIDE DEF m
<1>3. ASSUME NEW i \in 0 .. 16 PROVE Load(m, 4 + 32 * i) = Load(d, 4 + 32 * i)
  <2>1. /\ 4 + 32 * i \in Offsets /\ 4 + 32 * i < 548 /\ 4 + 32 * i + 32 <= 548
    BY DEF Offsets
  <2>2. m.word[4 + 32 * i] = Load(d, 4 + 32 * i)
    BY <1>1, <2>1
  <2> QED BY <1>1, <2>1, <2>2 DEF Load
<1>4. Decoded(m) = DispatcherReads(d)
  <2>1. /\ Load(m, 4 + 32 * 0) = Load(d, 4 + 32 * 0) /\ Load(m, 4 + 32 * 1) = Load(d, 4 + 32 * 1)
        /\ Load(m, 4 + 32 * 2) = Load(d, 4 + 32 * 2) /\ Load(m, 4 + 32 * 3) = Load(d, 4 + 32 * 3)
        /\ Load(m, 4 + 32 * 4) = Load(d, 4 + 32 * 4) /\ Load(m, 4 + 32 * 5) = Load(d, 4 + 32 * 5)
        /\ Load(m, 4 + 32 * 6) = Load(d, 4 + 32 * 6) /\ Load(m, 4 + 32 * 7) = Load(d, 4 + 32 * 7)
        /\ Load(m, 4 + 32 * 8) = Load(d, 4 + 32 * 8)
    BY <1>3
  <2> QED BY <2>1 DEF Decoded, Member, DispatcherReads
<1>5. ProofWords(m, 292) = ProofWords(d, 292)
  <2>1. ASSUME NEW i \in 1 .. 8 PROVE Load(m, 292 + 32 * (i - 1)) = Load(d, 292 + 32 * (i - 1))
    <3>1. i + 8 \in 0 .. 16 /\ 292 + 32 * (i - 1) = 4 + 32 * (i + 8)
      OBVIOUS
    <3> QED BY <1>3, <3>1
  <2> QED BY <2>1 DEF ProofWords
<1> QED BY <1>1, <1>2, <1>4, <1>5 DEF m

(* Joined lists hold when both do.                                         *)
LEMMA HoldBoth ==
  ASSUME NEW a \in Seq(Checks), NEW b \in Seq(Checks)
  PROVE  /\ a \o b \in Seq(Checks)
         /\ AllHold(a \o b) <=> AllHold(a) /\ AllHold(b)
<1>1. a \o b \in Seq(Checks)
  BY ConcatProperties
<1>2. AllHold(a \o b) <=> FirstFailure(a \o b) = "none"
  BY <1>1, FailureError
<1>3. FirstFailure(a \o b) = IF AllHold(a) THEN FirstFailure(b) ELSE FirstFailure(a)
  BY InTwoParts
<1> QED BY <1>1, <1>2, <1>3, FailureError

(* The call of the Yul pool to itself succeeds when the dispatcher's own   *)
(* verification does.                                                      *)
LEMMA CopyVerifies ==
  ASSUME TypeOK, NEW d \in Calldata
  PROVE  MonolithOutcome(MonolithCopy(d)) = "none" <=> VerifyFrameProof(d)
<1> DEFINE m == MonolithCopy(d)
           s == DispatcherReads(d)
           called == m.selector = "verifyProofOnly" /\ m.length >= 548
           e == Check("empty", called)
           z == Check("ZeroNullifier", s.nf1 # 0 /\ s.nf2 # 0)
           v == BadDomainOrRange(s)
           proof == Check("ProofInvalid", ProofHolds(m, s))
<1>1. /\ m \in Calldata /\ m.selector = "verifyProofOnly" /\ m.length = 548
      /\ Decoded(m) = s /\ ProofWords(m, 292) = ProofWords(d, 292)
  BY CopyReads
<1>2. SolidityChecks(m) = (<<e, z>> \o v) \o <<proof>>
  <2> HIDE DEF m, s
  <2> QED BY <1>1 DEF SolidityChecks
<1>3. /\ v \in Seq(Checks) /\ proof \in Checks /\ e \in Checks /\ z \in Checks
      /\ AllHold(v) <=> s.domain = PoolDomain /\ Canonical(s) /\ InAmountRange(s)
  <2>1. v \in Seq(Checks) /\ proof \in Checks
    <3> HIDE DEF m, s
    <3>1. v \in Seq(Checks)
      BY <1>1, SameValidate
    <3>2. proof \in Checks
      BY <1>1, VerifySame
    <3> QED BY <3>1, <3>2
  <2> HIDE DEF m, s
  <2>2. e \in Checks /\ z \in Checks
    BY DEF Check, Checks, Errors
  <2>3. AllHold(v) <=> s.domain = PoolDomain /\ Canonical(s) /\ InAmountRange(s)
    <3> DEFINE f == s.domain = PoolDomain
               g == Canonical(s)
               h == InAmountRange(s)
               x == Check("InvalidDomain", f)
               y == Check("NotCanonical", g)
               w == Check("ValueTooLarge", h)
    <3>1. v = <<x, y, w>>
      BY DEF BadDomainOrRange
    <3>2. f \in BOOLEAN /\ g \in BOOLEAN /\ h \in BOOLEAN
      BY DEF Canonical, InAmountRange
    <3> HIDE DEF v, f, g, h
    <3>3. x.holds = f /\ y.holds = g /\ w.holds = h
      BY DEF Check
    <3> HIDE DEF x, y, w
    <3>4. AllHold(v) <=> x.holds /\ y.holds /\ w.holds
      BY <3>1 DEF AllHold
    <3> QED BY <3>3, <3>4 DEF f, g, h
  <2> QED BY <2>1, <2>2, <2>3
<1>4. /\ e.holds = TRUE /\ z.holds = (s.nf1 # 0 /\ s.nf2 # 0)
      /\ proof.holds = VerifierAccepts(ProofWords(d, 292), PublicSignals(s))
  <2> HIDE DEF m, s
  <2>1. e.holds = TRUE
    <3>1. called = TRUE
      BY <1>1
    <3> HIDE DEF called
    <3> QED BY <3>1 DEF Check
  <2>2. z.holds = (s.nf1 # 0 /\ s.nf2 # 0)
    BY DEF Check
  <2>3. ProofHolds(m, s) = VerifierAccepts(ProofWords(d, 292), PublicSignals(s))
    BY <1>1 DEF ProofHolds
  <2>4. proof.holds = VerifierAccepts(ProofWords(d, 292), PublicSignals(s))
    BY <2>3 DEF Check
  <2> QED BY <2>1, <2>2, <2>4
<1>5. AlikeChecks(m)
  <2>1. m.selector # "transfer" /\ m.selector # "withdraw"
    BY <1>1
  <2> HIDE DEF m
  <2> QED BY <1>1, <2>1, AlikeVerify
<1> HIDE DEF m, s, e, z, v, proof
<1>6. MonolithOutcome(m) = "none" <=> AllHold(SolidityChecks(m))
  BY <1>5, FailureError DEF AlikeChecks, MonolithOutcome
<1> DEFINE head == <<e, z>>
           last == <<proof>>
<1>7. /\ head \in Seq(Checks) /\ last \in Seq(Checks)
      /\ AllHold(head) <=> e.holds /\ z.holds
      /\ AllHold(last) <=> proof.holds
  <2>1. head \in Seq(Checks) /\ last \in Seq(Checks)
    BY <1>3
  <2>2. AllHold(head) <=> e.holds /\ z.holds
    BY DEF AllHold
  <2>3. AllHold(last) <=> proof.holds
    BY DEF AllHold
  <2> QED BY <2>1, <2>2, <2>3
<1>8. SolidityChecks(m) = (head \o v) \o last
  BY <1>2
<1> HIDE DEF head, last
<1>9. head \o v \in Seq(Checks) /\ (AllHold(head \o v) <=> AllHold(head) /\ AllHold(v))
  BY <1>3, <1>7, HoldBoth
<1>10. AllHold((head \o v) \o last) <=> AllHold(head \o v) /\ AllHold(last)
  <2> DEFINE most == head \o v
  <2>1. most \in Seq(Checks)
    BY <1>9
  <2> HIDE DEF most
  <2>2. AllHold(most \o last) <=> AllHold(most) /\ AllHold(last)
    BY <1>7, <2>1, HoldBoth
  <2> QED BY <2>2 DEF most
<1>11. AllHold(SolidityChecks(m)) <=> e.holds /\ z.holds /\ AllHold(v) /\ proof.holds
  BY <1>7, <1>8, <1>9, <1>10, Zenon
<1>12. VerifyFrameProof(d) <=>
         /\ s.nf1 # 0 /\ s.nf2 # 0 /\ s.domain = PoolDomain
         /\ Canonical(s) /\ InAmountRange(s)
         /\ VerifierAccepts(ProofWords(d, 292), PublicSignals(s))
  BY DEF VerifyFrameProof, s
<1>13. MonolithOutcome(m) = "none" <=> VerifyFrameProof(d)
  BY <1>3, <1>4, <1>6, <1>11, <1>12
<1> QED BY <1>13 DEF m

(* The Yul pool approves what the dispatcher approves.                     *)
THEOREM MonolithAgrees == Spec => []MonolithApprovesAlike
<1>1. TypeOK => MonolithApprovesAlike
  <2> SUFFICES ASSUME TypeOK PROVE MonolithApprovesAlike
    OBVIOUS
  <2>1. tx.settle \in Calldata
    BY DEF TypeOK, Envelopes
  <2>2. MonolithOutcome(MonolithCopy(tx.settle)) = "none" <=> VerifyFrameProof(tx.settle)
    BY <2>1, CopyVerifies
  <2> QED BY <2>2 DEF MonolithApprovesAlike, MonolithApproves, DispatcherApproves
<1> QED BY <1>1, Typed, PTL

=============================================================================
