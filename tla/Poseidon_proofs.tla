-------------------------- MODULE Poseidon_proofs --------------------------
(***************************************************************************)
(* The lazily reduced sums of Poseidon fit the word, and what they come to *)
(* is the reference's hash, for every modulus, word, number of lanes and   *)
(* rounds and set of constants with (T + 1) * P <= Word.                   *)
(***************************************************************************)
EXTENDS Poseidon, Sums_proofs

(* A lane is at most T terms below P when a round starts, and each sum at  *)
(* most as many as it has terms.                                           *)
LanesBounded ==
  /\ pc = "ark" => \A i \in Lanes : s[i] <= T * (P - 1)
  /\ pc = "mix" => \A i \in Lanes : n[i] <= j * (P - 1)

Typed ==
  /\ r \in 0 .. Rounds /\ j \in 0 .. T
  /\ pc \in {"ark", "sbox", "mix", "done"}
  /\ pc \in {"sbox", "mix"} => r < Rounds
  /\ s \in [Lanes -> Nat] /\ n \in [Lanes -> Nat]

Bounded == Typed /\ LanesBounded

(* mulmod yields a field element whatever it is given                      *)
LEMMA MulmodInField ==
  ASSUME NEW a \in Nat, NEW b \in Nat
  PROVE  mulmod(a, b) \in Nat /\ mulmod(a, b) \in 0 .. P - 1
<1>1. a * b \in Nat
  OBVIOUS
<1>2. ASSUME NEW c \in Nat PROVE c % P \in Nat /\ c % P \in 0 .. P - 1
  BY SizesAssumption
<1> QED
  BY <1>1, <1>2 DEF mulmod

(* A fifth power is a natural.                                             *)
LEMMA Pow5InField ==
  ASSUME NEW a \in Nat
  PROVE  Pow5(a) \in Nat
<1>1. mulmod(a, a) \in Nat
  BY MulmodInField
<1>2. mulmod(mulmod(a, a), mulmod(a, a)) \in Nat
  BY <1>1, MulmodInField
<1>3. mulmod(mulmod(mulmod(a, a), mulmod(a, a)), a) \in Nat
  BY <1>2, MulmodInField
<1> QED
  BY <1>3 DEF Pow5

(* what a term of a sum is made of                                         *)
LEMMA TermInField ==
  ASSUME Typed, NEW i \in Lanes, j < T
  PROVE  mulmod(M[i][j], s[j]) \in Nat /\ mulmod(M[i][j], s[j]) \in 0 .. P - 1
<1>1. j \in Lanes
  BY SizesAssumption DEF Typed, Lanes
<1>2. M[i][j] \in Nat
  <2>1. M[i] \in [Lanes -> 0 .. P - 1]
    BY ConstantsAssumption
  <2>2. M[i][j] \in 0 .. P - 1
    BY <1>1, <2>1
  <2> QED
    BY <2>2
<1>3. s[j] \in Nat
  BY <1>1 DEF Typed
<1> QED
  BY <1>2, <1>3, MulmodInField

(* the constants of a round are there                                      *)
LEMMA ConstantInField ==
  ASSUME NEW k \in 0 .. Rounds - 1, NEW i \in Lanes
  PROVE  C[k * T + i] \in 0 .. P - 1
<1>1. T \in Nat \ {0} /\ Rounds \in Nat /\ k \in Nat /\ i \in Nat /\ i <= T - 1
  BY SizesAssumption DEF Rounds, Lanes
<1>2. k * T + i <= Rounds * T - 1
  <2>1. (k + 1) * T <= Rounds * T
    BY <1>1
  <2>2. (k + 1) * T = k * T + T
    BY <1>1
  <2>3. k * T \in Nat /\ Rounds * T \in Nat
    BY <1>1
  <2> QED
    BY <1>1, <2>1, <2>2, <2>3
<1>3. k * T + i \in 0 .. Rounds * T - 1
  BY <1>1, <1>2
<1> QED
  BY <1>3, ConstantsAssumption

(* what a lane and a constant, or a sum and a term, come to                *)
LEMMA SumFits ==
  ASSUME NEW k \in 0 .. T, NEW a \in Nat, NEW b \in 0 .. P - 1,
         a <= k * (P - 1)
  PROVE  /\ a + b < Word
         /\ add(a, b) = a + b
         /\ a + b \in Nat /\ a + b <= (k + 1) * (P - 1)
<1>1. P \in Nat \ {0} /\ T \in Nat \ {0} /\ Word \in Nat /\ (T + 1) * P <= Word
  BY SizesAssumption
<1>2. (k + 1) * (P - 1) = k * (P - 1) + (P - 1)
  BY <1>1
<1>3. k * (P - 1) \in Nat /\ a + b <= (k + 1) * (P - 1) /\ a + b \in Nat
  BY <1>1, <1>2
<1>4. (k + 1) * (P - 1) <= (T + 1) * (P - 1)
  BY <1>1
<1>5. (T + 1) * (P - 1) < (T + 1) * P
  BY <1>1
<1>6. a + b < Word
  <2>1. (k + 1) * (P - 1) \in Int /\ (T + 1) * (P - 1) \in Int /\ (T + 1) * P \in Int
    BY <1>1
  <2> QED
    BY <1>1, <1>3, <1>4, <1>5, <2>1
<1>7. (a + b) % Word = a + b
  BY <1>1, <1>3, <1>6
<1> QED
  BY <1>3, <1>6, <1>7 DEF add

(* The inputs are words of the size the bounds ask for.                    *)
LEMMA BoundedInit == Init => Bounded
<1> SUFFICES ASSUME Init PROVE Bounded
  OBVIOUS
<1>1. P \in Nat \ {0} /\ T \in Nat \ {0} /\ Rounds \in Nat
  BY SizesAssumption DEF Rounds
<1>2. \A i \in 1 .. T - 1 : x[i] \in Nat
  <2> SUFFICES ASSUME NEW i \in 1 .. T - 1 PROVE x[i] \in Nat
    OBVIOUS
  <2>1. x[i] \in Inputs
    BY DEF Init
  <2>2. x[i] \in 0 .. Word - 1
    BY <2>1, InputsAssumption
  <2> QED
    BY <2>2, SizesAssumption
<1>3. \A i \in 1 .. T - 1 : Entry(x[i]) \in 0 .. P - 1
  BY <1>1, <1>2 DEF Entry
<1>4. \A i \in Lanes : s[i] \in 0 .. P - 1
  BY <1>1, <1>3 DEF Init, Lanes
<1>5. P - 1 <= T * (P - 1)
  BY <1>1
<1>6. Typed
  BY <1>1, <1>4 DEF Init, Typed, Lanes
<1>7. LanesBounded
  <2>1. T * (P - 1) \in Int
    BY <1>1
  <2>2. \A i \in Lanes : s[i] <= T * (P - 1)
    BY <1>1, <1>4, <1>5, <2>1
  <2> QED
    BY <2>2 DEF LanesBounded, Init
<1> QED
  BY <1>6, <1>7 DEF Bounded

(* No statement of the loop leaves the bounds.                             *)
LEMMA BoundedNext == Bounded /\ [Next]_vars => Bounded'
<1> SUFFICES ASSUME Bounded, [Next]_vars PROVE Bounded'
  OBVIOUS
<1> USE DEF Bounded, Typed, LanesBounded
<1>0. P \in Nat \ {0} /\ T \in Nat \ {0} /\ Rounds \in Nat /\ Lanes \subseteq Nat
  BY SizesAssumption DEF Rounds, Lanes
<1>1. CASE Ark
  <2>1. \A i \in Lanes : add(s[i], C[r * T + i]) \in Nat
    <3> SUFFICES ASSUME NEW i \in Lanes PROVE add(s[i], C[r * T + i]) \in Nat
      OBVIOUS
    <3>1. C[r * T + i] \in 0 .. P - 1
      BY <1>0, <1>1, ConstantInField DEF Ark
    <3> QED
      BY <1>0, <1>1, <3>1, SumFits DEF Ark
  <2> QED
    BY <1>0, <1>1, <2>1 DEF Ark
<1>2. CASE Sbox
  <2>1. \A i \in Lanes : Pow5(s[i]) \in Nat
    BY Pow5InField
  <2>2. s' \in [Lanes -> Nat]
    BY <1>2, <2>1 DEF Sbox
  <2>3. n' = [i \in Lanes |-> 0] /\ j' = 0
    BY <1>2 DEF Sbox
  <2>4. \A i \in Lanes : n'[i] <= j' * (P - 1)
    BY <1>0, <2>3
  <2> QED
    BY <1>0, <1>2, <2>2, <2>3, <2>4 DEF Sbox
<1>3. CASE MixTerm
  <2>1. \A i \in Lanes : mulmod(M[i][j], s[j]) \in 0 .. P - 1
    BY <1>3, TermInField DEF MixTerm
  <2>2. \A i \in Lanes : n'[i] \in Nat /\ n'[i] <= (j + 1) * (P - 1)
    <3> SUFFICES ASSUME NEW i \in Lanes
                 PROVE n'[i] \in Nat /\ n'[i] <= (j + 1) * (P - 1)
      OBVIOUS
    <3>1. n'[i] = add(n[i], mulmod(M[i][j], s[j]))
      BY <1>3 DEF MixTerm
    <3>2. n[i] \in Nat /\ n[i] <= j * (P - 1) /\ j \in 0 .. T
      BY <1>3 DEF MixTerm
    <3>3. mulmod(M[i][j], s[j]) \in 0 .. P - 1
      BY <2>1
    <3> HIDE DEF Bounded, Typed, LanesBounded
    <3> QED
      BY <3>1, <3>2, <3>3, SumFits
  <2>3. n' \in [Lanes -> Nat]
    BY <1>3, <2>2 DEF MixTerm
  <2> QED
    BY <1>0, <1>3, <2>2, <2>3 DEF MixTerm
<1>4. CASE NextRound
  BY <1>0, <1>4 DEF NextRound
<1>5. CASE Output
  BY <1>0, <1>5 DEF Output
<1>6. CASE UNCHANGED vars
  BY <1>6 DEF vars
<1> QED
  BY <1>1, <1>2, <1>3, <1>4, <1>5, <1>6 DEF Next

(* No addition of the generated Solidity wraps: "(t+1)*P must stay < 2^256"*)
(* is all it takes, whatever the callers pass.                             *)
THEOREM NoSumWraps == Spec => []SumsFit
<1>1. Bounded => SumsFit
  <2> SUFFICES ASSUME Bounded, NEW i \in Lanes
               PROVE /\ pc = "ark" /\ r < Rounds => s[i] + C[r * T + i] < Word
                     /\ pc = "mix" /\ j < T
                          => n[i] + mulmod(M[i][j], s[j]) < Word
    BY DEF SumsFit
  <2> USE DEF Bounded, Typed, LanesBounded
  <2>0. P \in Nat \ {0} /\ T \in Nat \ {0} /\ Rounds \in Nat
    BY SizesAssumption DEF Rounds
  <2>1. ASSUME pc = "ark", r < Rounds PROVE s[i] + C[r * T + i] < Word
    <3>1. C[r * T + i] \in 0 .. P - 1
      <4>1. r \in 0 .. Rounds - 1
        BY <2>0, <2>1
      <4> QED
        BY <4>1, ConstantInField
    <3> QED
      BY <2>0, <2>1, <3>1, SumFits
  <2>2. ASSUME pc = "mix", j < T PROVE n[i] + mulmod(M[i][j], s[j]) < Word
    <3>1. mulmod(M[i][j], s[j]) \in 0 .. P - 1
      BY <2>2, TermInField
    <3> QED
      BY <2>0, <2>2, <3>1, SumFits
  <2> QED
    BY <2>1, <2>2
<1> QED
  BY <1>1, BoundedInit, BoundedNext, PTL DEF Spec

-----------------------------------------------------------------------------
(* Remainders *)

(* a and b leave the same remainder; kept folded, so that the provers match *)
(* the sums and products below without doing arithmetic on them            *)
Same(p, a, b) == a % p = b % p

(* the remainder is the one number below p that is a multiple of p away    *)
LEMMA ModUnique ==
  ASSUME NEW p \in Nat \ {0}, NEW q \in Int, NEW k \in 0 .. p - 1, NEW a \in Int, a = p * q + k
  PROVE  a % p = k
OBVIOUS

(* adding a multiple changes nothing                                       *)
LEMMA Multiple ==
  ASSUME NEW p \in Nat \ {0}, NEW u \in Int, NEW a \in Int
  PROVE  Same(p, a + p * u, a)
<1> DEFINE q == a \div p
           k == a % p
           b == a + p * u
<1>1. q \in Int /\ k \in 0 .. p - 1 /\ a = p * q + k
  OBVIOUS
<1> HIDE DEF q, k
<1>2. q + u \in Int /\ b \in Int /\ b = p * (q + u) + k
  BY <1>1
<1> HIDE DEF b
<1>3. b % p = k
  BY <1>1, <1>2, ModUnique
<1> QED  BY <1>3 DEF b, k, Same

(* two numbers of the same remainder are a multiple apart                  *)
LEMMA SameRemainder ==
  ASSUME NEW p \in Nat \ {0}, NEW a \in Nat, NEW b \in Nat, Same(p, a, b)
  PROVE  \E u \in Int : a = b + p * u
<1>1. /\ a = p * (a \div p) + (a % p) /\ a \div p \in Int
      /\ b = p * (b \div p) + (b % p) /\ b \div p \in Int
      /\ a % p \in Int /\ a % p = b % p
  BY DEF Same
<1>2. a = b + p * ((a \div p) - (b \div p))
  <2> DEFINE q == a \div p
             o == b \div p
             k == a % p
  <2>1. a = p * q + k /\ b = p * o + k /\ q \in Int /\ o \in Int /\ k \in Int
    BY <1>1
  <2> HIDE DEF q, o, k
  <2>2. a = b + p * (q - o)
    BY <2>1
  <2> QED  BY <2>2 DEF q, o
<1> DEFINE w == (a \div p) - (b \div p)
<1>3. w \in Int /\ a = b + p * w
  BY <1>1, <1>2
<1> HIDE DEF w
<1> QED  BY <1>3

(* sums and products follow the remainders                                 *)
LEMMA CongAdd ==
  ASSUME NEW p \in Nat \ {0}, NEW a \in Nat, NEW b \in Nat, NEW c \in Nat, NEW d \in Nat,
         Same(p, a, c), Same(p, b, d)
  PROVE  Same(p, a + b, c + d)
<1>1. PICK u \in Int : a = c + p * u
  BY SameRemainder
<1>2. PICK v \in Int : b = d + p * v
  BY SameRemainder
<1>3. a + b = (c + d) + p * (u + v)
  BY <1>1, <1>2
<1>4. u + v \in Int /\ c + d \in Int
  BY <1>1, <1>2
<1> QED  BY <1>3, <1>4, Multiple

(* Products of congruent numbers are congruent.                            *)
LEMMA CongMul ==
  ASSUME NEW p \in Nat \ {0}, NEW a \in Nat, NEW b \in Nat, NEW c \in Nat, NEW d \in Nat,
         Same(p, a, c), Same(p, b, d)
  PROVE  Same(p, a * b, c * d)
<1>1. PICK u \in Int : a = c + p * u
  BY SameRemainder
<1>2. PICK v \in Int : b = d + p * v
  BY SameRemainder
<1>3. a * b = c * d + p * (c * v + d * u + p * u * v)
  BY <1>1, <1>2
<1>4. (c * v + d * u + p * u * v) \in Int /\ c * d \in Int
  BY <1>1, <1>2
<1> QED  BY <1>3, <1>4, Multiple

(* a remainder is a field element and its own remainder                    *)
LEMMA Remainder ==
  ASSUME NEW a \in Nat
  PROVE  a % P \in 0 .. P - 1 /\ (a % P) % P = a % P
<1>1. ASSUME NEW p \in Nat \ {0} PROVE a % p \in 0 .. p - 1
  OBVIOUS
<1>2. ASSUME NEW p \in Nat \ {0}, NEW k \in 0 .. p - 1 PROVE k % p = k
  OBVIOUS
<1> QED  BY <1>1, <1>2, SizesAssumption

(* The generated S-box, which never reduces its input, is the fifth power. *)
LEMMA Pow5Matches ==
  ASSUME NEW a \in Nat, NEW b \in Nat, a % P = b % P
  PROVE  Pow5(a) % P = FifthPower(b) % P /\ Pow5(a) \in Nat
<1>0. P \in Nat \ {0}
  BY SizesAssumption
<1>1. ASSUME NEW u \in Nat, NEW v \in Nat, NEW w \in Nat, NEW z \in Nat,
             u % P = w % P, v % P = z % P
      PROVE  mulmod(u, v) \in Nat /\ mulmod(u, v) % P = (w * z) % P
  <2>1. u * v \in Nat
    OBVIOUS
  <2>2. (u * v) % P = (w * z) % P
    <3>1. Same(P, u, w) /\ Same(P, v, z)
      BY <1>1 DEF Same
    <3>2. Same(P, u * v, w * z)
      BY <1>0, <3>1, CongMul, Zenon
    <3> QED  BY <3>2 DEF Same
  <2>3. mulmod(u, v) \in Nat /\ mulmod(u, v) % P = (u * v) % P
    BY <2>1, Remainder, MulmodInField DEF mulmod
  <2> QED  BY <2>2, <2>3
<1> DEFINE a2 == mulmod(a, a)
           a4 == mulmod(a2, a2)
<1>2. a2 \in Nat /\ a2 % P = (b * b) % P
  BY <1>1
<1>3. a4 \in Nat /\ a4 % P = ((b * b) * (b * b)) % P
  <2> HIDE DEF a2
  <2>1. b * b \in Nat
    OBVIOUS
  <2> QED  BY <1>1, <1>2, <2>1
<1>4. mulmod(a4, a) \in Nat /\ mulmod(a4, a) % P = (((b * b) * (b * b)) * b) % P
  <2> HIDE DEF a4
  <2>1. (b * b) * (b * b) \in Nat
    OBVIOUS
  <2> QED  BY <1>1, <1>3, <2>1
<1>5. ((b * b) * (b * b)) * b = b * b * b * b * b /\ b * b * b * b * b \in Nat
  OBVIOUS
<1> QED  BY <1>4, <1>5, Remainder DEF Pow5, FifthPower

-----------------------------------------------------------------------------
(* The reference, round by round *)

Entered(input) == [i \in Lanes |-> IF i = 0 THEN 0 ELSE input[i] % P]

(* h holds the states before each of the first m rounds *)
Table(h, m, input) ==
  h = [k \in 0 .. m |-> IF k = 0 THEN Entered(input) ELSE ReferenceRound(h[k - 1], k - 1)]

(* There is a table of the reference's states, round by round.             *)
LEMMA TableExists ==
  ASSUME NEW input
  PROVE  \E h : Table(h, Rounds, input)
<1> DEFINE B == {m \in 0 .. Rounds : ~ \E h : Table(h, m, input)}
<1>0. Rounds \in Nat
  BY SizesAssumption DEF Rounds
<1>1. ASSUME NEW m \in B, m = 0 \/ m - 1 \notin B PROVE FALSE
  <2>1. m # 0
    <3> DEFINE h == [k \in 0 .. 0 |-> Entered(input)]
    <3>1. Table(h, 0, input)
      BY DEF Table
    <3> QED  BY <3>1
  <2>2. m - 1 \in 0 .. Rounds
    BY <1>0, <2>1
  <2>3. PICK g : Table(g, m - 1, input)
    BY <1>1, <2>1, <2>2
  <2> DEFINE h == [k \in 0 .. m |-> IF k = m THEN ReferenceRound(g[m - 1], m - 1) ELSE g[k]]
  <2>4. ASSUME NEW k \in 0 .. m
        PROVE  h[k] = IF k = 0 THEN Entered(input) ELSE ReferenceRound(h[k - 1], k - 1)
    <3>1. CASE k = m
      <4>1. h[k - 1] = g[m - 1]
        BY <2>1, <3>1
      <4> QED  BY <2>1, <3>1, <4>1
    <3>2. CASE k # m
      <4>1. k \in 0 .. m - 1 /\ h[k] = g[k]
        BY <3>2
      <4>2. g[k] = IF k = 0 THEN Entered(input) ELSE ReferenceRound(g[k - 1], k - 1)
        BY <2>3, <4>1 DEF Table
      <4>3. k # 0 => h[k - 1] = g[k - 1]
        BY <4>1
      <4> QED  BY <4>1, <4>2, <4>3
    <3> QED  BY <3>1, <3>2
  <2>5. Table(h, m, input)
    BY <2>4 DEF Table
  <2> QED  BY <2>5
<1>2. B = {}
  <2>1. B \in SUBSET (0 .. Rounds)
    OBVIOUS
  <2> HIDE DEF B
  <2> QED  BY <1>0, <1>1, <2>1, SmallestIndex
<1> QED  BY <1>0, <1>2

(* Reference is that table: its first entry, and each next one.            *)
LEMMA ReferenceRounds ==
  ASSUME NEW input
  PROVE  /\ Reference(input)[0] = Entered(input)
         /\ \A k \in 0 .. Rounds - 1 :
              Reference(input)[k + 1] = ReferenceRound(Reference(input)[k], k)
<1>1. Reference(input) = CHOOSE h : Table(h, Rounds, input)
  BY DEF Reference, Table, Entered
<1>2. Table(Reference(input), Rounds, input)
  BY <1>1, TableExists, Zenon
<1>3. Rounds \in Nat
  BY SizesAssumption DEF Rounds
<1>4. ASSUME NEW k \in 0 .. Rounds
      PROVE  Reference(input)[k] = IF k = 0 THEN Entered(input)
                                   ELSE ReferenceRound(Reference(input)[k - 1], k - 1)
  BY <1>2, Zenon DEF Table
<1>5. ASSUME NEW k \in 0 .. Rounds - 1
      PROVE  Reference(input)[k + 1] = ReferenceRound(Reference(input)[k], k)
  <2>1. k + 1 \in 0 .. Rounds /\ k + 1 # 0 /\ (k + 1) - 1 = k
    BY <1>3
  <2> QED  BY <1>4, <2>1
<1> QED  BY <1>3, <1>4, <1>5

-----------------------------------------------------------------------------
(* The generated code against the reference *)

Elements == [Lanes -> 0 .. P - 1]

(* the reference's state before the round, and within it *)
Entering == Reference(x)[r]
Added == AddConstants(Entering, r)
Substituted == SubWords(Added, r)

Products(state, i) == [l \in Lanes |-> M[i][l] * state[l]]

(* What the words are at each statement, up to multiples of P: after the   *)
(* constants, after the S-boxes, and with j terms summed.                  *)
Matches ==
  /\ Entering \in Elements
  /\ pc = "ark" => \A i \in Lanes : Same(P, s[i], Entering[i])
  /\ pc = "sbox" => \A i \in Lanes : Same(P, s[i], Added[i])
  /\ pc = "mix" =>
       \A i \in Lanes :
         /\ Same(P, s[i], Substituted[i])
         /\ Same(P, n[i], SumOver(Products(Substituted, i), 0 .. j - 1))
  /\ pc = "done" => out = Reference(x)[Rounds][0]

(* What the assumptions say of the sizes.                                  *)
LEMMA Sizes ==
  /\ P \in Nat \ {0} /\ T \in Nat \ {0} /\ Rounds \in Nat
  /\ Lanes \subseteq Nat /\ 0 \in Lanes /\ IsFiniteSet(Lanes)
<1>1. P \in Nat \ {0} /\ T \in Nat \ {0} /\ Rounds \in Nat
  BY SizesAssumption DEF Rounds
<1>2. IsFiniteSet(0 .. T - 1)
  BY <1>1, FS_Interval, 0 \in Int, T - 1 \in Int
<1> QED  BY <1>1, <1>2 DEF Lanes

(* A number is congruent to its remainder.                                 *)
LEMMA SameAsRemainder == ASSUME NEW a \in Nat PROVE Same(P, a, a % P)
BY Remainder DEF Same

(* Adding constants and taking powers, field elements stay field elements. *)
LEMMA AddedElements ==
  ASSUME NEW state \in Elements, NEW k \in 0 .. Rounds - 1
  PROVE  /\ AddConstants(state, k) \in Elements
         /\ SubWords(AddConstants(state, k), k) \in Elements
<1>1. ASSUME NEW i \in Lanes PROVE (state[i] + C[k * T + i]) % P \in 0 .. P - 1
  <2>1. state[i] \in Nat /\ C[k * T + i] \in Nat
    BY ConstantInField, Sizes DEF Elements
  <2>2. state[i] + C[k * T + i] \in Nat
    BY <2>1
  <2> QED  BY <2>2, Remainder
<1>2. AddConstants(state, k) \in Elements
  BY <1>1 DEF AddConstants, Elements
<1>3. ASSUME NEW a \in 0 .. P - 1 PROVE FifthPower(a) \in 0 .. P - 1
  <2>1. a * a * a * a * a \in Nat
    OBVIOUS
  <2> QED  BY <2>1, Remainder DEF FifthPower
<1>4. ASSUME NEW v \in Elements PROVE SubWords(v, k) \in Elements
  <2>1. \A i \in Lanes : v[i] \in 0 .. P - 1 /\ FifthPower(v[i]) \in 0 .. P - 1
    BY <1>3 DEF Elements
  <2> QED  BY <2>1 DEF SubWords, Elements
<1> QED  BY <1>2, <1>4

(* The products of a row of the matrix with a state are naturals.          *)
LEMMA ProductsNat ==
  ASSUME NEW state \in Elements, NEW i \in Lanes
  PROVE  /\ \A l \in Lanes : Products(state, i)[l] = M[i][l] * state[l]
         /\ \A l \in Lanes : M[i][l] \in Nat /\ state[l] \in Nat
         /\ \A l \in Lanes : Products(state, i)[l] \in Nat
<1>1. M[i] \in [Lanes -> 0 .. P - 1]
  BY ConstantsAssumption
<1>2. ASSUME NEW l \in Lanes PROVE M[i][l] \in Nat /\ state[l] \in Nat
  BY <1>1 DEF Elements
<1>3. ASSUME NEW l \in Lanes PROVE Products(state, i)[l] = M[i][l] * state[l]
  BY DEF Products
<1>4. ASSUME NEW l \in Lanes PROVE M[i][l] * state[l] \in Nat
  BY <1>2
<1> QED  BY <1>2, <1>3, <1>4

(* At the start the lanes are the reference's.                             *)
LEMMA MatchesInit == Init => Matches
<1> SUFFICES ASSUME Init PROVE Matches
  OBVIOUS
<1>1. r = 0 /\ pc = "ark" /\ s = [i \in Lanes |-> IF i = 0 THEN 0 ELSE x[i] % P]
  BY DEF Init, Entry
<1>2. Entering = [i \in Lanes |-> IF i = 0 THEN 0 ELSE x[i] % P]
  BY <1>1, ReferenceRounds DEF Entering, Entered
<1>3. \A i \in Lanes : (IF i = 0 THEN 0 ELSE x[i] % P) \in 0 .. P - 1
  <2> SUFFICES ASSUME NEW i \in Lanes, i # 0 PROVE x[i] % P \in 0 .. P - 1
    BY Sizes
  <2>1. i \in 1 .. T - 1
    BY Sizes DEF Lanes
  <2>2. x[i] \in Inputs
    BY <2>1 DEF Init
  <2>3. x[i] \in Nat
    <3>1. x[i] \in 0 .. Word - 1
      BY <2>2, InputsAssumption
    <3> QED  BY <3>1, SizesAssumption
  <2> QED  BY <2>3, Remainder
<1>4. Entering \in Elements
  BY <1>2, <1>3 DEF Elements
<1>5. s = Entering
  BY <1>1, <1>2
<1> QED  BY <1>1, <1>4, <1>5 DEF Matches, Same

(* Adding the constants keeps the lanes congruent to the reference's       *)
(* state.                                                                  *)
LEMMA ArkMatches ==
  ASSUME Bounded, Matches, Ark
  PROVE  Matches'
<1>1. /\ pc = "ark" /\ r \in 0 .. Rounds - 1 /\ x' = x /\ r' = r /\ pc' = "sbox"
      /\ s' = [i \in Lanes |-> add(s[i], C[r * T + i])]
  BY Sizes DEF Ark, Bounded, Typed
<1>2. Entering' = Entering /\ Added' = Added
  BY <1>1 DEF Entering, Added
<1>3. Entering \in Elements
  BY DEF Matches
<1>4. ASSUME NEW i \in Lanes PROVE Same(P, s'[i], Added[i])
  <2> DEFINE c == C[r * T + i]
             e == Entering[i]
  <2>1. c \in 0 .. P - 1 /\ c \in Nat /\ e \in Nat /\ s[i] \in Nat /\ s[i] <= T * (P - 1)
    BY <1>1, <1>3, ConstantInField, Sizes DEF Elements, Bounded, Typed, LanesBounded
  <2>2. s'[i] = add(s[i], c) /\ Added[i] = (e + c) % P
    BY <1>1 DEF Added, AddConstants
  <2>3. Same(P, s[i], e)
    BY <1>1 DEF Matches
  <2> HIDE DEF c, e
  <2>4. T \in 0 .. T
    BY Sizes
  <2>5. add(s[i], c) = s[i] + c
    BY <2>1, <2>4, SumFits
  <2>6. Same(P, s[i] + c, e + c)
    <3>1. Same(P, c, c)
      BY DEF Same
    <3> QED  BY <2>1, <2>3, <3>1, Sizes, CongAdd, Zenon
  <2>7. e + c \in Nat
    BY <2>1
  <2>8. Same(P, e + c, (e + c) % P)
    BY <2>7, SameAsRemainder
  <2> QED  BY <2>2, <2>5, <2>6, <2>8 DEF Same
<1> QED  BY <1>1, <1>2, <1>3, <1>4 DEF Matches

(* So do the powers.                                                       *)
LEMMA SboxMatches ==
  ASSUME Bounded, Matches, Sbox
  PROVE  Matches'
<1>1. /\ pc = "sbox" /\ r \in 0 .. Rounds - 1 /\ x' = x /\ r' = r /\ pc' = "mix"
      /\ s' = [i \in Lanes |-> IF ThroughSbox(i) THEN Pow5(s[i]) ELSE s[i]]
      /\ n' = [i \in Lanes |-> 0] /\ j' = 0
  BY Sizes DEF Sbox, Bounded, Typed
<1>2. Entering' = Entering /\ Substituted' = Substituted
  BY <1>1 DEF Entering, Added, Substituted
<1>3. Entering \in Elements /\ Added \in Elements
  BY <1>1, AddedElements DEF Matches, Added
<1>4. ASSUME NEW i \in Lanes PROVE Same(P, s'[i], Substituted[i])
  <2>1. s[i] \in Nat /\ Added[i] \in Nat /\ Same(P, s[i], Added[i])
    BY <1>1, <1>3 DEF Elements, Bounded, Typed, Matches
  <2>2. ThroughSbox(i) <=> i = 0 \/ r < RF \div 2 \/ r >= RF \div 2 + RP
    BY <1>1, Sizes, SizesAssumption DEF ThroughSbox, FullRound
  <2>3. Substituted[i] = IF ThroughSbox(i) THEN FifthPower(Added[i]) ELSE Added[i]
    BY <2>2 DEF Substituted, SubWords
  <2>4. s'[i] = IF ThroughSbox(i) THEN Pow5(s[i]) ELSE s[i]
    BY <1>1
  <2>5. Same(P, Pow5(s[i]), FifthPower(Added[i]))
    BY <2>1, Pow5Matches DEF Same
  <2> QED  BY <2>1, <2>3, <2>4, <2>5
<1>5. ASSUME NEW i \in Lanes
      PROVE  Same(P, n'[i], SumOver(Products(Substituted, i), 0 .. j' - 1))
  <2>1. 0 .. j' - 1 = {} /\ n'[i] = 0
    BY <1>1
  <2>2. SumOver(Products(Substituted, i), {}) = 0
    BY SumEmpty
  <2> QED  BY <2>1, <2>2 DEF Same
<1> QED  BY <1>1, <1>2, <1>3, <1>4, <1>5 DEF Matches, Products

(* So does a term of the matrix product, with the terms still to come.     *)
LEMMA MixTermMatches ==
  ASSUME Bounded, Matches, MixTerm
  PROVE  Matches'
<1>1. /\ pc = "mix" /\ r \in 0 .. Rounds - 1 /\ x' = x /\ r' = r /\ pc' = "mix" /\ s' = s
      /\ n' = [i \in Lanes |-> add(n[i], mulmod(M[i][j], s[j]))]
      /\ j' = j + 1 /\ j \in Lanes /\ j \in 0 .. T /\ j < T
  BY Sizes DEF MixTerm, Bounded, Typed, Lanes
<1>2. Entering' = Entering /\ Substituted' = Substituted
  BY <1>1 DEF Entering, Added, Substituted
<1>3. Entering \in Elements /\ Substituted \in Elements
  BY <1>1, AddedElements DEF Matches, Added, Substituted
<1>4. ASSUME NEW i \in Lanes
      PROVE  Same(P, n'[i], SumOver(Products(Substituted, i), 0 .. j' - 1))
  <2> DEFINE f == Products(Substituted, i)
             t == mulmod(M[i][j], s[j])
             b == SumOver(f, 0 .. j - 1)
  <2>1. \A l \in Lanes : f[l] \in Nat
    BY <1>3, ProductsNat
  <2>2. f[j] = M[i][j] * Substituted[j] /\ M[i][j] \in Nat /\ Substituted[j] \in Nat
    BY <1>1, <1>3, ProductsNat
  <2>3. s[j] \in Nat /\ n[i] \in Nat /\ n[i] <= j * (P - 1) /\ t \in Nat /\ t \in 0 .. P - 1
    BY <1>1, TermInField DEF Bounded, Typed, LanesBounded
  <2>4. Same(P, s[j], Substituted[j]) /\ Same(P, n[i], b)
    BY <1>1 DEF Matches
  <2>5. Same(P, t, f[j])
    <3>1. Same(P, M[i][j], M[i][j])
      BY DEF Same
    <3>2. Same(P, M[i][j] * s[j], M[i][j] * Substituted[j])
      BY <2>2, <2>3, <2>4, <3>1, Sizes, CongMul, Zenon
    <3>3. M[i][j] * s[j] \in Nat
      BY <2>2, <2>3
    <3>4. Same(P, M[i][j] * s[j], t)
      BY <3>3, SameAsRemainder DEF mulmod
    <3> QED  BY <2>2, <3>2, <3>4 DEF Same
  <2>6. SumOver(f, 0 .. j) = f[j] + b /\ b \in Nat
    <3> HIDE DEF f
    <3>1. 0 .. j - 1 \subseteq Lanes /\ (0 .. j - 1) \cup {j} = 0 .. j /\ j \notin 0 .. j - 1
      BY <1>1, Sizes DEF Lanes
    <3>2. IsFiniteSet(0 .. j - 1)
      BY <3>1, Sizes, FS_Subset
    <3>3. \A l \in (0 .. j - 1) \cup {j} : f[l] \in Int
      BY <1>1, <2>1, <3>1
    <3>4. SumOver(f, (0 .. j - 1) \cup {j}) = f[j] + b
      BY <3>1, <3>2, <3>3, SumAdd
    <3>5. \A l \in 0 .. j - 1 : f[l] \in Nat
      BY <2>1, <3>1
    <3>6. b \in Nat
      BY <3>2, <3>5, SumNat
    <3> QED  BY <3>1, <3>4, <3>6
  <2>7. n'[i] = add(n[i], t) /\ j' - 1 = j
    BY <1>1, Sizes
  <2>8. f[j] \in Nat
    BY <1>1, <2>1
  <2> HIDE DEF f, t, b
  <2>9. add(n[i], t) = n[i] + t
    BY <1>1, <2>3, SumFits
  <2>10. Same(P, n[i] + t, b + f[j])
    BY <2>3, <2>4, <2>5, <2>6, <2>8, Sizes, CongAdd, Zenon
  <2>11. b + f[j] = f[j] + b
    BY <2>6, <2>8
  <2> QED  BY <2>6, <2>7, <2>9, <2>10, <2>11 DEF f
<1> QED  BY <1>1, <1>2, <1>3, <1>4 DEF Matches, Products

(* A finished round is the reference's next state.                         *)
LEMMA NextRoundMatches ==
  ASSUME Bounded, Matches, NextRound
  PROVE  Matches'
<1>1. /\ pc = "mix" /\ r \in 0 .. Rounds - 1 /\ x' = x /\ r' = r + 1 /\ pc' = "ark" /\ s' = n
      /\ j = T
  BY Sizes DEF NextRound, Bounded, Typed
<1>2. Entering \in Elements /\ Substituted \in Elements
  BY <1>1, AddedElements DEF Matches, Added, Substituted
<1>3. Entering' = MixLayer(Substituted)
  <2>1. Entering' = Reference(x)[r + 1]
    BY <1>1 DEF Entering
  <2> QED  BY <1>1, <2>1, ReferenceRounds DEF ReferenceRound, Substituted, Added, Entering
<1>4. ASSUME NEW i \in Lanes
      PROVE  /\ Entering'[i] \in 0 .. P - 1
             /\ Same(P, s'[i], Entering'[i])
  <2> DEFINE b == SumOver(Products(Substituted, i), Lanes)
  <2>1. Entering'[i] = b % P
    BY <1>3 DEF MixLayer, Products
  <2>2. b \in Nat
    BY <1>2, ProductsNat, SumNat, Sizes
  <2>3. Same(P, n[i], b)
    BY <1>1 DEF Matches, Lanes
  <2> HIDE DEF b
  <2>4. Same(P, b, b % P) /\ b % P \in 0 .. P - 1
    BY <2>2, SameAsRemainder, Remainder
  <2> QED  BY <1>1, <2>1, <2>3, <2>4 DEF Same
<1>5. Entering' \in Elements
  BY <1>3, <1>4 DEF MixLayer, Elements
<1> QED  BY <1>1, <1>4, <1>5 DEF Matches

(* Between rounds the remainders of the lanes are the reference's state.   *)
LEMMA Settled ==
  ASSUME Matches, pc = "ark", s \in [Lanes -> Nat], NEW i \in Lanes
  PROVE  s[i] % P = Entering[i]
<1>1. Entering[i] \in 0 .. P - 1 /\ Same(P, s[i], Entering[i])
  BY DEF Matches, Elements
<1>2. Entering[i] % P = Entering[i]
  <2>1. ASSUME NEW p \in Nat \ {0}, NEW k \in 0 .. p - 1 PROVE k % p = k
    OBVIOUS
  <2> QED  BY <1>1, <2>1, Sizes
<1> QED  BY <1>1, <1>2 DEF Same

(* Every statement keeps the agreement.                                    *)
LEMMA MatchesNext == Bounded /\ Matches /\ [Next]_vars => Matches'
<1> SUFFICES ASSUME Bounded, Matches, [Next]_vars PROVE Matches'
  OBVIOUS
<1>1. CASE Output
  <2>1. pc = "ark" /\ r = Rounds /\ out' = s[0] % P /\ pc' = "done" /\ x' = x /\ r' = r
    BY <1>1 DEF Output
  <2>2. out' = Entering[0]
    BY <2>1, Settled, Sizes DEF Bounded, Typed
  <2> QED  BY <2>1, <2>2 DEF Matches, Entering
<1>2. CASE UNCHANGED vars
  BY <1>2 DEF vars, Matches, Entering, Added, Substituted
<1> QED
  BY <1>1, <1>2, ArkMatches, SboxMatches, MixTermMatches, NextRoundMatches DEF Next

(* The generated Solidity, which adds without reducing, computes round by  *)
(* round and in the end the hash that the wallet and the circuit's         *)
(* reference compute, for inputs that are no field elements as well.       *)
THEOREM GeneratedIsReference == Spec => []MatchesReference
<1>1. Bounded /\ Matches => MatchesReference
  <2> SUFFICES ASSUME Bounded, Matches, pc = "ark"
               PROVE  [i \in Lanes |-> s[i] % P] = Reference(x)[r]
    BY DEF MatchesReference, Matches
  <2>1. \A i \in Lanes : s[i] % P = Entering[i]
    BY Settled DEF Bounded, Typed
  <2>2. Entering = [i \in Lanes |-> Entering[i]]
    BY DEF Matches, Elements
  <2> QED  BY <2>1, <2>2 DEF Entering
<1>2. Init => Bounded /\ Matches
  BY BoundedInit, MatchesInit
<1>3. Bounded /\ Matches /\ [Next]_vars => (Bounded /\ Matches)'
  BY BoundedNext, MatchesNext
<1> QED
  BY <1>1, <1>2, <1>3, PTL DEF Spec


=============================================================================
