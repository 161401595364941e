------------------------------ MODULE Poseidon ------------------------------
(***************************************************************************)
(* The Poseidon hash twice: as reference/poseidon_bn254.py computes it in  *)
(* the field, and as the Solidity that reference/gen_poseidon_sol.py       *)
(* writes, which works on machine words and reduces as late as it can.     *)
(* Between two S-boxes a lane carries a value of up to T*P, and add wraps  *)
(* at the word; mulmod does not.  A step is a statement of the generated   *)
(* loop, taken for all lanes at once because none reads another's result.  *)
(***************************************************************************)
EXTENDS Sums

CONSTANTS
  P,         (* the field's prime                                          *)
  Word,      (* 2^256                                                      *)
  T,         (* lanes, the inputs and one                                  *)
  RF, RP,    (* full and partial rounds                                    *)
  C,         (* round constants, T per round                               *)
  M,         (* the mix matrix                                             *)
  Inputs     (* the words callers may pass, reduced or not                 *)

Lanes == 0 .. T - 1
Rounds == RF + RP

ASSUME SizesAssumption ==
  /\ P \in Nat \ {0} /\ T \in Nat \ {0} /\ RF \in Nat /\ RP \in Nat
  /\ Word \in Nat /\ (T + 1) * P <= Word
ASSUME ConstantsAssumption ==
  /\ C \in [0 .. Rounds * T - 1 -> 0 .. P - 1]
  /\ M \in [Lanes -> [Lanes -> 0 .. P - 1]]
ASSUME InputsAssumption == Inputs \subseteq 0 .. Word - 1

VARIABLES
  x,     (* the inputs                                                     *)
  r,     (* the round                                                      *)
  pc,    (* the statement: "ark", "sbox", "mix" or "done"                  *)
  s, n,  (* the lanes, and the sums that become the next ones              *)
  j,     (* terms in those sums                                            *)
  out

vars == <<x, r, pc, s, n, j, out>>

FullRound(k) == k < RF \div 2 \/ k > RF \div 2 + RP - 1

-----------------------------------------------------------------------------
(* poseidon() of poseidon_bn254.py *)

AddConstants(state, k) == [i \in Lanes |-> (state[i] + C[k * T + i]) % P]

(* pow(x, 5, P) *)
FifthPower(a) == (a * a * a * a * a) % P

SubWords(state, k) ==
  [i \in Lanes |-> IF i = 0 \/ k < RF \div 2 \/ k >= RF \div 2 + RP
                   THEN FifthPower(state[i]) ELSE state[i]]

MixLayer(state) ==
  [i \in Lanes |-> SumOver([l \in Lanes |-> M[i][l] * state[l]], Lanes) % P]

ReferenceRound(state, k) == MixLayer(SubWords(AddConstants(state, k), k))

Reference(input) ==
  LET after[k \in 0 .. Rounds] ==
        IF k = 0 THEN [i \in Lanes |-> IF i = 0 THEN 0 ELSE input[i] % P]
                 ELSE ReferenceRound(after[k - 1], k - 1)
  IN  after

-----------------------------------------------------------------------------
(* hashN of the generated library *)

mulmod(a, b) == (a * b) % P
add(a, b) == (a + b) % Word

(* for the mutation runs: the inputs taken as they come *)
EntryUnreduced(a) == a

Entry(a) == a % P

Pow5(a) == LET n0 == mulmod(a, a) IN mulmod(mulmod(n0, n0), a)

Init ==
  /\ x \in [1 .. T - 1 -> Inputs]
  /\ s = [i \in Lanes |-> IF i = 0 THEN 0 ELSE Entry(x[i])]
  /\ r = 0 /\ pc = "ark" /\ j = 0 /\ out = 0
  /\ n = [i \in Lanes |-> 0]

Ark ==
  /\ pc = "ark" /\ r < Rounds
  /\ s' = [i \in Lanes |-> add(s[i], C[r * T + i])]
  /\ pc' = "sbox"
  /\ UNCHANGED <<x, r, n, j, out>>

(* for the mutation runs: the last partial round taken for a full one *)
ThroughSboxLate(i) == i = 0 \/ FullRound(r + 1)

ThroughSbox(i) == i = 0 \/ FullRound(r)

Sbox ==
  /\ pc = "sbox"
  /\ s' = [i \in Lanes |-> IF ThroughSbox(i) THEN Pow5(s[i]) ELSE s[i]]
  /\ n' = [i \in Lanes |-> 0] /\ j' = 0
  /\ pc' = "mix"
  /\ UNCHANGED <<x, r, out>>

MixTerm ==
  /\ pc = "mix" /\ j < T
  /\ n' = [i \in Lanes |-> add(n[i], mulmod(M[i][j], s[j]))]
  /\ j' = j + 1
  /\ UNCHANGED <<x, r, pc, s, out>>

NextRound ==
  /\ pc = "mix" /\ j = T
  /\ s' = n /\ r' = r + 1
  /\ pc' = "ark"
  /\ UNCHANGED <<x, n, j, out>>

Output ==
  /\ pc = "ark" /\ r = Rounds
  /\ out' = s[0] % P
  /\ pc' = "done"
  /\ UNCHANGED <<x, r, s, n, j>>

Next == Ark \/ Sbox \/ MixTerm \/ NextRound \/ Output

Spec == Init /\ [][Next]_vars

-----------------------------------------------------------------------------
(* Properties *)

(* The additions without a reduction never reach the word's end, so that   *)
(* none of them wraps: "(t+1)*P must stay < 2^256".                        *)
SumsFit ==
  \A i \in Lanes :
    /\ pc = "ark" /\ r < Rounds => s[i] + C[r * T + i] < Word
    /\ pc = "mix" /\ j < T => n[i] + mulmod(M[i][j], s[j]) < Word

(* Round by round the words are the field elements of the reference, for   *)
(* inputs that are no field elements as well, and so is the result.        *)
MatchesReference ==
  /\ pc = "ark" => [i \in Lanes |-> s[i] % P] = Reference(x)[r]
  /\ pc = "done" => out = Reference(x)[Rounds][0]

=============================================================================
