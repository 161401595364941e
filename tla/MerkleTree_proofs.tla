------------------------- MODULE MerkleTree_proofs --------------------------
(***************************************************************************)
(* The frontier of the contract and the full tree of the wallet have the   *)
(* same root, for every depth and any commitments.                         *)
(*                                                                         *)
(* The recursive functions of MerkleTree are unfolded to their equations   *)
(* first; what holds at every level is then shown from one level to the    *)
(* next (Upwards).  NodeAt gives a level of the full tree a node at every  *)
(* position, the empty one beyond its end, so that a node is always the    *)
(* pair of the two below it.  Frontier says what the contract's array      *)
(* holds: where the bit of the number of leaves is 1, the last complete    *)
(* node of that level.                                                     *)
(***************************************************************************)
EXTENDS MerkleTree, Sums_proofs, SequenceTheorems

-----------------------------------------------------------------------------
(* What the recursive functions of MerkleTree are *)

(* The depth is a positive number of levels.                               *)
LEMMA Heights == Depth \in Nat \ {0} /\ 0 \in 0 .. Depth /\ Depth \in 0 .. Depth
BY DepthAssumption

PowersTo(h, m) == h = [l \in 0 .. m |-> IF l = 0 THEN 1 ELSE 2 * h[l - 1]]

(* A table of the powers of two exists.                                    *)
LEMMA PowersExist == \E h : PowersTo(h, Depth)
<1> DEFINE B == {m \in 0 .. Depth : \E h : PowersTo(h, m)}
<1>1. 0 \in B
  <2> DEFINE h == [l \in 0 .. 0 |-> 1]
  <2>1. PowersTo(h, 0)
    BY DEF PowersTo
  <2> QED  BY <2>1, Heights
<1>2. ASSUME NEW m \in 0 .. Depth - 1, m \in B PROVE m + 1 \in B
  <2>1. PICK g : PowersTo(g, m)
    BY <1>2
  <2> DEFINE h == [l \in 0 .. m + 1 |-> IF l = m + 1 THEN 2 * g[m] ELSE g[l]]
  <2>2. ASSUME NEW l \in 0 .. m + 1 PROVE h[l] = IF l = 0 THEN 1 ELSE 2 * h[l - 1]
    <3>1. CASE l = m + 1
      <4>1. h[l - 1] = g[m] /\ l # 0
        BY <3>1
      <4> QED  BY <3>1, <4>1
    <3>2. CASE l # m + 1
      <4>1. l \in 0 .. m /\ h[l] = g[l] /\ (l # 0 => h[l - 1] = g[l - 1])
        BY <3>2
      <4>2. g[l] = IF l = 0 THEN 1 ELSE 2 * g[l - 1]
        BY <2>1, <4>1 DEF PowersTo
      <4> QED  BY <4>1, <4>2
    <3> QED  BY <3>1, <3>2
  <2>3. PowersTo(h, m + 1)
    BY <2>2 DEF PowersTo
  <2> QED  BY <2>3, Heights
<1> HIDE DEF B
<1>3. Depth \in B
  BY <1>1, <1>2, Heights, Upwards
<1> QED  BY <1>3 DEF B

(* Pow2 is that table: its first entry, and each next one.                 *)
LEMMA Powers ==
  /\ Pow2[0] = 1
  /\ \A l \in 0 .. Depth - 1 : Pow2[l + 1] = 2 * Pow2[l]
<1>1. PowersTo(Pow2, Depth)
  <2>1. Pow2 = CHOOSE h : PowersTo(h, Depth)
    BY DEF Pow2, PowersTo
  <2> QED  BY <2>1, PowersExist, Zenon
<1>2. ASSUME NEW l \in 0 .. Depth PROVE Pow2[l] = IF l = 0 THEN 1 ELSE 2 * Pow2[l - 1]
  BY <1>1, Zenon DEF PowersTo
<1>3. ASSUME NEW l \in 0 .. Depth - 1 PROVE Pow2[l + 1] = 2 * Pow2[l]
  <2>1. l + 1 \in 0 .. Depth /\ l + 1 # 0 /\ (l + 1) - 1 = l
    BY Heights
  <2> QED  BY <1>2, <2>1
<1> QED  BY <1>2, <1>3, Heights

ShiftsTo(h, m, idx) ==
  h = [l \in 0 .. m |-> IF l = 0 THEN idx ELSE h[l - 1] \div 2]

(* A table of the halvings of an index exists.                             *)
LEMMA ShiftsExist == ASSUME NEW idx PROVE \E h : ShiftsTo(h, Depth, idx)
<1> DEFINE B == {m \in 0 .. Depth : \E h : ShiftsTo(h, m, idx)}
<1>1. 0 \in B
  <2> DEFINE h == [l \in 0 .. 0 |-> idx]
  <2>1. ShiftsTo(h, 0, idx)
    BY DEF ShiftsTo
  <2> QED  BY <2>1, Heights
<1>2. ASSUME NEW m \in 0 .. Depth - 1, m \in B PROVE m + 1 \in B
  <2>1. PICK g : ShiftsTo(g, m, idx)
    BY <1>2
  <2> DEFINE new == g[m] \div 2
             h == [l \in 0 .. m + 1 |-> IF l = m + 1 THEN new ELSE g[l]]
  <2>2. ASSUME NEW l \in 0 .. m + 1
        PROVE  h[l] = IF l = 0 THEN idx ELSE h[l - 1] \div 2
    <3>1. CASE l = m + 1
      <4>1. h[l - 1] = g[m] /\ l # 0
        BY <3>1
      <4> QED  BY <3>1, <4>1
    <3>2. CASE l # m + 1
      <4>1. l \in 0 .. m /\ h[l] = g[l] /\ (l # 0 => h[l - 1] = g[l - 1])
        BY <3>2
      <4>2. g[l] = IF l = 0 THEN idx ELSE g[l - 1] \div 2
        BY <2>1, <4>1 DEF ShiftsTo
      <4> QED  BY <4>1, <4>2
    <3> QED  BY <3>1, <3>2
  <2>3. ShiftsTo(h, m + 1, idx)
    BY <2>2 DEF ShiftsTo
  <2> QED  BY <2>3, Heights
<1> HIDE DEF B
<1>3. Depth \in B
  BY <1>1, <1>2, Heights, Upwards
<1> QED  BY <1>3 DEF B

(* Shifted is that table.                                                  *)
LEMMA Shifts ==
  ASSUME NEW idx
  PROVE  /\ Shifted(idx)[0] = idx
         /\ \A l \in 0 .. Depth - 1 : Shifted(idx)[l + 1] = Shifted(idx)[l] \div 2
<1>1. ShiftsTo(Shifted(idx), Depth, idx)
  <2>1. Shifted(idx) = CHOOSE h : ShiftsTo(h, Depth, idx)
    BY DEF Shifted, ShiftsTo
  <2> QED  BY <2>1, ShiftsExist, Zenon
<1>2. ASSUME NEW l \in 0 .. Depth
      PROVE  Shifted(idx)[l] = IF l = 0 THEN idx ELSE Shifted(idx)[l - 1] \div 2
  BY <1>1, Zenon DEF ShiftsTo
<1>3. ASSUME NEW l \in 0 .. Depth - 1 PROVE Shifted(idx)[l + 1] = Shifted(idx)[l] \div 2
  <2>1. l + 1 \in 0 .. Depth /\ l + 1 # 0 /\ (l + 1) - 1 = l
    BY Heights
  <2> QED  BY <1>2, <2>1
<1> QED  BY <1>2, <1>3, Heights

ZerosTo(h, m) ==
  h = [l \in 0 .. m |-> IF l = 0 THEN Zero ELSE HashPair(h[l - 1], h[l - 1])]

(* A table of the empty nodes exists.                                      *)
LEMMA ZerosExist == \E h : ZerosTo(h, Depth)
<1> DEFINE B == {m \in 0 .. Depth : \E h : ZerosTo(h, m)}
<1>1. 0 \in B
  <2> DEFINE h == [l \in 0 .. 0 |-> Zero]
  <2>1. ZerosTo(h, 0)
    BY DEF ZerosTo
  <2> QED  BY <2>1, Heights
<1>2. ASSUME NEW m \in 0 .. Depth - 1, m \in B PROVE m + 1 \in B
  <2>1. PICK g : ZerosTo(g, m)
    BY <1>2
  <2> DEFINE new == HashPair(g[m], g[m])
             h == [l \in 0 .. m + 1 |-> IF l = m + 1 THEN new ELSE g[l]]
  <2>2. ASSUME NEW l \in 0 .. m + 1
        PROVE  h[l] = IF l = 0 THEN Zero ELSE HashPair(h[l - 1], h[l - 1])
    <3>1. CASE l = m + 1
      <4>1. h[l - 1] = g[m] /\ l # 0
        BY <3>1
      <4> QED  BY <3>1, <4>1
    <3>2. CASE l # m + 1
      <4>1. l \in 0 .. m /\ h[l] = g[l] /\ (l # 0 => h[l - 1] = g[l - 1])
        BY <3>2
      <4>2. g[l] = IF l = 0 THEN Zero ELSE HashPair(g[l - 1], g[l - 1])
        BY <2>1, <4>1 DEF ZerosTo
      <4> QED  BY <4>1, <4>2
    <3> QED  BY <3>1, <3>2
  <2>3. ZerosTo(h, m + 1)
    BY <2>2 DEF ZerosTo
  <2> QED  BY <2>3, Heights
<1> HIDE DEF B
<1>3. Depth \in B
  BY <1>1, <1>2, Heights, Upwards
<1> QED  BY <1>3 DEF B

(* Zeros is that table.                                                    *)
LEMMA ZeroNodes ==
   /\ Zeros[0] = Zero
         /\ \A l \in 0 .. Depth - 1 : Zeros[l + 1] = HashPair(Zeros[l], Zeros[l])
<1>1. ZerosTo(Zeros, Depth)
  <2>1. Zeros = CHOOSE h : ZerosTo(h, Depth)
    BY DEF Zeros, ZerosTo
  <2> QED  BY <2>1, ZerosExist, Zenon
<1>2. ASSUME NEW l \in 0 .. Depth
      PROVE  Zeros[l] = IF l = 0 THEN Zero ELSE HashPair(Zeros[l - 1], Zeros[l - 1])
  BY <1>1, Zenon DEF ZerosTo
<1>3. ASSUME NEW l \in 0 .. Depth - 1 PROVE Zeros[l + 1] = HashPair(Zeros[l], Zeros[l])
  <2>1. l + 1 \in 0 .. Depth /\ l + 1 # 0 /\ (l + 1) - 1 = l
    BY Heights
  <2> QED  BY <1>2, <2>1
<1> QED  BY <1>2, <1>3, Heights

(* the node above one node, and the level above one level *)
Above(node, step) ==
  IF step.bit = 0 THEN HashPair(node, step.node) ELSE HashPair(step.node, node)

LevelOver(below, filler) ==
  [i \in 1 .. (Len(below) + 1) \div 2 |->
     HashPair(below[2 * i - 1], IF 2 * i <= Len(below) THEN below[2 * i] ELSE filler)]

BottomLevel(leaves) == IF leaves = <<>> THEN <<Zero>> ELSE leaves

WalkTo(h, m, leaf, path) ==
  h = [l \in 0 .. m |-> IF l = 0 THEN leaf ELSE Above(h[l - 1], path[l - 1])]

(* A walk up a path exists.                                                *)
LEMMA WalkExists == ASSUME NEW leaf, NEW path PROVE \E h : WalkTo(h, Depth, leaf, path)
<1> DEFINE B == {m \in 0 .. Depth : \E h : WalkTo(h, m, leaf, path)}
<1>1. 0 \in B
  <2> DEFINE h == [l \in 0 .. 0 |-> leaf]
  <2>1. WalkTo(h, 0, leaf, path)
    BY DEF WalkTo
  <2> QED  BY <2>1, Heights
<1>2. ASSUME NEW m \in 0 .. Depth - 1, m \in B PROVE m + 1 \in B
  <2>1. PICK g : WalkTo(g, m, leaf, path)
    BY <1>2
  <2> DEFINE new == Above(g[m], path[m])
             h == [l \in 0 .. m + 1 |-> IF l = m + 1 THEN new ELSE g[l]]
  <2>2. ASSUME NEW l \in 0 .. m + 1
        PROVE  h[l] = IF l = 0 THEN leaf ELSE Above(h[l - 1], path[l - 1])
    <3>1. CASE l = m + 1
      <4>1. h[l - 1] = g[m] /\ l # 0
        BY <3>1
      <4> QED  BY <3>1, <4>1
    <3>2. CASE l # m + 1
      <4>1. l \in 0 .. m /\ h[l] = g[l] /\ (l # 0 => h[l - 1] = g[l - 1])
        BY <3>2
      <4>2. g[l] = IF l = 0 THEN leaf ELSE Above(g[l - 1], path[l - 1])
        BY <2>1, <4>1 DEF WalkTo
      <4> QED  BY <4>1, <4>2
    <3> QED  BY <3>1, <3>2
  <2>3. WalkTo(h, m + 1, leaf, path)
    BY <2>2 DEF WalkTo
  <2> QED  BY <2>3, Heights
<1> HIDE DEF B
<1>3. Depth \in B
  BY <1>1, <1>2, Heights, Upwards
<1> QED  BY <1>3 DEF B

(* HashUp is a walk.                                                       *)
LEMMA WalkIs == ASSUME NEW leaf, NEW path PROVE WalkTo(HashUp(leaf, path), Depth, leaf, path)
<1>1. HashUp(leaf, path) = CHOOSE h : WalkTo(h, Depth, leaf, path)
  BY DEF HashUp, Above, WalkTo
<1> QED  BY <1>1, WalkExists, Zenon

(* Its first node, and each next one.                                      *)
LEMMA Walk ==
  ASSUME NEW leaf, NEW path
  PROVE  /\ HashUp(leaf, path)[0] = leaf
         /\ \A l \in 0 .. Depth - 1 : HashUp(leaf, path)[l + 1] = Above(HashUp(leaf, path)[l], path[l])
<1>1. WalkTo(HashUp(leaf, path), Depth, leaf, path)
  BY WalkIs
<1>2. ASSUME NEW l \in 0 .. Depth
      PROVE  HashUp(leaf, path)[l] = IF l = 0 THEN leaf ELSE Above(HashUp(leaf, path)[l - 1], path[l - 1])
  BY <1>1, Zenon DEF WalkTo
<1>3. ASSUME NEW l \in 0 .. Depth - 1 PROVE HashUp(leaf, path)[l + 1] = Above(HashUp(leaf, path)[l], path[l])
  <2>1. l + 1 \in 0 .. Depth /\ l + 1 # 0 /\ (l + 1) - 1 = l
    BY Heights
  <2> QED  BY <1>2, <2>1
<1> QED  BY <1>2, <1>3, Heights

(* There is one such walk. *)
LEMMA OneWalk ==
  ASSUME NEW leaf, NEW path, NEW h, WalkTo(h, Depth, leaf, path)
  PROVE  h = HashUp(leaf, path)
<1> DEFINE g == HashUp(leaf, path)
           B == {l \in 0 .. Depth : h[l] = g[l]}
<1>1. WalkTo(g, Depth, leaf, path)
  BY WalkIs
<1> HIDE DEF g
<1>2. ASSUME NEW l \in 0 .. Depth
      PROVE  /\ h[l] = IF l = 0 THEN leaf ELSE Above(h[l - 1], path[l - 1])
             /\ g[l] = IF l = 0 THEN leaf ELSE Above(g[l - 1], path[l - 1])
  BY <1>1, Zenon DEF WalkTo
<1>3. 0 \in B
  BY <1>2, Heights
<1>4. ASSUME NEW l \in 0 .. Depth - 1, l \in B PROVE l + 1 \in B
  <2>1. l + 1 \in 0 .. Depth /\ l + 1 # 0 /\ (l + 1) - 1 = l
    BY Heights
  <2> QED  BY <1>2, <1>4, <2>1
<1>5. \A l \in 0 .. Depth : h[l] = g[l]
  <2>1. \A l \in 0 .. Depth : l \in B
    <3> HIDE DEF B
    <3> QED  BY <1>3, <1>4, Heights, Upwards
  <2> QED  BY <2>1
<1>6. h = [l \in 0 .. Depth |-> h[l]] /\ g = [l \in 0 .. Depth |-> g[l]]
  BY <1>1, Zenon DEF WalkTo
<1> QED  BY <1>5, <1>6 DEF g

LevelsTo(h, m, leaves) ==
  h = [l \in 0 .. m |-> IF l = 0 THEN BottomLevel(leaves) ELSE LevelOver(h[l - 1], Zeros[l - 1])]

(* A table of the levels over some leaves exists.                          *)
LEMMA LevelsExist == ASSUME NEW leaves PROVE \E h : LevelsTo(h, Depth, leaves)
<1> DEFINE B == {m \in 0 .. Depth : \E h : LevelsTo(h, m, leaves)}
<1>1. 0 \in B
  <2> DEFINE h == [l \in 0 .. 0 |-> BottomLevel(leaves)]
  <2>1. LevelsTo(h, 0, leaves)
    BY DEF LevelsTo
  <2> QED  BY <2>1, Heights
<1>2. ASSUME NEW m \in 0 .. Depth - 1, m \in B PROVE m + 1 \in B
  <2>1. PICK g : LevelsTo(g, m, leaves)
    BY <1>2
  <2> DEFINE new == LevelOver(g[m], Zeros[m])
             h == [l \in 0 .. m + 1 |-> IF l = m + 1 THEN new ELSE g[l]]
  <2>2. ASSUME NEW l \in 0 .. m + 1
        PROVE  h[l] = IF l = 0 THEN BottomLevel(leaves) ELSE LevelOver(h[l - 1], Zeros[l - 1])
    <3>1. CASE l = m + 1
      <4>1. h[l - 1] = g[m] /\ l # 0
        BY <3>1
      <4> QED  BY <3>1, <4>1
    <3>2. CASE l # m + 1
      <4>1. l \in 0 .. m /\ h[l] = g[l] /\ (l # 0 => h[l - 1] = g[l - 1])
        BY <3>2
      <4>2. g[l] = IF l = 0 THEN BottomLevel(leaves) ELSE LevelOver(g[l - 1], Zeros[l - 1])
        BY <2>1, <4>1 DEF LevelsTo
      <4> QED  BY <4>1, <4>2
    <3> QED  BY <3>1, <3>2
  <2>3. LevelsTo(h, m + 1, leaves)
    BY <2>2 DEF LevelsTo
  <2> QED  BY <2>3, Heights
<1> HIDE DEF B
<1>3. Depth \in B
  BY <1>1, <1>2, Heights, Upwards
<1> QED  BY <1>3 DEF B

(* Levels is that table.                                                   *)
LEMMA LevelByLevel ==
  ASSUME NEW leaves
  PROVE  /\ Levels(leaves)[0] = BottomLevel(leaves)
         /\ \A l \in 0 .. Depth - 1 : Levels(leaves)[l + 1] = LevelOver(Levels(leaves)[l], Zeros[l])
<1>1. LevelsTo(Levels(leaves), Depth, leaves)
  <2>1. Levels(leaves) = CHOOSE h : LevelsTo(h, Depth, leaves)
    BY DEF Levels, LevelOver, BottomLevel, LevelsTo
  <2> QED  BY <2>1, LevelsExist, Zenon
<1>2. ASSUME NEW l \in 0 .. Depth
      PROVE  Levels(leaves)[l] = IF l = 0 THEN BottomLevel(leaves) ELSE LevelOver(Levels(leaves)[l - 1], Zeros[l - 1])
  BY <1>1, Zenon DEF LevelsTo
<1>3. ASSUME NEW l \in 0 .. Depth - 1 PROVE Levels(leaves)[l + 1] = LevelOver(Levels(leaves)[l], Zeros[l])
  <2>1. l + 1 \in 0 .. Depth /\ l + 1 # 0 /\ (l + 1) - 1 = l
    BY Heights
  <2> QED  BY <1>2, <2>1
<1> QED  BY <1>2, <1>3, Heights

-----------------------------------------------------------------------------
(* Indices *)

(* A natural is twice its half and its last bit.                           *)
LEMMA Halves ==
  ASSUME NEW c \in Nat
  PROVE  /\ c \div 2 \in Nat /\ c % 2 \in {0, 1}
         /\ c = 2 * (c \div 2) + (c % 2)
OBVIOUS

(* A halved index is a natural.                                            *)
LEMMA ShiftNat ==
  ASSUME NEW idx \in Nat
  PROVE  \A l \in 0 .. Depth : Shifted(idx)[l] \in Nat
<1> DEFINE B == {l \in 0 .. Depth : Shifted(idx)[l] \in Nat}
<1>1. 0 \in B
  BY Heights, Shifts
<1>2. ASSUME NEW l \in 0 .. Depth - 1, l \in B PROVE l + 1 \in B
  <2>1. Shifted(idx)[l + 1] = Shifted(idx)[l] \div 2 /\ Shifted(idx)[l] \in Nat
    BY <1>2, Shifts
  <2> QED  BY <2>1, Heights
<1>3. \A l \in 0 .. Depth : l \in B
  <2> HIDE DEF B
  <2> QED  BY <1>1, <1>2, Heights, Upwards
<1> QED  BY <1>3

(* the next level of an index, with the bit that is dropped                *)
LEMMA NextShift ==
  ASSUME NEW idx \in Nat, NEW l \in 0 .. Depth - 1
  PROVE  /\ Shifted(idx)[l] \in Nat /\ Shifted(idx)[l + 1] \in Nat
         /\ Bit(idx, l) \in {0, 1}
         /\ Shifted(idx)[l] = 2 * Shifted(idx)[l + 1] + Bit(idx, l)
<1>1. l \in 0 .. Depth /\ l + 1 \in 0 .. Depth
  BY Heights
<1>2. Shifted(idx)[l] \in Nat /\ Shifted(idx)[l + 1] = Shifted(idx)[l] \div 2
  BY <1>1, ShiftNat, Shifts
<1> DEFINE c == Shifted(idx)[l]
<1>3. c \in Nat /\ Shifted(idx)[l + 1] = c \div 2 /\ Bit(idx, l) = c % 2
  BY <1>2 DEF Bit
<1> HIDE DEF c
<1>4. /\ Shifted(idx)[l + 1] \in Nat /\ Bit(idx, l) \in {0, 1}
      /\ c = 2 * Shifted(idx)[l + 1] + Bit(idx, l)
  BY <1>3, Halves
<1> QED  BY <1>3, <1>4 DEF c

(* Powers of two are positive.                                             *)
LEMMA PowersNat == \A l \in 0 .. Depth : Pow2[l] \in Nat \ {0}
<1> DEFINE B == {l \in 0 .. Depth : Pow2[l] \in Nat \ {0}}
<1>1. 0 \in B
  BY Heights, Powers
<1>2. ASSUME NEW l \in 0 .. Depth - 1, l \in B PROVE l + 1 \in B
  <2>1. Pow2[l + 1] = 2 * Pow2[l] /\ Pow2[l] \in Nat \ {0}
    BY <1>2, Powers
  <2> QED  BY <2>1, Heights
<1>3. \A l \in 0 .. Depth : l \in B
  <2> HIDE DEF B
  <2> QED  BY <1>1, <1>2, Heights, Upwards
<1> QED  BY <1>3

(* an index is what is left of it, times the positions under a node there  *)
LEMMA ShiftRange ==
  ASSUME NEW idx \in Nat
  PROVE  \A l \in 0 .. Depth : /\ Shifted(idx)[l] * Pow2[l] <= idx
                               /\ idx < (Shifted(idx)[l] + 1) * Pow2[l]
<1> DEFINE B == {l \in 0 .. Depth : /\ Shifted(idx)[l] * Pow2[l] <= idx
                                    /\ idx < (Shifted(idx)[l] + 1) * Pow2[l]}
<1>1. 0 \in B
  BY Heights, Shifts, Powers
<1>2. ASSUME NEW l \in 0 .. Depth - 1, l \in B PROVE l + 1 \in B
  <2> DEFINE c == Shifted(idx)[l]
             h == Shifted(idx)[l + 1]
             b == Bit(idx, l)
             p == Pow2[l]
  <2>1. c \in Nat /\ h \in Nat /\ b \in {0, 1} /\ c = 2 * h + b
    BY NextShift
  <2>2. p \in Nat \ {0} /\ Pow2[l + 1] = 2 * p
    BY Powers, PowersNat, Heights
  <2>3. c * p <= idx /\ idx < (c + 1) * p
    BY <1>2
  <2> HIDE DEF c, h, b, p
  <2>4. c * p = h * (2 * p) + b * p /\ (c + 1) * p = h * (2 * p) + (b + 1) * p
    BY <2>1, <2>2
  <2>5. b * p >= 0 /\ (b + 1) * p <= 2 * p /\ b * p \in Nat /\ (b + 1) * p \in Nat
    BY <2>1, <2>2
  <2>6. (h + 1) * (2 * p) = h * (2 * p) + 2 * p /\ h * (2 * p) \in Nat
    BY <2>1, <2>2
  <2>7. h * (2 * p) <= idx /\ idx < (h + 1) * (2 * p)
    <3> DEFINE u == h * (2 * p)
               v == b * p
               w == (b + 1) * p
    <3>1. u \in Nat /\ v \in Nat /\ w \in Nat /\ w <= 2 * p /\ u + v <= idx /\ idx < u + w
          /\ (h + 1) * (2 * p) = u + 2 * p
      BY <2>3, <2>4, <2>5, <2>6
    <3> HIDE DEF u, v, w
    <3>2. u <= idx /\ idx < u + 2 * p
      BY <3>1, <2>2
    <3> QED  BY <3>1, <3>2 DEF u
  <2> QED  BY <2>2, <2>7, Heights DEF h
<1>3. \A l \in 0 .. Depth : l \in B
  <2> HIDE DEF B
  <2> QED  BY <1>1, <1>2, Heights, Upwards
<1> QED  BY <1>3

(* The tree has room for something.                                        *)
LEMMA CapacityNat == Capacity \in Nat \ {0}
BY Heights, PowersNat DEF Capacity

(* nothing is left of an index within the tree, and 1 of the full one      *)
LEMMA LastShift ==
  ASSUME NEW idx \in 0 .. Capacity
  PROVE  Shifted(idx)[Depth] = IF idx = Capacity THEN 1 ELSE 0
<1> DEFINE q == Shifted(idx)[Depth]
           c == Capacity
<1>1. q \in Nat /\ c \in Nat \ {0} /\ idx \in 0 .. c
  BY CapacityNat, ShiftNat, Heights
<1>2. q * c <= idx /\ idx < (q + 1) * c
  BY <1>1, ShiftRange, Heights DEF Capacity
<1> HIDE DEF q, c
<1>3. q >= 2 => q * c >= 2 * c
  BY <1>1
<1>4. q >= 1 => q * c >= c
  BY <1>1
<1>5. q = 0 => (q + 1) * c = c
  BY <1>1
<1>6. q * c \in Nat
  BY <1>1
<1>7. q = IF idx = c THEN 1 ELSE 0
  BY <1>1, <1>2, <1>3, <1>4, <1>5, <1>6
<1> QED  BY <1>7 DEF q, c

(* Adding one to an index turns its first 0 bit into a 1 and the bits      *)
(* below it, which are 1, into 0.                                          *)
LEMMA Carry ==
  ASSUME NEW idx \in 0 .. Capacity - 1
  PROVE  /\ FirstZero(idx) \in 0 .. Depth
         /\ Bit(idx, FirstZero(idx)) = 0
         /\ \A k \in 0 .. FirstZero(idx) - 1 : Bit(idx, k) = 1
         /\ \A k \in 0 .. FirstZero(idx) : Shifted(idx + 1)[k] = Shifted(idx)[k] + 1
         /\ \A k \in FirstZero(idx) + 1 .. Depth : Shifted(idx + 1)[k] = Shifted(idx)[k]
<1>0. idx \in Nat /\ idx + 1 \in Nat
  BY CapacityNat
<1> DEFINE Z == {k \in 0 .. Depth : Bit(idx, k) = 0}
           f == FirstZero(idx)
<1>1. \E k \in 0 .. Depth : Bit(idx, k) = 0 /\ \A j \in 0 .. k - 1 : Bit(idx, j) = 1
  <2>1. Shifted(idx)[Depth] = 0
    BY LastShift, CapacityNat
  <2>2. Depth \in Z
    BY <2>1, Heights DEF Bit
  <2> DEFINE Bad == {k \in 0 .. Depth : \A j \in 0 .. k : Bit(idx, j) = 1}
  <2>3. \A k \in 0 .. Depth : Bit(idx, k) \in {0, 1}
    BY <1>0, ShiftNat, Halves DEF Bit
  <2>4. ASSUME \A k \in 0 .. Depth : ~(Bit(idx, k) = 0 /\ \A j \in 0 .. k - 1 : Bit(idx, j) = 1)
        PROVE  FALSE
    <3>1. 0 \in Bad
      BY <2>3, <2>4, Heights
    <3>2. ASSUME NEW k \in 0 .. Depth - 1, k \in Bad PROVE k + 1 \in Bad
      <4>1. k + 1 \in 0 .. Depth /\ \A j \in 0 .. (k + 1) - 1 : Bit(idx, j) = 1
        BY <3>2, Heights
      <4>2. Bit(idx, k + 1) = 1
        BY <4>1, <2>3, <2>4
      <4> QED  BY <4>1, <4>2
    <3>3. Depth \in Bad
      <4> HIDE DEF Bad
      <4> QED  BY <3>1, <3>2, Heights, Upwards
    <3> QED  BY <3>3, <2>2, Heights
  <2> QED  BY <2>4
<1>2. f \in 0 .. Depth /\ Bit(idx, f) = 0 /\ \A k \in 0 .. f - 1 : Bit(idx, k) = 1
  BY <1>1 DEF FirstZero
<1> HIDE DEF f
<1> DEFINE Up == {k \in 0 .. f : Shifted(idx + 1)[k] = Shifted(idx)[k] + 1}
<1>3. 0 \in Up
  BY <1>0, <1>2, Shifts
<1>4. ASSUME NEW k \in 0 .. f - 1, k \in Up PROVE k + 1 \in Up
  <2>1. k \in 0 .. Depth - 1 /\ k + 1 \in 0 .. f
    BY <1>2, Heights
  <2>2. Bit(idx, k) = 1
    BY <1>2
  <2>3. Shifted(idx)[k] = 2 * Shifted(idx)[k + 1] + 1 /\ Shifted(idx)[k + 1] \in Nat
    BY <1>0, <2>1, <2>2, NextShift
  <2>4. /\ Shifted(idx + 1)[k] = 2 * Shifted(idx + 1)[k + 1] + Bit(idx + 1, k)
        /\ Bit(idx + 1, k) \in {0, 1} /\ Shifted(idx + 1)[k + 1] \in Nat
    BY <1>0, <2>1, NextShift
  <2>5. Shifted(idx + 1)[k] = Shifted(idx)[k] + 1
    BY <1>4
  <2>6. Shifted(idx + 1)[k + 1] = Shifted(idx)[k + 1] + 1
    BY <2>3, <2>4, <2>5
  <2> QED  BY <2>1, <2>6
<1>5. \A k \in 0 .. f : k \in Up
  <2> HIDE DEF Up
  <2>1. f \in Nat
    BY <1>2
  <2> QED  BY <1>3, <1>4, <2>1, Upwards
<1> DEFINE Same == {k \in 0 .. Depth : k > f => Shifted(idx + 1)[k] = Shifted(idx)[k]}
<1>6. 0 \in Same
  BY <1>2, Heights
<1>7. ASSUME NEW k \in 0 .. Depth - 1, k \in Same PROVE k + 1 \in Same
  <2> SUFFICES ASSUME k + 1 > f PROVE Shifted(idx + 1)[k + 1] = Shifted(idx)[k + 1]
    BY Heights
  <2>1. /\ Shifted(idx)[k] = 2 * Shifted(idx)[k + 1] + Bit(idx, k)
        /\ Bit(idx, k) \in {0, 1} /\ Shifted(idx)[k + 1] \in Nat
    BY <1>0, NextShift
  <2>2. /\ Shifted(idx + 1)[k] = 2 * Shifted(idx + 1)[k + 1] + Bit(idx + 1, k)
        /\ Bit(idx + 1, k) \in {0, 1} /\ Shifted(idx + 1)[k + 1] \in Nat
    BY <1>0, NextShift
  <2>3. CASE k = f
    <3>1. Shifted(idx + 1)[k] = Shifted(idx)[k] + 1 /\ Bit(idx, k) = 0
      BY <1>2, <1>5, <2>3
    <3> QED  BY <2>1, <2>2, <3>1
  <2>4. CASE k # f
    <3>1. Shifted(idx + 1)[k] = Shifted(idx)[k]
      BY <1>2, <1>7, <2>4
    <3> QED  BY <2>1, <2>2, <3>1
  <2> QED  BY <2>3, <2>4
<1>8. \A k \in 0 .. Depth : k \in Same
  <2> HIDE DEF Same
  <2> QED  BY <1>6, <1>7, Heights, Upwards
<1>9. \A k \in f + 1 .. Depth : Shifted(idx + 1)[k] = Shifted(idx)[k]
  BY <1>2, <1>8
<1> QED  BY <1>2, <1>5, <1>9 DEF f

-----------------------------------------------------------------------------
(* The wallet's levels *)

(* Only where a node is looked up matters of how two nodes become one:     *)
(* HashPair stays folded from here on.                                     *)
LEMMA PairsDiffer ==
  ASSUME NEW a, NEW b, NEW c, NEW d
  PROVE  HashPair(a, b) = HashPair(c, d) <=> a = c /\ b = d
BY DEF HashPair

(* The length of a level, and what its nodes are pairs of.                 *)
LEMMA OverLength ==
  ASSUME NEW below, NEW filler, Len(below) \in Nat
  PROVE  /\ Len(LevelOver(below, filler)) = (Len(below) + 1) \div 2
         /\ Len(LevelOver(below, filler)) \in Nat
         /\ \A i \in 1 .. (Len(below) + 1) \div 2 :
              LevelOver(below, filler)[i] =
                HashPair(below[2 * i - 1],
                         IF 2 * i <= Len(below) THEN below[2 * i] ELSE filler)
<1> DEFINE m == (Len(below) + 1) \div 2
           node(i) == HashPair(below[2 * i - 1],
                               IF 2 * i <= Len(below) THEN below[2 * i] ELSE filler)
           S == {node(i) : i \in 1 .. m}
<1>1. m \in Nat
  OBVIOUS
<1> HIDE DEF m
<1> DEFINE f == [i \in 1 .. m |-> node(i)]
<1>2. f \in [1 .. m -> S]
  OBVIOUS
<1>3. \A i \in 1 .. m : f[i] = node(i)
  OBVIOUS
<1>4. Len(f) = m
  <2> HIDE DEF f, S
  <2>1. f \in Seq(S)
    BY <1>1, <1>2
  <2>2. DOMAIN f = 1 .. m
    BY <1>2
  <2> QED  BY <1>1, <2>1, <2>2
<1>5. LevelOver(below, filler) = f
  BY DEF LevelOver, m
<1> HIDE DEF f
<1>6. Len(LevelOver(below, filler)) = m /\ \A i \in 1 .. m : LevelOver(below, filler)[i] = node(i)
  BY <1>3, <1>4, <1>5
<1> QED  BY <1>1, <1>6 DEF m

(* Half a number, rounded up, against twice another.                       *)
LEMMA HalfWidth ==
  ASSUME NEW w \in Nat \ {0}, NEW c \in Nat, NEW h \in Nat, NEW b \in {0, 1},
         c = 2 * h + b, c <= w, w <= c + 1
  PROVE  LET u == (w + 1) \div 2 IN u \in Nat \ {0} /\ h <= u /\ u <= h + 1
<1>1. (w + 1) \div 2 \in Nat /\ (w + 1) % 2 \in {0, 1}
      /\ w + 1 = 2 * ((w + 1) \div 2) + ((w + 1) % 2)
  BY Halves
<1> QED  BY <1>1

(* A level holds at least the complete nodes of its height and at most one *)
(* more.                                                                   *)
LEMMA Widths ==
  ASSUME NEW S, NEW leaves \in Seq(S)
  PROVE  \A d \in 0 .. Depth :
           /\ Len(Levels(leaves)[d]) \in Nat \ {0}
           /\ Shifted(Len(leaves))[d] <= Len(Levels(leaves)[d])
           /\ Len(Levels(leaves)[d]) <= Shifted(Len(leaves))[d] + 1
<1> DEFINE n == Len(leaves)
           w(d) == Len(Levels(leaves)[d])
           B == {d \in 0 .. Depth : /\ w(d) \in Nat \ {0}
                                    /\ Shifted(n)[d] <= w(d) /\ w(d) <= Shifted(n)[d] + 1}
<1>0. n \in Nat
  OBVIOUS
<1>1. 0 \in B
  <2>1. Levels(leaves)[0] = BottomLevel(leaves) /\ Shifted(n)[0] = n
    BY <1>0, LevelByLevel, Shifts
  <2>2. CASE leaves = <<>>
    <3>1. w(0) = 1 /\ n = 0
      BY <2>1, <2>2 DEF BottomLevel
    <3>2. Shifted(n)[0] = 0
      BY <2>1, <3>1
    <3> HIDE DEF n
    <3>3. /\ w(0) \in Nat \ {0}
          /\ Shifted(n)[0] <= w(0) /\ w(0) <= Shifted(n)[0] + 1
      <4> HIDE DEF w
      <4> QED  BY <3>1, <3>2
    <3> QED  BY <3>3, Heights
  <2>3. CASE leaves # <<>>
    <3>1. w(0) = n /\ n # 0
      BY <2>1, <2>3 DEF BottomLevel
    <3> HIDE DEF n
    <3> QED  BY <1>0, <2>1, <3>1, Heights
  <2> QED  BY <2>2, <2>3
<1> HIDE DEF n
<1>2. ASSUME NEW d \in 0 .. Depth - 1, d \in B PROVE d + 1 \in B
  <2>1. w(d) \in Nat \ {0} /\ Shifted(n)[d] <= w(d) /\ w(d) <= Shifted(n)[d] + 1
    BY <1>2
  <2>2. Levels(leaves)[d + 1] = LevelOver(Levels(leaves)[d], Zeros[d])
    BY LevelByLevel
  <2>3. w(d + 1) = (w(d) + 1) \div 2 /\ w(d + 1) \in Nat
    BY <2>1, <2>2, OverLength
  <2>4. /\ Shifted(n)[d] \in Nat /\ Shifted(n)[d + 1] \in Nat
        /\ Bit(n, d) \in {0, 1}
        /\ Shifted(n)[d] = 2 * Shifted(n)[d + 1] + Bit(n, d)
    BY <1>0, NextShift
  <2> HIDE DEF w
  <2>5. /\ w(d + 1) \in Nat \ {0}
        /\ Shifted(n)[d + 1] <= w(d + 1) /\ w(d + 1) <= Shifted(n)[d + 1] + 1
    BY <2>1, <2>3, <2>4, HalfWidth
  <2> QED  BY <2>5, Heights
<1>3. \A d \in 0 .. Depth : d \in B
  <2> HIDE DEF B
  <2> QED  BY <1>1, <1>2, Heights, Upwards
<1> QED  BY <1>3 DEF n

(* a node of a level and the two below it                                  *)
LEMMA NodeOver ==
  ASSUME NEW S, NEW leaves \in Seq(S), NEW d \in 0 .. Depth - 1,
         NEW i \in 1 .. Len(Levels(leaves)[d + 1])
  PROVE  /\ Levels(leaves)[d + 1][i] =
              HashPair(Levels(leaves)[d][2 * i - 1],
                       IF 2 * i <= Len(Levels(leaves)[d]) THEN Levels(leaves)[d][2 * i]
                                                          ELSE Zeros[d])
         /\ 2 * i - 1 \in 1 .. Len(Levels(leaves)[d])
         /\ Len(Levels(leaves)[d + 1]) = (Len(Levels(leaves)[d]) + 1) \div 2
<1>1. Len(Levels(leaves)[d]) \in Nat \ {0}
  <2>1. d \in 0 .. Depth
    BY Heights
  <2> QED  BY <2>1, Widths
<1>2. Levels(leaves)[d + 1] = LevelOver(Levels(leaves)[d], Zeros[d])
  BY LevelByLevel
<1>3. Len(Levels(leaves)[d + 1]) = (Len(Levels(leaves)[d]) + 1) \div 2
  BY <1>1, <1>2, OverLength
<1>4. i \in 1 .. (Len(Levels(leaves)[d]) + 1) \div 2
  BY <1>3
<1> DEFINE m == Len(Levels(leaves)[d])
<1>5. 2 * i - 1 \in 1 .. m
  <2>1. m \in Nat \ {0} /\ i \in 1 .. (m + 1) \div 2
    BY <1>1, <1>4
  <2> HIDE DEF m
  <2> QED  BY <2>1
<1> QED  BY <1>1, <1>2, <1>3, <1>4, <1>5, OverLength

(* The tree as a map from heights and positions to nodes, empty ones       *)
(* included.                                                               *)
NodeAt(leaves, d, i) ==
  IF i <= Len(Levels(leaves)[d]) THEN Levels(leaves)[d][i] ELSE Zeros[d]

(* A node, the empty ones included, is the pair of the two below it.       *)
LEMMA NodeAtOver ==
  ASSUME NEW S, NEW leaves \in Seq(S), NEW d \in 0 .. Depth - 1, NEW i \in Nat \ {0}
  PROVE  NodeAt(leaves, d + 1, i) = HashPair(NodeAt(leaves, d, 2 * i - 1), NodeAt(leaves, d, 2 * i))
<1> DEFINE w == Len(Levels(leaves)[d])
           u == Len(Levels(leaves)[d + 1])
<1>1. w \in Nat \ {0} /\ u \in Nat \ {0}
  <2>1. d \in 0 .. Depth /\ d + 1 \in 0 .. Depth
    BY Heights
  <2> QED  BY <2>1, Widths
<1>2. u = (w + 1) \div 2
  <2>1. Levels(leaves)[d + 1] = LevelOver(Levels(leaves)[d], Zeros[d])
    BY LevelByLevel
  <2> QED  BY <1>1, <2>1, OverLength
<1>3. CASE i <= u
  <2>1. i \in 1 .. u
    BY <1>1, <1>3
  <2>2. /\ Levels(leaves)[d + 1][i] =
             HashPair(Levels(leaves)[d][2 * i - 1],
                      IF 2 * i <= w THEN Levels(leaves)[d][2 * i] ELSE Zeros[d])
        /\ 2 * i - 1 \in 1 .. w
    BY <2>1, NodeOver
  <2> QED  BY <1>3, <2>2 DEF NodeAt
<1>4. CASE i > u
  <2>1. ~(2 * i - 1 <= w) /\ ~(2 * i <= w) /\ ~(i <= u)
    <3> HIDE DEF w, u
    <3> QED  BY <1>1, <1>2, <1>4
  <2>2. Zeros[d + 1] = HashPair(Zeros[d], Zeros[d])
    BY ZeroNodes
  <2> QED  BY <2>1, <2>2 DEF NodeAt
<1>5. i <= u \/ i > u
  <2> HIDE DEF u
  <2> QED  BY <1>1
<1> QED  BY <1>3, <1>4, <1>5

(* the leaves, and nothing where there is none                             *)
LEMMA NodeAtBottom ==
  ASSUME NEW S, NEW leaves \in Seq(S), NEW i \in Nat \ {0}
  PROVE  NodeAt(leaves, 0, i) = IF i <= Len(leaves) THEN leaves[i] ELSE Zero
<1>1. Levels(leaves)[0] = BottomLevel(leaves) /\ Zeros[0] = Zero
  BY LevelByLevel, ZeroNodes
<1>2. CASE leaves = <<>>
  <2>1. Levels(leaves)[0] = <<Zero>> /\ Len(leaves) = 0 /\ Len(Levels(leaves)[0]) = 1
    BY <1>1, <1>2 DEF BottomLevel
  <2>2. ~(i <= Len(leaves))
    BY <2>1
  <2>3. CASE i = 1
    BY <1>1, <2>1, <2>2, <2>3 DEF NodeAt
  <2>4. CASE i # 1
    BY <1>1, <2>1, <2>2, <2>4 DEF NodeAt
  <2> QED  BY <2>3, <2>4
<1>3. CASE leaves # <<>>
  BY <1>1, <1>3 DEF NodeAt, BottomLevel
<1> QED  BY <1>2, <1>3

(* The root is the first node of the last level.                           *)
LEMMA RootIsNode ==
  ASSUME NEW S, NEW leaves \in Seq(S)
  PROVE  Root(leaves) = NodeAt(leaves, Depth, 1)
<1>1. Len(Levels(leaves)[Depth]) \in Nat \ {0}
  BY Widths, Heights
<1> QED  BY <1>1 DEF Root, NodeAt

(* Beyond the next position there are empty nodes only.                    *)
LEMMA NothingBeyond ==
  ASSUME NEW S, NEW leaves \in Seq(S), NEW d \in 0 .. Depth,
         NEW i \in Nat, i > Shifted(Len(leaves))[d] + 1
  PROVE  NodeAt(leaves, d, i) = Zeros[d]
<1> DEFINE w == Len(Levels(leaves)[d])
           c == Shifted(Len(leaves))[d]
<1>1. w \in Nat /\ w <= c + 1 /\ c \in Nat
  BY Widths, ShiftNat
<1>2. ~(i <= w)
  <2>1. i > c + 1
    OBVIOUS
  <2> HIDE DEF w, c
  <2> QED  BY <1>1, <2>1
<1> QED  BY <1>2 DEF NodeAt

(* A node that is complete stays what it is when a leaf is appended.       *)
LEMMA CompleteNodesStay ==
  ASSUME NEW S, NEW leaves \in Seq(S), NEW cm \in S
  PROVE  \A d \in 0 .. Depth : \A i \in 1 .. Shifted(Len(leaves))[d] :
           NodeAt(Append(leaves, cm), d, i) = NodeAt(leaves, d, i)
<1> DEFINE n == Len(leaves)
           more == Append(leaves, cm)
           B == {d \in 0 .. Depth : \A i \in 1 .. Shifted(n)[d] :
                                      NodeAt(more, d, i) = NodeAt(leaves, d, i)}
<1>0. n \in Nat /\ more \in Seq(S) /\ Len(more) = n + 1
  OBVIOUS
<1>1. 0 \in B
  <2> SUFFICES ASSUME NEW i \in 1 .. Shifted(n)[0]
               PROVE  NodeAt(more, 0, i) = NodeAt(leaves, 0, i)
    BY Heights
  <2>1. i \in 1 .. n /\ i \in Nat \ {0} /\ i <= n /\ i <= n + 1
    BY <1>0, Shifts
  <2>2. more[i] = leaves[i]
    BY <2>1
  <2>3. NodeAt(leaves, 0, i) = leaves[i]
    BY <2>1, NodeAtBottom
  <2>4. NodeAt(more, 0, i) = more[i]
    <3> HIDE DEF more
    <3> QED  BY <1>0, <2>1, NodeAtBottom
  <2> QED  BY <2>2, <2>3, <2>4
<1> HIDE DEF more, n
<1>2. ASSUME NEW d \in 0 .. Depth - 1, d \in B PROVE d + 1 \in B
  <2> SUFFICES ASSUME NEW i \in 1 .. Shifted(n)[d + 1]
               PROVE  NodeAt(more, d + 1, i) = NodeAt(leaves, d + 1, i)
    BY Heights
  <2>1. /\ Shifted(n)[d] \in Nat /\ Shifted(n)[d + 1] \in Nat
        /\ Bit(n, d) \in {0, 1}
        /\ Shifted(n)[d] = 2 * Shifted(n)[d + 1] + Bit(n, d)
    BY <1>0, NextShift
  <2>2. 2 * i - 1 \in 1 .. Shifted(n)[d] /\ 2 * i \in 1 .. Shifted(n)[d] /\ i \in Nat \ {0}
    BY <2>1
  <2>3. /\ NodeAt(more, d, 2 * i - 1) = NodeAt(leaves, d, 2 * i - 1)
        /\ NodeAt(more, d, 2 * i) = NodeAt(leaves, d, 2 * i)
    BY <1>2, <2>2
  <2>4. NodeAt(leaves, d + 1, i) = HashPair(NodeAt(leaves, d, 2 * i - 1), NodeAt(leaves, d, 2 * i))
    BY <2>2, NodeAtOver
  <2>5. NodeAt(more, d + 1, i) = HashPair(NodeAt(more, d, 2 * i - 1), NodeAt(more, d, 2 * i))
    BY <1>0, <2>2, NodeAtOver
  <2> QED  BY <2>3, <2>4, <2>5
<1>3. \A d \in 0 .. Depth : d \in B
  <2> HIDE DEF B
  <2> QED  BY <1>1, <1>2, Heights, Upwards
<1> QED  BY <1>3 DEF n, more

-----------------------------------------------------------------------------
(* The frontier *)

(* Where a bit of the next index is 1, the frontier holds the last         *)
(* complete node of that height; elsewhere it holds what has been left     *)
(* there.                                                                  *)
Frontier(filled, leaves) ==
  \A d \in 0 .. Depth :
    Bit(Len(leaves), d) = 1 => filled[d] = NodeAt(leaves, d, Shifted(Len(leaves))[d])

(* Hashing up to the first 0 bit leaves the frontier of the leaves and the *)
(* new one.                                                                *)
LEMMA InsertKeepsFrontier ==
  ASSUME NEW S, NEW leaves \in Seq(S), NEW cm \in S, Len(leaves) < Capacity,
         NEW t, t.next = Len(leaves), DOMAIN t.filled = 0 .. Depth,
         Frontier(t.filled, leaves)
  PROVE  /\ Insert(t, cm).next = Len(leaves) + 1
         /\ DOMAIN Insert(t, cm).filled = 0 .. Depth
         /\ Frontier(Insert(t, cm).filled, Append(leaves, cm))
<1> DEFINE n == Len(leaves)
           more == Append(leaves, cm)
           f == FirstZero(n)
           path == [k \in 0 .. Depth - 1 |-> [bit |-> 1, node |-> t.filled[k]]]
           node == HashUp(cm, path)
<1>0. n \in Nat /\ n \in 0 .. Capacity - 1 /\ more \in Seq(S) /\ Len(more) = n + 1
  BY CapacityNat
<1>1. /\ Insert(t, cm).next = n + 1
      /\ Insert(t, cm).filled = [t.filled EXCEPT ![f] = node[f]]
  BY DEF Insert
<1>2. more[n + 1] = cm
  OBVIOUS
<1>3. /\ f \in 0 .. Depth /\ Bit(n, f) = 0
      /\ \A k \in 0 .. f - 1 : Bit(n, k) = 1
      /\ \A k \in 0 .. f : Shifted(n + 1)[k] = Shifted(n)[k] + 1
      /\ \A k \in f + 1 .. Depth : Shifted(n + 1)[k] = Shifted(n)[k]
  <2> HIDE DEF n
  <2> QED  BY <1>0, Carry
<1>4. \A d \in 0 .. Depth : \A i \in 1 .. Shifted(n)[d] :
        NodeAt(more, d, i) = NodeAt(leaves, d, i)
  BY CompleteNodesStay
<1>5. \A d \in 0 .. Depth : Bit(n, d) = 1 => t.filled[d] = NodeAt(leaves, d, Shifted(n)[d])
  BY DEF Frontier
<1>6. \A k \in 0 .. Depth - 1 : path[k].bit = 1 /\ path[k].node = t.filled[k]
  OBVIOUS
<1>7. node[0] = cm /\ \A k \in 0 .. Depth - 1 : node[k + 1] = Above(node[k], path[k])
  <2> HIDE DEF path
  <2> QED  BY Walk
<1> HIDE DEF n, more, f, path, node
<1> DEFINE B == {k \in 0 .. f : node[k] = NodeAt(more, k, Shifted(n)[k] + 1)}
<1>8. 0 \in B
  <2>1. Shifted(n)[0] = n
    BY <1>0, Shifts
  <2>2. NodeAt(more, 0, n + 1) = more[n + 1]
    BY <1>0, NodeAtBottom
  <2> QED  BY <1>2, <1>3, <1>7, <2>1, <2>2
<1>9. ASSUME NEW k \in 0 .. f - 1, k \in B PROVE k + 1 \in B
  <2>1. k \in 0 .. Depth /\ k \in 0 .. Depth - 1 /\ k + 1 \in 0 .. f
    BY <1>3, Heights
  <2>2. Bit(n, k) = 1
    BY <1>3
  <2>3. /\ Shifted(n)[k] \in Nat /\ Shifted(n)[k + 1] \in Nat
        /\ Shifted(n)[k] = 2 * Shifted(n)[k + 1] + 1
    BY <1>0, <2>1, <2>2, NextShift
  <2> DEFINE i == Shifted(n)[k + 1] + 1
  <2>4. i \in Nat \ {0} /\ 2 * i - 1 = Shifted(n)[k] /\ 2 * i = Shifted(n)[k] + 1
        /\ Shifted(n)[k] \in 1 .. Shifted(n)[k]
    BY <2>3
  <2>5. node[k] = NodeAt(more, k, 2 * i)
    BY <1>9, <2>4
  <2>6. t.filled[k] = NodeAt(more, k, 2 * i - 1)
    BY <1>4, <1>5, <2>1, <2>2, <2>4
  <2>7. node[k + 1] = HashPair(t.filled[k], node[k])
    BY <1>6, <1>7, <2>1 DEF Above
  <2> HIDE DEF i
  <2>8. NodeAt(more, k + 1, i) = HashPair(NodeAt(more, k, 2 * i - 1), NodeAt(more, k, 2 * i))
    BY <1>0, <2>1, <2>4, NodeAtOver
  <2>9. node[k + 1] = NodeAt(more, k + 1, i)
    BY <2>5, <2>6, <2>7, <2>8
  <2> QED  BY <2>1, <2>9 DEF i
<1>10. node[f] = NodeAt(more, f, Shifted(n)[f] + 1)
  <2>1. \A k \in 0 .. f : k \in B
    <3> HIDE DEF B
    <3>1. f \in Nat
      BY <1>3
    <3> QED  BY <1>8, <1>9, <3>1, Upwards
  <2> QED  BY <1>3, <2>1
<1>11. ASSUME NEW d \in 0 .. Depth, Bit(n + 1, d) = 1
       PROVE  [t.filled EXCEPT ![f] = node[f]][d] = NodeAt(more, d, Shifted(n + 1)[d])
  <2>1. CASE d < f
    <3>1. d \in 0 .. f - 1 /\ d \in 0 .. f
      BY <1>3, <2>1
    <3>2. Bit(n, d) = 1 /\ Shifted(n + 1)[d] = Shifted(n)[d] + 1 /\ Shifted(n)[d] \in Nat
      BY <1>0, <1>3, <3>1, ShiftNat
    <3>3. FALSE
      BY <1>11, <3>2 DEF Bit
    <3> QED  BY <3>3
  <2>2. CASE d = f
    <3>1. Shifted(n + 1)[d] = Shifted(n)[f] + 1
      BY <1>3, <2>2
    <3> QED  BY <1>10, <2>2, <3>1
  <2>3. CASE d > f
    <3>1. d \in f + 1 .. Depth
      BY <1>3, <2>3
    <3>2. Shifted(n + 1)[d] = Shifted(n)[d] /\ Shifted(n)[d] \in Nat
      BY <1>0, <1>3, <3>1, ShiftNat
    <3>3. Bit(n, d) = 1
      BY <1>11, <3>2 DEF Bit
    <3>4. Shifted(n)[d] \in 1 .. Shifted(n)[d]
      BY <3>2, <3>3 DEF Bit
    <3>5. t.filled[d] = NodeAt(more, d, Shifted(n)[d])
      BY <1>4, <1>5, <3>3, <3>4
    <3>6. d # f
      BY <1>3, <2>3
    <3> QED  BY <3>2, <3>5, <3>6
  <2> QED  BY <1>3, <2>1, <2>2, <2>3
<1>12. Frontier(Insert(t, cm).filled, more)
  BY <1>0, <1>1, <1>11 DEF Frontier
<1> QED  BY <1>1, <1>12 DEF n, more

(* The root computed from a frontier is the root of the full tree.         *)
LEMMA FrontierRoot ==
  ASSUME NEW S, NEW leaves \in Seq(S), Len(leaves) <= Capacity,
         NEW t, t.next = Len(leaves), Frontier(t.filled, leaves)
  PROVE  ComputeRoot(t) = Root(leaves)
<1> DEFINE n == Len(leaves)
           path == [l \in 0 .. Depth - 1 |->
                      [bit |-> Bit(t.next, l),
                       node |-> IF Bit(t.next, l) = 0 THEN Zeros[l] ELSE t.filled[l]]]
           node == HashUp(Zero, path)
<1>0. n \in Nat /\ n \in 0 .. Capacity /\ t.next = n
  BY CapacityNat
<1>1. /\ n = Capacity => ComputeRoot(t) = t.filled[Depth]
      /\ n # Capacity => ComputeRoot(t) = node[Depth]
  BY DEF ComputeRoot, EmptyPositionUp
<1>2. \A d \in 0 .. Depth : Bit(n, d) = 1 => t.filled[d] = NodeAt(leaves, d, Shifted(n)[d])
  BY DEF Frontier
<1>3. \A d \in 0 .. Depth - 1 :
        /\ path[d].bit = Bit(n, d)
        /\ path[d].node = IF Bit(n, d) = 0 THEN Zeros[d] ELSE t.filled[d]
  OBVIOUS
<1>4. node[0] = Zero /\ \A k \in 0 .. Depth - 1 : node[k + 1] = Above(node[k], path[k])
  <2> HIDE DEF path
  <2> QED  BY Walk
<1>5. \A d \in 0 .. Depth : \A i \in Nat : i > Shifted(n)[d] + 1 => NodeAt(leaves, d, i) = Zeros[d]
  BY NothingBeyond
<1>6. NodeAt(leaves, 0, n + 1) = Zero
  <2>1. NodeAt(leaves, 0, n + 1) = IF n + 1 <= n THEN leaves[n + 1] ELSE Zero
    BY <1>0, NodeAtBottom
  <2> HIDE DEF n
  <2> QED  BY <1>0, <2>1
<1> HIDE DEF n, path, node
<1> DEFINE B == {d \in 0 .. Depth : node[d] = NodeAt(leaves, d, Shifted(n)[d] + 1)}
<1>7. 0 \in B
  BY <1>0, <1>4, <1>6, Shifts, Heights
<1>8. ASSUME NEW d \in 0 .. Depth - 1, d \in B PROVE d + 1 \in B
  <2>1. d \in 0 .. Depth /\ d + 1 \in 0 .. Depth
    BY Heights
  <2>2. /\ Shifted(n)[d] \in Nat /\ Shifted(n)[d + 1] \in Nat
        /\ Bit(n, d) \in {0, 1}
        /\ Shifted(n)[d] = 2 * Shifted(n)[d + 1] + Bit(n, d)
    BY <1>0, NextShift
  <2> DEFINE i == Shifted(n)[d + 1] + 1
  <2>3. i \in Nat \ {0}
    BY <2>2
  <2>4. NodeAt(leaves, d + 1, i) = HashPair(NodeAt(leaves, d, 2 * i - 1), NodeAt(leaves, d, 2 * i))
    BY <2>3, NodeAtOver
  <2>5. node[d] = NodeAt(leaves, d, Shifted(n)[d] + 1)
    BY <1>8
  <2>6. CASE Bit(n, d) = 0
    <3>1. 2 * i - 1 = Shifted(n)[d] + 1 /\ 2 * i > Shifted(n)[d] + 1 /\ 2 * i \in Nat
      BY <2>2, <2>6
    <3>2. NodeAt(leaves, d, 2 * i) = Zeros[d]
      BY <1>5, <2>1, <3>1
    <3>3. node[d + 1] = HashPair(node[d], Zeros[d])
      BY <1>3, <1>4, <2>6 DEF Above
    <3>4. node[d + 1] = NodeAt(leaves, d + 1, i)
      BY <2>4, <2>5, <3>1, <3>2, <3>3
    <3> QED  BY <2>1, <3>4
  <2>7. CASE Bit(n, d) = 1
    <3>1. 2 * i - 1 = Shifted(n)[d] /\ 2 * i = Shifted(n)[d] + 1
      BY <2>2, <2>7
    <3>2. t.filled[d] = NodeAt(leaves, d, Shifted(n)[d])
      BY <1>2, <2>1, <2>7
    <3>3. node[d + 1] = HashPair(t.filled[d], node[d])
      BY <1>3, <1>4, <2>7 DEF Above
    <3>4. node[d + 1] = NodeAt(leaves, d + 1, i)
      BY <2>4, <2>5, <3>1, <3>2, <3>3
    <3> QED  BY <2>1, <3>4
  <2> QED  BY <2>2, <2>6, <2>7
<1>9. node[Depth] = NodeAt(leaves, Depth, Shifted(n)[Depth] + 1)
  <2>1. \A d \in 0 .. Depth : d \in B
    <3> HIDE DEF B
    <3> QED  BY <1>7, <1>8, Heights, Upwards
  <2> QED  BY <2>1, Heights
<1>10. CASE n = Capacity
  <2>1. Shifted(n)[Depth] = 1 /\ Bit(n, Depth) = 1
    BY <1>0, <1>10, LastShift DEF Bit
  <2> QED  BY <1>1, <1>2, <1>10, <2>1, Heights, RootIsNode
<1>11. CASE n # Capacity
  <2>1. Shifted(n)[Depth] = 0
    BY <1>0, <1>11, LastShift
  <2> QED  BY <1>1, <1>9, <1>11, <2>1, RootIsNode
<1> QED  BY <1>10, <1>11

-----------------------------------------------------------------------------
(* Paths *)

(* From the leaf at a position, the path of that position leads to the     *)
(* root, and from anything else to something else.                         *)
LEMMA PathOpens ==
  ASSUME NEW S, NEW leaves \in Seq(S), Len(leaves) <= Capacity,
         NEW i \in 0 .. Len(leaves) - 1, NEW cm
  PROVE  PathRoot(cm, AuthPath(leaves, i)) = Root(leaves) <=> cm = leaves[i + 1]
<1> DEFINE at(d) == Shifted(i)[d]
           path == AuthPath(leaves, i)
           node == HashUp(cm, path)
           Here == {d \in 0 .. Depth : node[d] = NodeAt(leaves, d, at(d) + 1)
                                         <=> cm = leaves[i + 1]}
<1>0. i \in Nat /\ i \in 0 .. Capacity /\ i # Capacity /\ i + 1 \in Nat \ {0} /\ i + 1 <= Len(leaves)
  BY CapacityNat
<1>1. ASSUME NEW d \in 0 .. Depth - 1
      PROVE  /\ path[d].bit = Bit(i, d)
             /\ path[d].node = NodeAt(leaves, d, IF Bit(i, d) = 1 THEN at(d) ELSE at(d) + 2)
  <2> DEFINE sibling == IF Bit(i, d) = 1 THEN at(d) - 1 ELSE at(d) + 1
             w == Len(Levels(leaves)[d])
  <2>1. path[d] = [node |-> IF sibling < w THEN Levels(leaves)[d][sibling + 1] ELSE Zeros[d],
                   bit |-> Bit(i, d)]
    BY DEF AuthPath
  <2>2. d \in 0 .. Depth
    BY Heights
  <2>3. at(d) \in Nat /\ w \in Nat
    BY <1>0, <2>2, ShiftNat, Widths
  <2> DEFINE p == IF Bit(i, d) = 1 THEN at(d) ELSE at(d) + 2
  <2>4. sibling + 1 = p /\ (sibling < w <=> p <= w)
    <3> HIDE DEF w, at
    <3> QED  BY <2>3
  <2>5. NodeAt(leaves, d, p) = IF p <= w THEN Levels(leaves)[d][p] ELSE Zeros[d]
    BY DEF NodeAt
  <2> HIDE DEF p, w, sibling, path
  <2>6. path[d].bit = Bit(i, d) /\ path[d].node = NodeAt(leaves, d, p)
    BY <2>1, <2>4, <2>5
  <2> QED  BY <2>6 DEF p
<1>2. node[0] = cm /\ \A d \in 0 .. Depth - 1 : node[d + 1] = Above(node[d], path[d])
  <2> HIDE DEF path
  <2> QED  BY Walk
<1> HIDE DEF path, node
<1>3. 0 \in Here
  <2>1. at(0) = i
    BY <1>0, Shifts
  <2>2. NodeAt(leaves, 0, i + 1) = leaves[i + 1]
    BY <1>0, NodeAtBottom
  <2> QED  BY <1>2, <2>1, <2>2, Heights
<1>4. ASSUME NEW d \in 0 .. Depth - 1, d \in Here PROVE d + 1 \in Here
  <2>1. /\ at(d) \in Nat /\ at(d + 1) \in Nat
        /\ Bit(i, d) \in {0, 1}
        /\ at(d) = 2 * at(d + 1) + Bit(i, d)
    BY <1>0, NextShift
  <2> DEFINE p == at(d + 1) + 1
  <2>2. p \in Nat \ {0}
    BY <2>1
  <2>3. NodeAt(leaves, d + 1, p) = HashPair(NodeAt(leaves, d, 2 * p - 1), NodeAt(leaves, d, 2 * p))
    BY <2>2, NodeAtOver
  <2>4. node[d] = NodeAt(leaves, d, at(d) + 1) <=> cm = leaves[i + 1]
    BY <1>4
  <2>5. CASE Bit(i, d) = 0
    <3>1. 2 * p - 1 = at(d) + 1 /\ 2 * p = at(d) + 2
      BY <2>1, <2>5
    <3>2. node[d + 1] = HashPair(node[d], NodeAt(leaves, d, at(d) + 2))
      BY <1>1, <1>2, <2>5 DEF Above
    <3>3. node[d + 1] = NodeAt(leaves, d + 1, p) <=> node[d] = NodeAt(leaves, d, at(d) + 1)
      BY <2>3, <3>1, <3>2, PairsDiffer
    <3> QED  BY <2>4, <3>3, Heights
  <2>6. CASE Bit(i, d) = 1
    <3>1. 2 * p - 1 = at(d) /\ 2 * p = at(d) + 1
      BY <2>1, <2>6
    <3>2. node[d + 1] = HashPair(NodeAt(leaves, d, at(d)), node[d])
      BY <1>1, <1>2, <2>6 DEF Above
    <3>3. node[d + 1] = NodeAt(leaves, d + 1, p) <=> node[d] = NodeAt(leaves, d, at(d) + 1)
      BY <2>3, <3>1, <3>2, PairsDiffer
    <3> QED  BY <2>4, <3>3, Heights
  <2> QED  BY <2>1, <2>5, <2>6
<1>5. Depth \in Here
  <2> HIDE DEF Here
  <2> QED  BY <1>3, <1>4, Heights, Upwards
<1>6. at(Depth) = 0
  BY <1>0, LastShift
<1> QED  BY <1>5, <1>6, RootIsNode DEF PathRoot, node, path

-----------------------------------------------------------------------------
(* The invariant *)

LeavesOf(events) == [k \in 1 .. Len(events) |-> events[k].cm]

Roots == {Root(leaves) : leaves \in Seq(Cms)}

Events == [cm : Cms, index : Nat, newRoot : Roots]

(* A frontier over some leaves, and events that number their leaves.       *)
FrontierOf(t, leaves) ==
  /\ t.next = Len(leaves) /\ t.next <= Capacity
  /\ DOMAIN t.filled = 0 .. Depth
  /\ Frontier(t.filled, leaves)

Numbered(events) ==
  /\ events \in Seq(Events)
  /\ \A k \in 1 .. Len(events) : events[k].index = k - 1

Inserted(events) == {events[k].cm : k \in 1 .. Len(events)}

(* A tree with the frontier t and a root of its own, and its events.       *)
TreeOf(t, leaves, root, events) ==
  /\ Numbered(events)
  /\ leaves = Inserted(events)
  /\ FrontierOf(t, LeavesOf(events))
  /\ root = Root(LeavesOf(events))
  /\ events # <<>> => events[Len(events)].newRoot = root

TreeInv == TreeOf([filled |-> filledSubtrees, next |-> nextIndex], isLeaf, currentRoot, log)

(* What a wallet has read are the pool's leaves, unless there are more by  *)
(* now.                                                                    *)
WalletInv ==
  /\ wallet = [phase |-> wallet.phase, leaves |-> wallet.leaves]
  /\ wallet.phase = "read" =>
       /\ Len(wallet.leaves) \in Nat /\ Len(wallet.leaves) <= nextIndex
       /\ Len(wallet.leaves) = nextIndex => wallet.leaves = LeavesOf(log)

(* The leaves of the events are commitments, as many as the events.        *)
LEMMA LeavesOfEvents ==
  ASSUME NEW events \in Seq(Events)
  PROVE  /\ LeavesOf(events) \in Seq(Cms) /\ Len(LeavesOf(events)) = Len(events)
         /\ \A k \in 1 .. Len(events) : LeavesOf(events)[k] = events[k].cm /\ events[k].cm \in Cms
<1>1. \A k \in 1 .. Len(events) : events[k] \in Events
  OBVIOUS
<1>2. \A k \in 1 .. Len(events) : events[k].cm \in Cms
  BY <1>1 DEF Events
<1>3. Len(events) \in Nat
  OBVIOUS
<1> DEFINE m == Len(events)
           f == [k \in 1 .. m |-> events[k].cm]
<1>4. m \in Nat /\ f \in [1 .. m -> Cms] /\ \A k \in 1 .. m : f[k] = events[k].cm
  BY <1>2, <1>3
<1>5. f \in Seq(Cms) /\ Len(f) = m
  <2> HIDE DEF m, f
  <2>1. f \in Seq(Cms)
    BY <1>4
  <2>2. DOMAIN f = 1 .. m
    BY <1>4
  <2> QED  BY <1>4, <2>1, <2>2
<1> QED  BY <1>2, <1>4, <1>5 DEF LeavesOf

(* One more event is one more leaf.                                        *)
LEMMA LeavesAppend ==
  ASSUME NEW events \in Seq(Events), NEW e \in Events
  PROVE  /\ Append(events, e) \in Seq(Events)
         /\ LeavesOf(Append(events, e)) = Append(LeavesOf(events), e.cm)
<1>1. Append(events, e) \in Seq(Events) /\ Len(Append(events, e)) = Len(events) + 1
  OBVIOUS
<1>2. e.cm \in Cms
  BY DEF Events
<1> DEFINE more == Append(events, e)
           l == LeavesOf(events)
           n == Len(events)
<1>3. l \in Seq(Cms) /\ Len(l) = n /\ n \in Nat /\ \A k \in 1 .. n : l[k] = events[k].cm
  BY LeavesOfEvents
<1>4. \A k \in 1 .. n + 1 : more[k] = IF k = n + 1 THEN e ELSE events[k]
  OBVIOUS
<1>5. LeavesOf(more) \in Seq(Cms) /\ Len(LeavesOf(more)) = n + 1
      /\ \A k \in 1 .. n + 1 : LeavesOf(more)[k] = more[k].cm
  BY <1>1, LeavesOfEvents
<1> HIDE DEF l, n, more
<1>6. /\ Append(l, e.cm) \in Seq(Cms) /\ Len(Append(l, e.cm)) = n + 1
      /\ \A k \in 1 .. n + 1 : Append(l, e.cm)[k] = IF k = n + 1 THEN e.cm ELSE l[k]
  BY <1>2, <1>3
<1>7. \A k \in 1 .. n + 1 : LeavesOf(more)[k] = Append(l, e.cm)[k]
  BY <1>3, <1>4, <1>5, <1>6
<1>8. LeavesOf(more) = Append(l, e.cm)
  <2> DEFINE u == LeavesOf(more)
             v == Append(l, e.cm)
  <2>1. u \in Seq(Cms) /\ v \in Seq(Cms) /\ Len(u) = n + 1 /\ Len(v) = n + 1
        /\ \A k \in 1 .. n + 1 : u[k] = v[k]
    BY <1>5, <1>6, <1>7
  <2> HIDE DEF u, v
  <2>2. u = v
    BY <1>3, <2>1, SeqEqual
  <2> QED  BY <2>2 DEF u, v
<1> QED  BY <1>1, <1>8 DEF l, more

(* The wallet's reconstruction is the events' commitments in their order.  *)
LEMMA RebuiltLeaves ==
  ASSUME NEW events, Numbered(events)
  PROVE  Rebuilt(events) = LeavesOf(events)
<1> DEFINE n == Len(events)
<1>1. n \in Nat /\ DOMAIN events = 1 .. n /\ \A k \in 1 .. n : events[k].index = k - 1
  BY DEF Numbered
<1>2. {events[k].index : k \in DOMAIN events} = 0 .. n - 1
  <2>1. ASSUME NEW j \in 0 .. n - 1 PROVE \E k \in DOMAIN events : j = events[k].index
    <3>1. j + 1 \in DOMAIN events /\ events[j + 1].index = j
      <4> HIDE DEF n
      <4> QED  BY <1>1
    <3> QED  BY <3>1
  <2>2. \A k \in DOMAIN events : events[k].index \in 0 .. n - 1
    <3> HIDE DEF n
    <3> QED  BY <1>1
  <2> QED  BY <2>1, <2>2
<1>3. Cardinality(0 .. n - 1) = n
  <2> HIDE DEF n
  <2>1. 0 \in Int /\ n - 1 \in Int
    BY <1>1
  <2>2. Cardinality(0 .. n - 1) = IF 0 > n - 1 THEN 0 ELSE (n - 1) - 0 + 1
    BY <2>1, FS_Interval
  <2> QED  BY <1>1, <2>2
<1>4. ASSUME NEW i \in 1 .. n
      PROVE  (CHOOSE e \in {events[k] : k \in DOMAIN events} : e.index = i - 1).cm = events[i].cm
  <2> DEFINE E == {events[k] : k \in DOMAIN events}
  <2>1. events[i] \in E /\ events[i].index = i - 1
    BY <1>1
  <2>2. \A e \in E : e.index = i - 1 => e = events[i]
    <3> SUFFICES ASSUME NEW k \in 1 .. n, events[k].index = i - 1 PROVE events[k] = events[i]
      BY <1>1
    <3>1. k = i
      <4> HIDE DEF n
      <4> QED  BY <1>1
    <3> QED  BY <3>1
  <2> HIDE DEF E
  <2>3. (CHOOSE e \in E : e.index = i - 1) = events[i]
    BY <2>1, <2>2
  <2> QED  BY <2>3 DEF E
<1> QED  BY <1>2, <1>3, <1>4 DEF Rebuilt, LeavesOf


(* Zero stays zero when halved.                                            *)
LEMMA NothingLeft == \A d \in 0 .. Depth : Shifted(0)[d] = 0
<1> DEFINE B == {d \in 0 .. Depth : Shifted(0)[d] = 0}
<1>1. 0 \in B
  BY Heights, Shifts
<1>2. ASSUME NEW d \in 0 .. Depth - 1, d \in B PROVE d + 1 \in B
  <2>1. Shifted(0)[d + 1] = Shifted(0)[d] \div 2 /\ Shifted(0)[d] = 0
    BY <1>2, Shifts
  <2> QED  BY <2>1, Heights
<1>3. \A d \in 0 .. Depth : d \in B
  <2> HIDE DEF B
  <2> QED  BY <1>1, <1>2, Heights, Upwards
<1> QED  BY <1>3

(* The root over no leaves is the last empty node.                         *)
LEMMA EmptyTree == Root(<<>>) = Zeros[Depth]
<1>0. <<>> \in Seq(Cms) /\ Len(<<>>) = 0
  OBVIOUS
<1> DEFINE none == <<>>
           B == {d \in 0 .. Depth : NodeAt(none, d, 1) = Zeros[d]}
<1>1. none \in Seq(Cms) /\ Len(none) = 0
  BY <1>0
<1> HIDE DEF none
<1>2. 0 \in B
  <2>1. NodeAt(none, 0, 1) = IF 1 <= Len(none) THEN none[1] ELSE Zero
    BY <1>1, NodeAtBottom, 1 \in Nat \ {0}
  <2> QED  BY <1>1, <2>1, ZeroNodes, Heights
<1>3. ASSUME NEW d \in 0 .. Depth - 1, d \in B PROVE d + 1 \in B
  <2>1. d \in 0 .. Depth /\ d + 1 \in 0 .. Depth
    BY Heights
  <2>2. NodeAt(none, d + 1, 1) = HashPair(NodeAt(none, d, 1), NodeAt(none, d, 2))
    <3> DEFINE i == 1
    <3>1. i \in Nat \ {0} /\ 2 * i - 1 = 1 /\ 2 * i = 2 /\ i = 1
      OBVIOUS
    <3> HIDE DEF i
    <3>2. NodeAt(none, d + 1, i) = HashPair(NodeAt(none, d, 2 * i - 1), NodeAt(none, d, 2 * i))
      <4>1. none \in Seq(Cms) /\ i \in Nat \ {0}
        BY <1>1, <3>1
      <4> QED  BY <4>1, NodeAtOver, Zenon
    <3> QED  BY <3>1, <3>2
  <2>3. NodeAt(none, d, 2) = Zeros[d]
    <3>1. 2 \in Nat /\ 2 > Shifted(Len(none))[d] + 1
      BY <1>1, <2>1, NothingLeft
    <3> QED  BY <1>1, <2>1, <3>1, NothingBeyond
  <2>4. NodeAt(none, d, 1) = Zeros[d] /\ Zeros[d + 1] = HashPair(Zeros[d], Zeros[d])
    BY <1>3, ZeroNodes
  <2> QED  BY <2>1, <2>2, <2>3, <2>4
<1>4. Depth \in B
  <2> HIDE DEF B
  <2> QED  BY <1>2, <1>3, Heights, Upwards
<1> QED  BY <1>1, <1>4, RootIsNode DEF none

(* One more leaf, in the frontier and in the events. *)
LEMMA OneMoreLeaf ==
  ASSUME NEW leaves \in Seq(Cms), NEW t, FrontierOf(t, leaves), NEW cm \in Cms,
         t.next < Capacity
  PROVE  /\ Append(leaves, cm) \in Seq(Cms) /\ Insert(t, cm).next = t.next + 1
         /\ FrontierOf(Insert(t, cm), Append(leaves, cm))
<1>1. /\ Insert(t, cm).next = Len(leaves) + 1
      /\ DOMAIN Insert(t, cm).filled = 0 .. Depth
      /\ Frontier(Insert(t, cm).filled, Append(leaves, cm))
  BY InsertKeepsFrontier DEF FrontierOf
<1>2. Append(leaves, cm) \in Seq(Cms) /\ Len(Append(leaves, cm)) = Len(leaves) + 1
  OBVIOUS
<1>3. Len(leaves) + 1 <= Capacity
  BY CapacityNat DEF FrontierOf
<1> QED  BY <1>1, <1>2, <1>3 DEF FrontierOf

(* An event for the next index keeps the numbering and adds its leaf.      *)
LEMMA OneMoreEvent ==
  ASSUME NEW events, Numbered(events), NEW cm \in Cms, NEW root \in Roots
  PROVE  LET more == Append(events, LeafAppended(cm, Len(events), root))
         IN  /\ Numbered(more) /\ LeavesOf(more) = Append(LeavesOf(events), cm)
             /\ Inserted(more) = Inserted(events) \cup {cm}
             /\ Len(more) = Len(events) + 1 /\ more[Len(more)].newRoot = root
<1> DEFINE e == LeafAppended(cm, Len(events), root)
           more == Append(events, e)
           n == Len(events)
<1>1. events \in Seq(Events) /\ n \in Nat /\ \A k \in 1 .. n : events[k].index = k - 1
  BY DEF Numbered
<1>2. e \in Events /\ e.cm = cm /\ e.index = n /\ e.newRoot = root
  BY <1>1 DEF LeafAppended, Events
<1>3. more \in Seq(Events) /\ LeavesOf(more) = Append(LeavesOf(events), cm)
  <2> HIDE DEF e
  <2> QED  BY <1>1, <1>2, LeavesAppend
<1>4. Len(more) = n + 1 /\ \A k \in 1 .. n + 1 : more[k] = IF k = n + 1 THEN e ELSE events[k]
  <2> HIDE DEF e
  <2> QED  BY <1>1, <1>2
<1> HIDE DEF more, n, e
<1>5. \A k \in 1 .. n + 1 : more[k].index = k - 1
  BY <1>1, <1>2, <1>4
<1>6. {more[k].cm : k \in 1 .. n + 1} = {events[k].cm : k \in 1 .. n} \cup {cm}
  <2>1. \A k \in 1 .. n + 1 : k = n + 1 \/ k \in 1 .. n
    BY <1>1
  <2>2. \A k \in 1 .. n : more[k] = events[k] /\ k \in 1 .. n + 1
    BY <1>1, <1>4
  <2>3. more[n + 1] = e /\ n + 1 \in 1 .. n + 1
    BY <1>1, <1>4
  <2> QED  BY <1>2, <2>1, <2>2, <2>3
<1>7. more[n + 1].newRoot = root
  BY <1>1, <1>2, <1>4
<1> QED  BY <1>1, <1>3, <1>4, <1>5, <1>6, <1>7 DEF Numbered, Inserted, more, n, e

(* The empty pool has the empty tree.                                      *)
LEMMA InitTree == Init => TreeInv /\ WalletInv
<1> SUFFICES ASSUME Init PROVE TreeInv /\ WalletInv
  OBVIOUS
<1>1. LeavesOf(<<>>) = <<>> /\ Inserted(<<>>) = {} /\ Numbered(<<>>)
  BY DEF LeavesOf, Inserted, Numbered
<1>2. Frontier(filledSubtrees, <<>>)
  <2>1. ASSUME NEW d \in 0 .. Depth PROVE Bit(Len(<<>>), d) = 0
    <3>1. Shifted(Len(<<>>))[d] = 0
      BY NothingLeft
    <3> QED  BY <3>1 DEF Bit
  <2> QED  BY <2>1 DEF Frontier
<1>3. FrontierOf([filled |-> filledSubtrees, next |-> nextIndex], <<>>)
  BY <1>2, CapacityNat DEF Init, FrontierOf
<1>4. TreeInv
  BY <1>1, <1>3, EmptyTree DEF Init, TreeInv, TreeOf
<1>5. WalletInv
  BY DEF Init, WalletInv
<1> QED  BY <1>4, <1>5

(* An operation leaves the tree of one or two leaves more.                 *)
LEMMA InsertionKeepsTree ==
  ASSUME TreeInv, NEW a \in Cms, NEW b \in Cms, NEW fresh \in {<<a>>, <<a, b>>},
         InsertAll(fresh)
  PROVE  TreeInv' /\ nextIndex \in Nat /\ nextIndex' \in Nat /\ nextIndex' > nextIndex
         /\ wallet' = wallet
<1> DEFINE t == [filled |-> filledSubtrees, next |-> nextIndex]
           l == LeavesOf(log)
           first == Insert(t, a)
           second == Insert(first, b)
           after == IF Len(fresh) = 1 THEN first ELSE second
           l1 == Append(l, a)
           l2 == Append(l1, b)
           root == currentRoot'
<1>0. /\ Numbered(log) /\ isLeaf = Inserted(log) /\ FrontierOf(t, l)
      /\ l \in Seq(Cms) /\ t.next = nextIndex /\ nextIndex = Len(log) /\ Len(log) \in Nat
  <2>1. log \in Seq(Events)
    BY DEF TreeInv, TreeOf, Numbered
  <2>2. l \in Seq(Cms) /\ Len(l) = Len(log)
    BY <2>1, LeavesOfEvents
  <2> QED  BY <2>1, <2>2 DEF TreeInv, TreeOf, FrontierOf
<1>1. /\ nextIndex + Len(fresh) <= Capacity
      /\ filledSubtrees' = after.filled /\ nextIndex' = after.next
      /\ isLeaf' = isLeaf \cup {fresh[k] : k \in DOMAIN fresh}
      /\ root = ComputeRoot(after)
      /\ log' = log \o Appended(fresh, root)
      /\ wallet' = wallet
  <2>1. fresh[1] = a /\ (Len(fresh) # 1 => fresh[2] = b)
    OBVIOUS
  <2> QED  BY <2>1 DEF InsertAll
<1>2. t.next < Capacity
  <2>1. Len(fresh) \in {1, 2}
    OBVIOUS
  <2>2. nextIndex + Len(fresh) <= Capacity /\ nextIndex \in Nat /\ t.next = nextIndex
    BY <1>0, <1>1, Zenon
  <2>3. nextIndex < Capacity
    BY <2>1, <2>2, CapacityNat
  <2> QED  BY <2>2, <2>3, Zenon
<1>3. l1 \in Seq(Cms) /\ first.next = nextIndex + 1 /\ FrontierOf(first, l1)
  <2> HIDE DEF t, l
  <2> QED  BY <1>0, <1>2, OneMoreLeaf
<1>4. ASSUME Len(fresh) = 2
      PROVE  l2 \in Seq(Cms) /\ second.next = nextIndex + 2 /\ FrontierOf(second, l2)
  <2>1. first.next < Capacity
    BY <1>0, <1>1, <1>3, <1>4, CapacityNat
  <2> HIDE DEF first, l1
  <2> QED  BY <1>0, <1>3, <2>1, OneMoreLeaf
<1> DEFINE e1 == LeafAppended(a, Len(log), root)
           e2 == LeafAppended(b, Len(log) + 1, root)
           log1 == Append(log, e1)
           log2 == Append(log1, e2)
<1>5. CASE fresh = <<a>>
  <2>1. after = first
    BY <1>5
  <2>2. root = Root(l1) /\ root \in Roots
    <3>1. l1 \in Seq(Cms) /\ Len(l1) <= Capacity /\ first.next = Len(l1)
          /\ Frontier(first.filled, l1)
      BY <1>3 DEF FrontierOf
    <3> HIDE DEF l1, first, root
    <3>2. ComputeRoot(first) = Root(l1)
      BY <3>1, FrontierRoot
    <3> QED  BY <1>1, <2>1, <3>1, <3>2 DEF Roots
  <2>3. log' = log1
    <3>1. Appended(fresh, root) = <<e1>>
      BY <1>0, <1>5 DEF Appended
    <3>2. log \in Seq(Events)
      BY <1>0 DEF Numbered
    <3>3. e1 \in Events
      BY <1>0, <2>2 DEF LeafAppended, Events
    <3> HIDE DEF e1
    <3>4. log \o <<e1>> = Append(log, e1)
      BY <3>2, <3>3
    <3> QED  BY <1>1, <3>1, <3>4
  <2>4. /\ Numbered(log1) /\ LeavesOf(log1) = l1 /\ Inserted(log1) = Inserted(log) \cup {a}
        /\ Len(log1) = Len(log) + 1 /\ log1[Len(log1)].newRoot = root
    <3> HIDE DEF root
    <3> QED  BY <1>0, <2>2, OneMoreEvent
  <2>5. isLeaf' = Inserted(log1)
    BY <1>0, <1>1, <1>5, <2>4
  <2>6. [filled |-> filledSubtrees', next |-> nextIndex'] = first
    BY <1>1, <2>1 DEF Insert
  <2>7. nextIndex' = nextIndex + 1
    BY <1>1, <1>3, <2>1
  <2> HIDE DEF first, log1, l1
  <2>8. /\ Numbered(log') /\ isLeaf' = Inserted(log')
        /\ FrontierOf([filled |-> filledSubtrees', next |-> nextIndex'], LeavesOf(log'))
        /\ root = Root(LeavesOf(log')) /\ log'[Len(log')].newRoot = root
    BY <1>3, <2>2, <2>3, <2>4, <2>5, <2>6
  <2>9. TreeInv'
    BY <2>8 DEF TreeInv, TreeOf
  <2> QED  BY <1>0, <1>1, <2>7, <2>9
<1>6. CASE fresh = <<a, b>>
  <2>1. after = second /\ Len(fresh) = 2
    BY <1>6
  <2>2. root = Root(l2) /\ root \in Roots
    <3>1. l2 \in Seq(Cms) /\ Len(l2) <= Capacity /\ second.next = Len(l2)
          /\ Frontier(second.filled, l2)
      BY <1>4, <2>1 DEF FrontierOf
    <3> HIDE DEF l2, second, root
    <3>2. ComputeRoot(second) = Root(l2)
      BY <3>1, FrontierRoot
    <3> QED  BY <1>1, <2>1, <3>1, <3>2 DEF Roots
  <2>3. log' = log2
    <3>1. Appended(fresh, root) = <<e1, e2>>
      BY <1>0, <1>6 DEF Appended
    <3>2. log \in Seq(Events)
      BY <1>0 DEF Numbered
    <3>3. e1 \in Events /\ e2 \in Events
      BY <1>0, <2>2 DEF LeafAppended, Events
    <3> HIDE DEF e1, e2
    <3>4. log \o <<e1, e2>> = Append(Append(log, e1), e2)
      BY <3>2, <3>3
    <3> QED  BY <1>1, <3>1, <3>4
  <2>4. /\ Numbered(log1) /\ LeavesOf(log1) = l1 /\ Inserted(log1) = Inserted(log) \cup {a}
        /\ Len(log1) = Len(log) + 1 /\ log1[Len(log1)].newRoot = root
    <3> HIDE DEF root
    <3> QED  BY <1>0, <2>2, OneMoreEvent
  <2>5. /\ Numbered(log2) /\ LeavesOf(log2) = l2
        /\ Inserted(log2) = Inserted(log1) \cup {b}
        /\ Len(log2) = Len(log) + 2 /\ log2[Len(log2)].newRoot = root
    <3>1. log2 = Append(log1, LeafAppended(b, Len(log1), root))
      BY <2>4
    <3>2. Len(log1) + 1 = Len(log) + 2
      BY <1>0, <2>4
    <3> DEFINE more == Append(log1, LeafAppended(b, Len(log1), root))
    <3> HIDE DEF root, log1, l1
    <3>3. /\ Numbered(more) /\ LeavesOf(more) = Append(LeavesOf(log1), b)
          /\ Inserted(more) = Inserted(log1) \cup {b}
          /\ Len(more) = Len(log1) + 1 /\ more[Len(more)].newRoot = root
      BY <2>2, <2>4, OneMoreEvent
    <3> HIDE DEF log2, more
    <3>4. log2 = more
      BY <3>1 DEF more
    <3>5. Len(log2) = Len(log) + 2
      BY <1>0, <2>4, <3>3, <3>4
    <3> QED  BY <2>4, <3>3, <3>4, <3>5
  <2>6. isLeaf' = Inserted(log2)
    <3>1. {fresh[k] : k \in DOMAIN fresh} = {a, b}
      BY <1>6
    <3> HIDE DEF log1, log2
    <3> QED  BY <1>0, <1>1, <2>4, <2>5, <3>1
  <2>7. [filled |-> filledSubtrees', next |-> nextIndex'] = second
    BY <1>1, <2>1 DEF Insert
  <2>8. nextIndex' = nextIndex + 2
    BY <1>1, <1>4, <2>1
  <2> HIDE DEF second, log1, log2, l2
  <2>9. /\ Numbered(log') /\ isLeaf' = Inserted(log')
        /\ FrontierOf([filled |-> filledSubtrees', next |-> nextIndex'], LeavesOf(log'))
        /\ root = Root(LeavesOf(log')) /\ log'[Len(log')].newRoot = root
    BY <1>4, <2>1, <2>2, <2>3, <2>5, <2>6, <2>7
  <2>10. TreeInv'
    BY <2>9 DEF TreeInv, TreeOf
  <2> QED  BY <1>0, <1>1, <2>8, <2>10
<1> QED  BY <1>5, <1>6

(* Every step keeps the tree and what a wallet has read of it.             *)
LEMMA TreeIsInductive ==
  ASSUME TreeInv, WalletInv, [Next]_vars
  PROVE  TreeInv' /\ WalletInv'
<1>0. nextIndex \in Nat
  BY DEF TreeInv, TreeOf, FrontierOf, Numbered, LeavesOf
<1>1. ASSUME NEW a \in Cms, NEW b \in Cms, NEW fresh \in {<<a>>, <<a, b>>}, InsertAll(fresh)
      PROVE  TreeInv' /\ WalletInv'
  <2>1. /\ TreeInv' /\ nextIndex \in Nat /\ nextIndex' \in Nat /\ nextIndex' > nextIndex
        /\ wallet' = wallet
    BY <1>1, InsertionKeepsTree
  <2>2. WalletInv'
    BY <2>1 DEF WalletInv
  <2> QED  BY <2>1, <2>2
<1>2. CASE \E cm \in Cms : Shield(cm)
  BY <1>1, <1>2 DEF Shield
<1>3. CASE \E out1, out2 \in Cms : Settle(out1, out2)
  BY <1>1, <1>3 DEF Settle
<1>4. CASE ReadLogs
  <2>1. Rebuilt(log) = LeavesOf(log) /\ Len(LeavesOf(log)) = nextIndex
    BY RebuiltLeaves DEF TreeInv, TreeOf, FrontierOf
  <2>2. UNCHANGED pool /\ wallet'.leaves = Rebuilt(log)
    BY <1>4 DEF ReadLogs
  <2>3. TreeInv'
    BY <2>2 DEF TreeInv, TreeOf, pool
  <2>4. WalletInv'
    <3>1. wallet' = [phase |-> "read", leaves |-> Rebuilt(log)] /\ log' = log /\ nextIndex' = nextIndex
      BY <1>4 DEF ReadLogs, pool
    <3>2. wallet'.leaves = LeavesOf(log)
      BY <2>1, <2>2
    <3>3. wallet' = [phase |-> wallet'.phase, leaves |-> wallet'.leaves]
      BY <3>1
    <3> QED  BY <1>0, <2>1, <3>1, <3>2, <3>3 DEF WalletInv
  <2> QED  BY <2>3, <2>4
<1>5. CASE ReadRoot
  <2>1. wallet'.phase # "read" /\ UNCHANGED pool
    <3>1. wallet.phase = "read"
      BY <1>5 DEF ReadRoot
    <3> QED  BY <1>5, <3>1 DEF ReadRoot
  <2>2. wallet' = [phase |-> wallet'.phase, leaves |-> wallet'.leaves]
    BY <1>5 DEF ReadRoot, WalletInv
  <2>3. TreeInv'
    BY <2>1 DEF TreeInv, TreeOf, pool
  <2>4. WalletInv'
    BY <2>1, <2>2 DEF WalletInv
  <2> QED  BY <2>3, <2>4
<1>6. CASE UNCHANGED vars
  BY <1>6 DEF TreeInv, TreeOf, WalletInv, vars, pool
<1> QED  BY <1>2, <1>3, <1>4, <1>5, <1>6 DEF Next

(* So both always hold.                                                    *)
LEMMA TreeAlways == Spec => [](TreeInv /\ WalletInv)
<1>1. Init => TreeInv /\ WalletInv
  BY InitTree
<1>2. TreeInv /\ WalletInv /\ [Next]_vars => (TreeInv /\ WalletInv)'
  BY TreeIsInductive
<1> QED  BY <1>1, <1>2, PTL DEF Spec

(* What the events rebuild, in a state of the invariant. *)
LEMMA WalletLeaves ==
  ASSUME TreeInv
  PROVE  /\ Rebuilt(log) = LeavesOf(log) /\ LeavesOf(log) \in Seq(Cms)
         /\ Len(LeavesOf(log)) = nextIndex /\ Len(log) = nextIndex
         /\ nextIndex \in Nat /\ nextIndex <= Capacity
         /\ DOMAIN log = 1 .. nextIndex
<1>1. log \in Seq(Events)
  BY DEF TreeInv, TreeOf, Numbered
<1>2. LeavesOf(log) \in Seq(Cms) /\ Len(LeavesOf(log)) = Len(log) /\ DOMAIN log = 1 .. Len(log)
      /\ Len(log) \in Nat
  BY <1>1, LeavesOfEvents
<1>3. nextIndex = Len(LeavesOf(log)) /\ nextIndex <= Capacity
  BY DEF TreeInv, TreeOf, FrontierOf
<1>4. Rebuilt(log) = LeavesOf(log)
  BY RebuiltLeaves DEF TreeInv, TreeOf
<1> QED  BY <1>2, <1>3, <1>4

(* The root the contract computes from its frontier is the root of the     *)
(* full tree a wallet rebuilds, for a tree of any depth.                   *)
THEOREM RootsAgree == Spec => []RootMatchesWallet
<1>1. TreeInv => RootMatchesWallet
  BY WalletLeaves DEF TreeInv, TreeOf, RootMatchesWallet
<1> QED  BY <1>1, TreeAlways, PTL

(* The events alone rebuild the tree.                                      *)
THEOREM EventsSuffice == Spec => []EventsRebuildTree
<1>1. TreeInv => EventsRebuildTree
  BY WalletLeaves DEF TreeInv, TreeOf, Numbered, Inserted, EventsRebuildTree
<1> QED  BY <1>1, TreeAlways, PTL

(* The path a wallet takes from its tree opens at the contract's root for  *)
(* the leaf at its position and for nothing else.                          *)
THEOREM PathsOpen == Spec => []PathsOpenExactly
<1>1. ASSUME TreeInv, NEW i \in 0 .. nextIndex - 1, NEW cm
      PROVE  PathRoot(cm, AuthPath(Rebuilt(log), i)) = currentRoot
               <=> cm = Rebuilt(log)[i + 1]
  <2>1. /\ Rebuilt(log) = LeavesOf(log) /\ LeavesOf(log) \in Seq(Cms)
        /\ Len(LeavesOf(log)) = nextIndex /\ nextIndex <= Capacity
    BY <1>1, WalletLeaves
  <2>2. currentRoot = Root(LeavesOf(log))
    BY <1>1 DEF TreeInv, TreeOf
  <2> QED  BY <2>1, <2>2, PathOpens
<1>2. TreeInv => PathsOpenExactly
  BY <1>1 DEF PathsOpenExactly
<1> QED  BY <1>2, TreeAlways, PTL

(* A wallet that finds another root than the pool's was raced.             *)
THEOREM RacesOnly == Spec => MismatchOnlyWhenRaced
<1>1. ASSUME TreeInv, WalletInv, [Next]_vars, wallet.phase = "read", wallet'.phase = "mismatch"
      PROVE  Len(wallet.leaves) < nextIndex
  <2>1. ReadRoot
    <3>1. ASSUME NEW fresh, InsertAll(fresh) PROVE FALSE
      BY <1>1, <3>1 DEF InsertAll
    <3>2. ~ReadLogs /\ ~UNCHANGED vars
      BY <1>1 DEF ReadLogs, vars
    <3> QED  BY <1>1, <3>1, <3>2 DEF Next, Shield, Settle
  <2>2. Root(wallet.leaves) # currentRoot
    <3>1. wallet'.phase = IF Root(wallet.leaves) = currentRoot THEN "verified" ELSE "mismatch"
      <4> DEFINE verdict == IF Root(wallet.leaves) = currentRoot THEN "verified" ELSE "mismatch"
      <4>1. wallet' = [wallet EXCEPT !.phase = verdict]
        BY <2>1 DEF ReadRoot
      <4>2. wallet = [phase |-> wallet.phase, leaves |-> wallet.leaves]
        BY <1>1 DEF WalletInv
      <4> HIDE DEF verdict
      <4>3. wallet'.phase = verdict
        BY <4>1, <4>2
      <4> QED  BY <4>3 DEF verdict
    <3> QED  BY <1>1, <3>1
  <2>3. Len(wallet.leaves) # nextIndex
    BY <1>1, <2>2 DEF TreeInv, TreeOf, WalletInv
  <2> QED  BY <1>1, <2>3, WalletLeaves DEF WalletInv
<1>2. TreeInv /\ WalletInv /\ [Next]_vars
        => [wallet.phase = "read" /\ wallet'.phase = "mismatch"
              => Len(wallet.leaves) < nextIndex]_vars
  BY <1>1
<1> QED  BY <1>2, TreeAlways, PTL DEF Spec, MismatchOnlyWhenRaced

=============================================================================
