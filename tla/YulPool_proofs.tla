--------------------------- MODULE YulPool_proofs ---------------------------
(***************************************************************************)
(* The Yul pool for every instance: what its slots hold is the tree of the *)
(* Solidity pool, and its ETH covers what it owes whenever a payee's code  *)
(* runs, whatever that code does.                                          *)
(***************************************************************************)
EXTENDS YulPool, Sums_proofs, SequenceTheorems

(* the tree's lemmas, at the slots of the pool *)
Trees ==
  INSTANCE MerkleTree_proofs WITH
    filledSubtrees <- [l \in 0 .. Depth |-> store[Slot(l)]],
    nextIndex <- store[NextIndex],
    isLeaf <- {cm \in Cms : IsLeaf(store, cm)},
    currentRoot <- store[CurrentRoot],
    wallet <- [phase |-> "start", leaves |-> <<>>]

(* What the assumptions say of the constants.                              *)
LEMMA Constants ==
  /\ Depth \in Nat \ {0} /\ Depth <= 20 /\ 0 \in 0 .. Depth /\ Depth \in 0 .. Depth
  /\ MaxValue \in Nat \ {0} /\ Pool \in Accounts /\ IsFiniteSet(Accounts)
  /\ Zero \notin Cms
BY YulDepthAssumption, YulPoolAssumption, YulAccountsAssumption, YulZeroAssumption

-----------------------------------------------------------------------------
(* Two trees, one arithmetic *)

(* Sizes, bits, empty nodes and pairs are the reference's.                 *)
LEMMA SameArithmetic ==
  /\ Trees!Capacity = Shl1[Depth]
  /\ Trees!Zeros = Zeros
  /\ \A idx, l : Trees!Bit(idx, l) = IndexBit(idx, l)
  /\ \A l, r : Trees!HashPair(l, r) = Hash2(l, r)
<1>1. Trees!Pow2 = Shl1
  BY DEF Trees!Pow2, Shl1
<1>2. Trees!Zeros = Zeros
  BY DEF Trees!Zeros, Zeros, Trees!HashPair, Hash2
<1>3. ASSUME NEW idx PROVE Trees!Shifted(idx) = Shr(idx)
  BY DEF Trees!Shifted, Shr
<1> QED  BY <1>1, <1>2, <1>3 DEF Trees!Capacity, Trees!Bit, IndexBit, Trees!HashPair, Hash2

(* The reference of the model's property and the one of the lemmas.        *)
LEMMA OneReference ==
  /\ \A t, cm : Tree!Insert(t, cm) = Trees!Insert(t, cm)
  /\ \A t : Tree!ComputeRoot(t) = Trees!ComputeRoot(t)
  /\ \A fresh, root : Tree!Appended(fresh, root) = Trees!Appended(fresh, root)
  /\ Tree!Capacity = Trees!Capacity
<1>1. \A leaf, path : Tree!HashUp(leaf, path) = Trees!HashUp(leaf, path)
  BY DEF Tree!HashUp, Trees!HashUp, Tree!HashPair, Trees!HashPair
<1>2. \A idx : Tree!Shifted(idx) = Trees!Shifted(idx)
  BY DEF Tree!Shifted, Trees!Shifted
<1>3. \A idx, l : Tree!Bit(idx, l) = Trees!Bit(idx, l)
  BY <1>2 DEF Tree!Bit, Trees!Bit
<1>4. \A idx : Tree!FirstZero(idx) = Trees!FirstZero(idx)
  BY <1>3 DEF Tree!FirstZero, Trees!FirstZero
<1>5. Tree!Zeros = Trees!Zeros /\ Tree!Capacity = Trees!Capacity
  BY DEF Tree!Zeros, Trees!Zeros, Tree!HashPair, Trees!HashPair,
         Tree!Capacity, Trees!Capacity, Tree!Pow2, Trees!Pow2
<1>6. \A t, cm : Tree!Insert(t, cm) = Trees!Insert(t, cm)
  BY <1>1, <1>4 DEF Tree!Insert, Trees!Insert
<1>7. \A t : Tree!ComputeRoot(t) = Trees!ComputeRoot(t)
  BY <1>1, <1>3, <1>5 DEF Tree!ComputeRoot, Trees!ComputeRoot,
                          Tree!EmptyPositionUp, Trees!EmptyPositionUp
<1>8. \A fresh, root : Tree!Appended(fresh, root) = Trees!Appended(fresh, root)
  BY DEF Tree!Appended, Trees!Appended, Tree!LeafAppended, Trees!LeafAppended
<1> QED  BY <1>5, <1>6, <1>7, <1>8

(* So is the full tree a wallet rebuilds.                                  *)
LEMMA OneFullTree ==
  ASSUME NEW events
  PROVE  Tree!Root(Tree!Rebuilt(events)) = Trees!Root(Trees!Rebuilt(events))
<1>1. Tree!Rebuilt(events) = Trees!Rebuilt(events)
  BY DEF Tree!Rebuilt, Trees!Rebuilt, Tree!Cardinality, Trees!Cardinality
<1>2. \A leaves : Tree!Root(leaves) = Trees!Root(leaves)
  BY DEF Tree!Root, Trees!Root, Tree!Levels, Trees!Levels, Tree!HashPair, Trees!HashPair,
         Tree!Zeros, Trees!Zeros
<1> QED  BY <1>1, <1>2

-----------------------------------------------------------------------------
(* Slots *)

(* No two uses of the storage share a slot.                                *)
LEMMA SlotsApart ==
  /\ \A l \in 0 .. Depth : \A k \in 0 .. Depth : Slot(l) = Slot(k) => l = k
  /\ \A l \in 0 .. Depth : Slot(l) # NextIndex /\ Slot(l) # CurrentRoot /\ Slot(l) \in Slots
  /\ NextIndex # CurrentRoot /\ NextIndex \in Slots /\ CurrentRoot \in Slots
  /\ \A n, key, base : Slot(n) # MapSlot(key, base)
  /\ \A n, m, a, b : MapSlot(n, a) = MapSlot(m, b) => n = m /\ a = b
<1>1. \A l \in 0 .. Depth : Slot(l) # NextIndex /\ Slot(l) # CurrentRoot /\ Slot(l) \in Slots
  BY Constants DEF Slot, NextIndex, CurrentRoot, Slots, FixedSlots
<1>2. NextIndex # CurrentRoot /\ NextIndex \in Slots /\ CurrentRoot \in Slots
  BY DEF Slot, NextIndex, CurrentRoot, Slots, FixedSlots
<1>3. \A n, key, base : Slot(n) # MapSlot(key, base)
  BY DEF Slot, MapSlot
<1> QED  BY <1>1, <1>2, <1>3 DEF Slot, MapSlot

(* the frontier and the leaves that the slots hold, and the credits        *)
FrontierIn(st) == [filled |-> [l \in 0 .. Depth |-> st[Slot(l)]], next |-> st[NextIndex]]

LeavesIn(st) == {cm \in Cms : IsLeaf(st, cm)}

CreditOf(st) == [a \in Accounts |-> st[WithdrawalSlot(a)] + st[FeeSlot(a)]]

SameCredits(st, after) ==
  \A a \in Accounts : /\ after[WithdrawalSlot(a)] = st[WithdrawalSlot(a)]
                      /\ after[FeeSlot(a)] = st[FeeSlot(a)]

SameTree(st, after) ==
  /\ FrontierIn(after) = FrontierIn(st) /\ LeavesIn(after) = LeavesIn(st)
  /\ after[CurrentRoot] = st[CurrentRoot]

(* An insertion adds the leaf to the leaves and touches no credit.         *)
LEMMA InsertWrites ==
  ASSUME NEW st, DOMAIN st = Slots, NEW cm \in Cms
  PROVE  /\ DOMAIN Insert(st, cm) = Slots
         /\ SameCredits(st, Insert(st, cm))
         /\ \A c \in Cms : Insert(st, cm)[LeafSlot(c)] = IF c = cm THEN 1 ELSE st[LeafSlot(c)]
         /\ LeavesIn(Insert(st, cm)) = LeavesIn(st) \cup {cm}
<1> DEFINE l == Min({k \in 0 .. Depth : IndexBit(st[NextIndex], k) = 0})
<1>1. PICK x : Insert(st, cm) = [st EXCEPT ![NextIndex] = st[NextIndex] + 1,
                                           ![LeafSlot(cm)] = 1, ![Slot(l)] = x]
  BY DEF Insert
<1> DEFINE after == Insert(st, cm)
<1>2. /\ LeafSlot(cm) \in Slots /\ NextIndex \in Slots
      /\ \A a \in Accounts : WithdrawalSlot(a) \in Slots /\ FeeSlot(a) \in Slots
      /\ \A c \in Cms : LeafSlot(c) \in Slots
  BY SlotsApart DEF Slots
<1>3. /\ NextIndex # LeafSlot(cm)
      /\ \A c \in Cms : LeafSlot(c) = LeafSlot(cm) => c = cm
      /\ \A c \in Cms : LeafSlot(c) # NextIndex /\ LeafSlot(c) # Slot(l)
      /\ \A a \in Accounts : /\ WithdrawalSlot(a) # NextIndex /\ WithdrawalSlot(a) # Slot(l)
                             /\ WithdrawalSlot(a) # LeafSlot(cm)
                             /\ FeeSlot(a) # NextIndex /\ FeeSlot(a) # Slot(l)
                             /\ FeeSlot(a) # LeafSlot(cm)
  <2> HIDE DEF l
  <2> QED  BY SlotsApart DEF NextIndex, LeafSlot, WithdrawalSlot, FeeSlot
<1> HIDE DEF l, after
<1>4. after = [st EXCEPT ![NextIndex] = st[NextIndex] + 1, ![LeafSlot(cm)] = 1, ![Slot(l)] = x]
  BY <1>1 DEF after
<1>5. DOMAIN after = Slots /\ SameCredits(st, after)
  BY <1>2, <1>3, <1>4 DEF SameCredits
<1>6. \A c \in Cms : after[LeafSlot(c)] = IF c = cm THEN 1 ELSE st[LeafSlot(c)]
  BY <1>2, <1>3, <1>4
<1>7. LeavesIn(after) = LeavesIn(st) \cup {cm}
  BY <1>6 DEF LeavesIn, IsLeaf
<1> QED  BY <1>5, <1>6, <1>7 DEF after

(* Into a tree with room, it is the reference's insertion.                 *)
LEMMA InsertAlike ==
  ASSUME NEW st, DOMAIN st = Slots, NEW cm \in Cms, st[NextIndex] \in 0 .. Shl1[Depth] - 1
  PROVE  FrontierIn(Insert(st, cm)) = Trees!Insert(FrontierIn(st), cm)
<1> DEFINE index == st[NextIndex]
           Z == {k \in 0 .. Depth : IndexBit(index, k) = 0}
           f == Trees!FirstZero(index)
           t == FrontierIn(st)
           path == [k \in 0 .. Depth - 1 |-> [bit |-> 1, node |-> t.filled[k]]]
           Body(h) == [k \in 0 .. Depth |->
                         IF k = 0 THEN cm ELSE Hash2(st[Slot(k - 1)], h[k - 1])]
           node == CHOOSE h : h = Body(h)
           walk == Trees!HashUp(cm, path)
<1>0. Trees!Capacity = Shl1[Depth] /\ index \in 0 .. Trees!Capacity - 1
  BY SameArithmetic
<1>1. /\ f \in 0 .. Depth /\ IndexBit(index, f) = 0
      /\ \A k \in 0 .. f - 1 : IndexBit(index, k) = 1
  BY <1>0, SameArithmetic, Constants, Trees!Carry
<1>2. Min(Z) = f
  <2>1. f \in Z /\ \A k \in Z : f <= k
    <3>1. ASSUME NEW k \in Z, ~(f <= k) PROVE FALSE
      <4>1. k \in 0 .. f - 1
        BY <1>1, <3>1, Constants
      <4> QED  BY <1>1, <4>1
    <3> QED  BY <1>1, <3>1
  <2>2. \A x \in Z : (\A y \in Z : x <= y) => x = f
    BY <1>1, <2>1, Constants
  <2> HIDE DEF Z, f
  <2> QED  BY <2>1, <2>2 DEF Min
<1>3. ASSUME NEW h PROVE h = Body(h) <=> Trees!WalkTo(h, Depth, cm, path)
  <2>1. ASSUME NEW k \in 0 .. Depth
        PROVE  (IF k = 0 THEN cm ELSE Hash2(st[Slot(k - 1)], h[k - 1]))
                 = (IF k = 0 THEN cm ELSE Trees!Above(h[k - 1], path[k - 1]))
    <3>1. CASE k # 0
      <4>1. k - 1 \in 0 .. Depth - 1 /\ k - 1 \in 0 .. Depth
        BY <3>1, Constants
      <4>2. path[k - 1] = [bit |-> 1, node |-> st[Slot(k - 1)]]
        BY <4>1 DEF FrontierIn
      <4>3. Trees!Above(h[k - 1], path[k - 1]) = Hash2(st[Slot(k - 1)], h[k - 1])
        <5> HIDE DEF path
        <5> QED  BY <4>2, SameArithmetic DEF Trees!Above
      <4> QED  BY <4>3
    <3> QED  BY <3>1
  <2> DEFINE there == [k \in 0 .. Depth |->
                         IF k = 0 THEN cm ELSE Trees!Above(h[k - 1], path[k - 1])]
  <2>2. Body(h) = there
    <3> HIDE DEF path
    <3> QED  BY <2>1
  <2>3. Trees!WalkTo(h, Depth, cm, path) <=> h = there
    <3> HIDE DEF path
    <3> QED  BY DEF Trees!WalkTo
  <2> HIDE DEF there, path
  <2> QED  BY <2>2, <2>3
<1>4. node = walk
  <2>1. Trees!WalkTo(walk, Depth, cm, path)
    <3> HIDE DEF path
    <3> QED  BY Constants, Trees!WalkIs
  <2>2. walk = Body(walk)
    <3> HIDE DEF walk, path, Body
    <3> QED  BY <1>3, <2>1
  <2>3. node = Body(node)
    <3> HIDE DEF walk, Body
    <3> QED  BY <2>2
  <2>4. Trees!WalkTo(node, Depth, cm, path)
    <3> HIDE DEF path, node, Body
    <3> QED  BY <1>3, <2>3
  <2> HIDE DEF path, node, Body
  <2> QED  BY <2>4, Constants, Trees!OneWalk
<1>5. Insert(st, cm) = [st EXCEPT ![NextIndex] = index + 1, ![LeafSlot(cm)] = 1,
                                  ![Slot(f)] = walk[f]]
  <2>1. Insert(st, cm) = [st EXCEPT ![NextIndex] = index + 1, ![LeafSlot(cm)] = 1,
                                    ![Slot(Min(Z))] = node[Min(Z)]]
    BY DEF Insert
  <2> HIDE DEF Z, node, walk, f
  <2> QED  BY <1>2, <1>4, <2>1
<1>6. Trees!Insert(t, cm) = [filled |-> [t.filled EXCEPT ![f] = walk[f]], next |-> index + 1]
  BY DEF Trees!Insert, FrontierIn
<1> HIDE DEF walk, f
<1> DEFINE after == Insert(st, cm)
           x == walk[f]
<1>7. after = [st EXCEPT ![NextIndex] = index + 1, ![LeafSlot(cm)] = 1, ![Slot(f)] = x]
  BY <1>5
<1> HIDE DEF after, x
<1>8. ASSUME NEW k \in 0 .. Depth PROVE after[Slot(k)] = IF k = f THEN x ELSE st[Slot(k)]
  <2>1. Slot(k) \in Slots /\ Slot(k) # NextIndex /\ Slot(k) # LeafSlot(cm)
        /\ (Slot(k) = Slot(f) => k = f)
    BY <1>1, SlotsApart DEF LeafSlot
  <2> QED  BY <1>7, <2>1
<1>9. after[NextIndex] = index + 1
  <2>1. NextIndex \in Slots /\ NextIndex # LeafSlot(cm) /\ NextIndex # Slot(f)
    BY <1>1, SlotsApart DEF LeafSlot, NextIndex
  <2> QED  BY <1>7, <2>1
<1>10. [k \in 0 .. Depth |-> after[Slot(k)]] = [t.filled EXCEPT ![f] = x]
  BY <1>1, <1>8 DEF FrontierIn
<1> QED  BY <1>6, <1>9, <1>10 DEF FrontierIn, after, x

(* The root of the slots is the reference's root of their frontier.        *)
LEMMA ComputeRootAlike ==
  ASSUME NEW st
  PROVE  ComputeRoot(st) = Trees!ComputeRoot(FrontierIn(st))
<1> DEFINE index == st[NextIndex]
           t == FrontierIn(st)
           path == [k \in 0 .. Depth - 1 |->
                      [bit |-> Trees!Bit(t.next, k),
                       node |-> IF Trees!Bit(t.next, k) = 0 THEN Trees!Zeros[k]
                                ELSE t.filled[k]]]
           Body(h) == [k \in 0 .. Depth |->
                         IF k = 0 THEN Zero
                         ELSE IF IndexBit(index, k - 1) = 0 THEN Hash2(h[k - 1], Zeros[k - 1])
                              ELSE Hash2(st[Slot(k - 1)], h[k - 1])]
           node == CHOOSE h : h = Body(h)
           walk == Trees!HashUp(Zero, path)
<1>1. ASSUME NEW h PROVE h = Body(h) <=> Trees!WalkTo(h, Depth, Zero, path)
  <2>1. ASSUME NEW k \in 0 .. Depth
        PROVE  (IF k = 0 THEN Zero
                ELSE IF IndexBit(index, k - 1) = 0 THEN Hash2(h[k - 1], Zeros[k - 1])
                     ELSE Hash2(st[Slot(k - 1)], h[k - 1]))
                 = (IF k = 0 THEN Zero ELSE Trees!Above(h[k - 1], path[k - 1]))
    <3>1. CASE k # 0
      <4>1. k - 1 \in 0 .. Depth - 1 /\ k - 1 \in 0 .. Depth
        BY <3>1, Constants
      <4>2. path[k - 1] = [bit |-> IndexBit(index, k - 1),
                           node |-> IF IndexBit(index, k - 1) = 0 THEN Zeros[k - 1]
                                    ELSE st[Slot(k - 1)]]
        BY <4>1, SameArithmetic DEF FrontierIn
      <4>3. Trees!Above(h[k - 1], path[k - 1])
              = IF IndexBit(index, k - 1) = 0 THEN Hash2(h[k - 1], Zeros[k - 1])
                ELSE Hash2(st[Slot(k - 1)], h[k - 1])
        <5> HIDE DEF path
        <5> QED  BY <4>2, SameArithmetic DEF Trees!Above
      <4> QED  BY <3>1, <4>3
    <3> QED  BY <3>1
  <2> DEFINE there == [k \in 0 .. Depth |->
                         IF k = 0 THEN Zero ELSE Trees!Above(h[k - 1], path[k - 1])]
  <2>2. Body(h) = there
    <3> HIDE DEF path
    <3> QED  BY <2>1
  <2>3. Trees!WalkTo(h, Depth, Zero, path) <=> h = there
    <3> HIDE DEF path
    <3> QED  BY DEF Trees!WalkTo
  <2> HIDE DEF there, path
  <2> QED  BY <2>2, <2>3
<1>2. node = walk
  <2>1. Trees!WalkTo(walk, Depth, Zero, path)
    <3> HIDE DEF path
    <3> QED  BY Constants, Trees!WalkIs
  <2>2. walk = Body(walk)
    <3> HIDE DEF walk, path, Body
    <3> QED  BY <1>1, <2>1
  <2>3. node = Body(node)
    <3> HIDE DEF walk, Body
    <3> QED  BY <2>2
  <2>4. Trees!WalkTo(node, Depth, Zero, path)
    <3> HIDE DEF path, node, Body
    <3> QED  BY <1>1, <2>3
  <2> HIDE DEF path, node, Body
  <2> QED  BY <2>4, Constants, Trees!OneWalk
<1>3. ComputeRoot(st) = IF index = Shl1[Depth] THEN st[Slot(Depth)] ELSE node[Depth]
  BY DEF ComputeRoot
<1>4. Trees!ComputeRoot(t) = IF t.next = Trees!Capacity THEN t.filled[Depth] ELSE walk[Depth]
  BY DEF Trees!ComputeRoot, Trees!EmptyPositionUp
<1>5. t.next = index /\ t.filled[Depth] = st[Slot(Depth)]
  BY Constants DEF FrontierIn
<1> HIDE DEF node, walk
<1> QED  BY <1>2, <1>3, <1>4, <1>5, SameArithmetic

-----------------------------------------------------------------------------
(* What the other writes leave alone *)

(* Every slot the code reads is one of the pool's.                         *)
LEMMA SlotsInUse ==
  /\ \A l \in 0 .. Depth : Slot(l) \in Slots
  /\ NextIndex \in Slots /\ CurrentRoot \in Slots
  /\ \A cm \in Cms : LeafSlot(cm) \in Slots
  /\ \A a \in Accounts : WithdrawalSlot(a) \in Slots /\ FeeSlot(a) \in Slots
BY SlotsApart DEF Slots

(* sstore *)
Writes(st, s, x, after) == after = [st EXCEPT ![s] = x]

(* A write changes one slot.                                               *)
LEMMA OneWrite ==
  ASSUME NEW st, DOMAIN st = Slots, NEW s, NEW x, NEW after, Writes(st, s, x, after)
  PROVE  /\ DOMAIN after = Slots
         /\ \A k \in Slots : after[k] = IF k = s THEN x ELSE st[k]
BY DEF Writes

(* Two stores that agree on the slots of the tree hold the same tree.      *)
LEMMA TreeKept ==
  ASSUME NEW st, NEW after,
         \A l \in 0 .. Depth : after[Slot(l)] = st[Slot(l)],
         after[NextIndex] = st[NextIndex],
         \A cm \in Cms : after[LeafSlot(cm)] = st[LeafSlot(cm)]
  PROVE  FrontierIn(after) = FrontierIn(st) /\ LeavesIn(after) = LeavesIn(st)
<1>1. [l \in 0 .. Depth |-> after[Slot(l)]] = [l \in 0 .. Depth |-> st[Slot(l)]]
  OBVIOUS
<1>2. LeavesIn(after) = LeavesIn(st)
  BY DEF LeavesIn, IsLeaf
<1> QED  BY <1>1, <1>2 DEF FrontierIn

(* Storing the root changes no leaf, no frontier and no credit.            *)
LEMMA RootedWrites ==
  ASSUME NEW st, DOMAIN st = Slots
  PROVE  /\ DOMAIN Rooted(st) = Slots /\ SameCredits(st, Rooted(st))
         /\ FrontierIn(Rooted(st)) = FrontierIn(st) /\ LeavesIn(Rooted(st)) = LeavesIn(st)
         /\ Rooted(st)[CurrentRoot] = Trees!ComputeRoot(FrontierIn(st))
<1> DEFINE after == Rooted(st)
<1>1. /\ DOMAIN after = Slots
      /\ \A k \in Slots : after[k] = IF k = CurrentRoot THEN ComputeRoot(st) ELSE st[k]
  BY OneWrite DEF Rooted, Writes
<1> HIDE DEF after
<1>2. /\ \A l \in 0 .. Depth : after[Slot(l)] = st[Slot(l)]
      /\ after[NextIndex] = st[NextIndex]
  BY <1>1, SlotsApart
<1>3. \A cm \in Cms : after[LeafSlot(cm)] = st[LeafSlot(cm)]
  BY <1>1, SlotsApart, SlotsInUse DEF CurrentRoot, LeafSlot
<1>4. SameCredits(st, after)
  BY <1>1, SlotsApart, SlotsInUse DEF CurrentRoot, WithdrawalSlot, FeeSlot, SameCredits
<1>5. after[CurrentRoot] = Trees!ComputeRoot(FrontierIn(st))
  BY <1>1, SlotsInUse, ComputeRootAlike
<1>6. FrontierIn(after) = FrontierIn(st) /\ LeavesIn(after) = LeavesIn(st)
  BY <1>2, <1>3, TreeKept
<1> QED  BY <1>1, <1>4, <1>5, <1>6 DEF after

(* A write to a credit changes that credit and no part of the tree.        *)
LEMMA CreditWrites ==
  ASSUME NEW st, DOMAIN st = Slots, NEW a \in Accounts,
         NEW s, s = WithdrawalSlot(a) \/ s = FeeSlot(a), NEW x,
         NEW after, Writes(st, s, x, after)
  PROVE  /\ DOMAIN after = Slots /\ SameTree(st, after)
         /\ after[s] = x
         /\ \A b \in Accounts :
              /\ WithdrawalSlot(b) # s => after[WithdrawalSlot(b)] = st[WithdrawalSlot(b)]
              /\ FeeSlot(b) # s => after[FeeSlot(b)] = st[FeeSlot(b)]
<1>1. /\ DOMAIN after = Slots
      /\ \A k \in Slots : after[k] = IF k = s THEN x ELSE st[k]
  BY OneWrite
<1>2. /\ \A l \in 0 .. Depth : Slot(l) # s
      /\ NextIndex # s /\ CurrentRoot # s /\ s \in Slots
      /\ \A cm \in Cms : LeafSlot(cm) # s
  BY SlotsApart, SlotsInUse DEF NextIndex, CurrentRoot, LeafSlot, WithdrawalSlot, FeeSlot
<1>3. /\ \A l \in 0 .. Depth : after[Slot(l)] = st[Slot(l)]
      /\ after[NextIndex] = st[NextIndex] /\ after[CurrentRoot] = st[CurrentRoot]
      /\ \A cm \in Cms : after[LeafSlot(cm)] = st[LeafSlot(cm)]
  BY <1>1, <1>2, SlotsInUse
<1>4. FrontierIn(after) = FrontierIn(st) /\ LeavesIn(after) = LeavesIn(st)
  BY <1>3, TreeKept
<1>5. /\ after[s] = x
      /\ \A b \in Accounts :
           /\ WithdrawalSlot(b) # s => after[WithdrawalSlot(b)] = st[WithdrawalSlot(b)]
           /\ FeeSlot(b) # s => after[FeeSlot(b)] = st[FeeSlot(b)]
  BY <1>1, <1>2, SlotsInUse
<1> QED  BY <1>1, <1>3, <1>4, <1>5 DEF SameTree

(* What a credit gains or loses, all the credits together do.              *)
LEMMA CreditSum ==
  ASSUME NEW st, DOMAIN st = Slots, NEW a \in Accounts,
         NEW s, s = WithdrawalSlot(a) \/ s = FeeSlot(a), NEW x \in Nat,
         \A b \in Accounts : st[WithdrawalSlot(b)] \in Nat /\ st[FeeSlot(b)] \in Nat,
         NEW after, Writes(st, s, x, after)
  PROVE  /\ \A b \in Accounts :
              after[WithdrawalSlot(b)] \in Nat /\ after[FeeSlot(b)] \in Nat
         /\ st[s] \in Nat
         /\ SumOver(CreditOf(st), Accounts) \in Int
         /\ SumOver(CreditOf(after), Accounts)
              = SumOver(CreditOf(st), Accounts) - st[s] + x
<1> DEFINE f == CreditOf(st)
           g == CreditOf(after)
<1>1. /\ after[s] = x
      /\ \A b \in Accounts :
           /\ WithdrawalSlot(b) # s => after[WithdrawalSlot(b)] = st[WithdrawalSlot(b)]
           /\ FeeSlot(b) # s => after[FeeSlot(b)] = st[FeeSlot(b)]
  BY CreditWrites
<1>2. \A b \in Accounts : after[WithdrawalSlot(b)] \in Nat /\ after[FeeSlot(b)] \in Nat
  BY <1>1
<1>3. \A b \in Accounts : /\ f[b] = st[WithdrawalSlot(b)] + st[FeeSlot(b)]
                          /\ g[b] = after[WithdrawalSlot(b)] + after[FeeSlot(b)]
  BY DEF CreditOf
<1> HIDE DEF f, g
<1>4. \A b \in Accounts : f[b] \in Int /\ g[b] \in Int
  BY <1>2, <1>3
<1>5. \A b \in Accounts : b # a => g[b] = f[b]
  <2>1. ASSUME NEW b \in Accounts, b # a PROVE WithdrawalSlot(b) # s /\ FeeSlot(b) # s
    BY <2>1 DEF WithdrawalSlot, FeeSlot, MapSlot
  <2> QED  BY <1>1, <1>3, <2>1
<1>6. g[a] = f[a] - st[s] + x
  <2>1. WithdrawalSlot(a) # FeeSlot(a)
    BY DEF WithdrawalSlot, FeeSlot, MapSlot
  <2> QED  BY <1>1, <1>3, <2>1
<1>7. SumOver(g, Accounts) = SumOver(f, Accounts) - f[a] + g[a]
  BY <1>4, <1>5, Constants, SumChanged
<1>8. SumOver(f, Accounts) \in Int
  BY <1>4, Constants, SumInt
<1>9. st[s] \in Nat
  OBVIOUS
<1> QED  BY <1>2, <1>4, <1>6, <1>7, <1>8, <1>9 DEF f, g

-----------------------------------------------------------------------------
(* An operation on the tree *)

(* the leaves an operation inserts *)
OneOrTwo(a, b) == {<<a>>, <<a, b>>}

(* The storage after an operation's insertions is the reference's tree     *)
(* after them.                                                             *)
LEMMA SettledIs ==
  ASSUME DOMAIN store = Slots, store[NextIndex] \in Nat,
         NEW a \in Cms, NEW b \in Cms, NEW fresh \in OneOrTwo(a, b), RoomFor(fresh)
  PROVE  LET first == Trees!Insert(FrontierIn(store), a)
             last == IF Len(fresh) = 1 THEN first ELSE Trees!Insert(first, b)
         IN  /\ DOMAIN Settled(fresh) = Slots /\ SameCredits(store, Settled(fresh))
             /\ FrontierIn(Settled(fresh)) = last
             /\ LeavesIn(Settled(fresh)) = LeavesIn(store) \cup {fresh[k] : k \in DOMAIN fresh}
             /\ Settled(fresh)[CurrentRoot] = Trees!ComputeRoot(last)
<1> DEFINE t == FrontierIn(store)
           one == Insert(store, a)
           two == Insert(one, b)
           first == Trees!Insert(t, a)
           second == Trees!Insert(first, b)
<1>1. Shl1[Depth] \in Nat \ {0}
  BY SameArithmetic, Trees!CapacityNat, Constants
<1>2. store[NextIndex] \in 0 .. Shl1[Depth] - 1
  <2>1. Len(fresh) \in {1, 2}
    BY DEF OneOrTwo
  <2>2. store[NextIndex] + Len(fresh) <= Shl1[Depth]
    BY DEF RoomFor
  <2> DEFINE n == store[NextIndex]
             len == Len(fresh)
             size == Shl1[Depth]
  <2>3. n \in Nat /\ size \in Nat /\ len \in {1, 2} /\ n + len <= size
    BY <1>1, <2>1, <2>2
  <2> HIDE DEF n, len, size
  <2>4. n \in 0 .. size - 1
    BY <2>3
  <2> QED  BY <2>4 DEF n, size
<1>3. DOMAIN one = Slots /\ SameCredits(store, one) /\ LeavesIn(one) = LeavesIn(store) \cup {a}
  BY InsertWrites
<1>4. FrontierIn(one) = first
  BY <1>2, InsertAlike
<1>5. CASE fresh = <<a>>
  <2>1. Settled(fresh) = Rooted(one) /\ Len(fresh) = 1 /\ {fresh[k] : k \in DOMAIN fresh} = {a}
    BY <1>5 DEF Settled
  <2> HIDE DEF one, first, t
  <2>2. /\ DOMAIN Rooted(one) = Slots /\ SameCredits(one, Rooted(one))
        /\ FrontierIn(Rooted(one)) = first /\ LeavesIn(Rooted(one)) = LeavesIn(one)
        /\ Rooted(one)[CurrentRoot] = Trees!ComputeRoot(first)
    BY <1>3, <1>4, RootedWrites
  <2>3. SameCredits(store, Rooted(one))
    BY <1>3, <2>2 DEF SameCredits
  <2>4. /\ DOMAIN Settled(fresh) = Slots /\ SameCredits(store, Settled(fresh))
        /\ FrontierIn(Settled(fresh)) = first
        /\ LeavesIn(Settled(fresh)) = LeavesIn(store) \cup {fresh[k] : k \in DOMAIN fresh}
        /\ Settled(fresh)[CurrentRoot] = Trees!ComputeRoot(first)
    BY <1>3, <2>1, <2>2, <2>3, Zenon
  <2> QED  BY <2>1, <2>4 DEF first, t
<1>6. CASE fresh = <<a, b>>
  <2>1. Settled(fresh) = Rooted(two) /\ Len(fresh) = 2 /\ {fresh[k] : k \in DOMAIN fresh} = {a, b}
    BY <1>6 DEF Settled
  <2>2. one[NextIndex] \in 0 .. Shl1[Depth] - 1
    <3>1. FrontierIn(one).next = store[NextIndex] + 1
      BY <1>4 DEF Trees!Insert, FrontierIn
    <3>2. FrontierIn(one).next = one[NextIndex]
      BY DEF FrontierIn
    <3> HIDE DEF one
    <3> QED  BY <1>1, <2>1, <3>1, <3>2 DEF RoomFor
  <2> HIDE DEF one, first, t
  <2>3. DOMAIN two = Slots /\ SameCredits(one, two) /\ LeavesIn(two) = LeavesIn(one) \cup {b}
    BY <1>3, InsertWrites
  <2>4. FrontierIn(two) = second
    BY <1>3, <1>4, <2>2, InsertAlike
  <2> HIDE DEF two, second
  <2>5. /\ DOMAIN Rooted(two) = Slots /\ SameCredits(two, Rooted(two))
        /\ FrontierIn(Rooted(two)) = second /\ LeavesIn(Rooted(two)) = LeavesIn(two)
        /\ Rooted(two)[CurrentRoot] = Trees!ComputeRoot(second)
    BY <2>3, <2>4, RootedWrites
  <2>6. SameCredits(store, Rooted(two))
    BY <1>3, <2>3, <2>5 DEF SameCredits
  <2>7. LeavesIn(two) = LeavesIn(store) \cup {a, b}
    BY <1>3, <2>3
  <2>8. /\ DOMAIN Settled(fresh) = Slots /\ SameCredits(store, Settled(fresh))
        /\ FrontierIn(Settled(fresh)) = second
        /\ LeavesIn(Settled(fresh)) = LeavesIn(store) \cup {fresh[k] : k \in DOMAIN fresh}
        /\ Settled(fresh)[CurrentRoot] = Trees!ComputeRoot(second)
    BY <2>1, <2>5, <2>6, <2>7, Zenon
  <2> QED  BY <2>1, <2>8 DEF second, first, t
<1> QED  BY <1>5, <1>6 DEF OneOrTwo

(* The insertions touch no credit.                                         *)
LEMMA SettledCredits ==
  ASSUME DOMAIN store = Slots, store[NextIndex] \in Nat,
         NEW a \in Cms, NEW b \in Cms, NEW fresh \in OneOrTwo(a, b), RoomFor(fresh)
  PROVE  DOMAIN Settled(fresh) = Slots /\ SameCredits(store, Settled(fresh))
BY SettledIs

(* Whatever else it writes, an operation that inserts is the reference's.  *)
LEMMA InsertsAlike ==
  ASSUME DOMAIN store = Slots, store[NextIndex] \in Nat,
         NEW a \in Cms, NEW b \in Cms, NEW fresh \in OneOrTwo(a, b), RoomFor(fresh),
         SameTree(Settled(fresh), store'),
         log' = log \o [k \in DOMAIN fresh |->
                          LeafAppended(fresh[k], store[NextIndex] + k - 1, store'[CurrentRoot])]
  PROVE  Trees!InsertAll(fresh)
<1> DEFINE first == Trees!Insert(FrontierIn(store), a)
           last == IF Len(fresh) = 1 THEN first ELSE Trees!Insert(first, b)
<1>1. /\ FrontierIn(store') = last
      /\ LeavesIn(store') = LeavesIn(store) \cup {fresh[k] : k \in DOMAIN fresh}
      /\ store'[CurrentRoot] = Trees!ComputeRoot(last)
  BY SettledIs DEF SameTree
<1>2. fresh[1] = a /\ (Len(fresh) # 1 => fresh[2] = b)
  BY DEF OneOrTwo
<1>3. store[NextIndex] + Len(fresh) <= Trees!Capacity
  BY SameArithmetic DEF RoomFor
<1>4. [l \in 0 .. Depth |-> store'[Slot(l)]] = last.filled /\ store'[NextIndex] = last.next
  <2> HIDE DEF last
  <2> QED  BY <1>1 DEF FrontierIn
<1>5. log' = log \o Trees!Appended(fresh, store'[CurrentRoot])
  BY DEF Trees!Appended, Trees!LeafAppended, LeafAppended
<1> QED
  BY <1>1, <1>2, <1>3, <1>4, <1>5 DEF Trees!InsertAll, FrontierIn, LeavesIn

-----------------------------------------------------------------------------
(* The invariant *)

(* A state of the pool that holds one tree, published, and can pay.        *)
Whole(st, pub, bal, lg, sh) ==
  /\ DOMAIN st = Slots
  /\ \A a \in Accounts : st[WithdrawalSlot(a)] \in Nat /\ st[FeeSlot(a)] \in Nat
  /\ bal \in Int /\ sh \in Nat
  /\ bal >= sh + SumOver(CreditOf(st), Accounts)
  /\ Trees!TreeOf(FrontierIn(st), LeavesIn(st), st[CurrentRoot], lg)
  /\ pub = st[CurrentRoot]

WholeNow == Whole(store, published, balance, log, shielded)

(* So is every state a payee can still send the pool back to.              *)
YulInv ==
  /\ WholeNow
  /\ \E S : /\ stack \in Seq(S)
            /\ \A f \in S : Whole(f.store, f.published, f.balance, f.log, f.shielded)

(* The constructor's pool. *)
LEMMA InitWhole == Init => YulInv
<1> SUFFICES ASSUME Init PROVE YulInv
  OBVIOUS
<1>1. /\ DOMAIN store = Slots
      /\ \A l \in 0 .. Depth : store[Slot(l)] = Zero
      /\ store[NextIndex] = 0 /\ store[CurrentRoot] = Zeros[Depth]
  BY SlotsApart, SlotsInUse DEF Init
<1>2. \A cm \in Cms : store[LeafSlot(cm)] = 0
  BY SlotsApart, SlotsInUse DEF Init, LeafSlot, CurrentRoot
<1>3. \A a \in Accounts : store[WithdrawalSlot(a)] = 0 /\ store[FeeSlot(a)] = 0
  BY SlotsApart, SlotsInUse DEF Init, WithdrawalSlot, FeeSlot, CurrentRoot
<1>4. Trees!TreeOf(FrontierIn(store), LeavesIn(store), store[CurrentRoot], log)
  <2>1. LeavesIn(store) = {}
    BY <1>2 DEF LeavesIn, IsLeaf
  <2>2. [l \in 0 .. Depth |-> store[Slot(l)]] = [l \in 0 .. Depth |-> Zero]
    BY <1>1
  <2>3. log = <<>> /\ store[CurrentRoot] = Trees!Zeros[Depth]
    BY <1>1, SameArithmetic DEF Init
  <2>4. Trees!Init
    BY <1>1, <2>1, <2>2, <2>3 DEF Trees!Init, LeavesIn
  <2>5. Trees!TreeInv
    BY <2>4, Constants, Trees!InitTree
  <2> QED  BY <2>5 DEF Trees!TreeInv, FrontierIn, LeavesIn
<1>5. SumOver(CreditOf(store), Accounts) = 0
  <2>1. CreditOf(store) = [a \in Accounts |-> 0]
    BY <1>3 DEF CreditOf
  <2> QED  BY <2>1, Constants, SumZero
<1>6. WholeNow
  BY <1>1, <1>3, <1>4, <1>5 DEF Init, WholeNow, Whole
<1>7. stack \in Seq({})
  BY DEF Init
<1> QED  BY <1>6, <1>7 DEF YulInv

(* The pool's tree is one the lemmas of MerkleTree speak of.               *)
LEMMA WholeTree ==
  ASSUME WholeNow
  PROVE  /\ Trees!TreeInv
         /\ store[NextIndex] = Len(Trees!LeavesOf(log)) /\ store[NextIndex] \in Nat
         /\ log \in Seq(Trees!Events)
<1>1. Trees!TreeOf(FrontierIn(store), LeavesIn(store), store[CurrentRoot], log)
  BY DEF WholeNow, Whole
<1>2. Trees!TreeInv
  BY <1>1 DEF Trees!TreeInv, FrontierIn, LeavesIn
<1>3. store[NextIndex] = Len(Trees!LeavesOf(log)) /\ log \in Seq(Trees!Events)
  BY <1>1 DEF Trees!TreeOf, Trees!FrontierOf, Trees!Numbered, FrontierIn
<1>4. Len(Trees!LeavesOf(log)) \in Nat
  <2>1. Trees!LeavesOf(log) \in Seq(Cms)
    BY <1>3, Constants, Trees!LeavesOfEvents
  <2> QED  BY <2>1
<1> QED  BY <1>2, <1>3, <1>4

(* Whatever else it writes, an operation leaves the tree of its leaves.    *)
LEMMA OperationKeepsTree ==
  ASSUME WholeNow, NEW a \in Cms, NEW b \in Cms, NEW fresh \in OneOrTwo(a, b),
         RoomFor(fresh), SameTree(Settled(fresh), store'),
         log' = log \o [k \in DOMAIN fresh |->
                          LeafAppended(fresh[k], store[NextIndex] + k - 1, store'[CurrentRoot])]
  PROVE  /\ Trees!InsertAll(fresh)
         /\ Trees!TreeOf(FrontierIn(store'), LeavesIn(store'), store'[CurrentRoot], log')
<1>1. DOMAIN store = Slots /\ store[NextIndex] \in Nat /\ Trees!TreeInv
  BY WholeTree DEF WholeNow, Whole
<1>2. Trees!InsertAll(fresh)
  BY <1>1, InsertsAlike
<1>3. Trees!TreeInv'
  BY <1>1, <1>2, Constants, Trees!InsertionKeepsTree DEF OneOrTwo
<1> QED  BY <1>2, <1>3 DEF Trees!TreeInv, FrontierIn, LeavesIn

(* A deposit brings its value with it.                                     *)
LEMMA ShieldWhole ==
  ASSUME WholeNow, NEW i \in Inners, NEW v \in 0 .. MaxValue, Shield(i, v)
  PROVE  WholeNow' /\ Trees!InsertAll(<<Cm(i, v)>>) /\ ~IsLeaf(store, Cm(i, v))
<1> DEFINE cm == Cm(i, v)
<1>1. cm \in Cms /\ v \in Nat /\ ~IsLeaf(store, cm)
  BY Constants DEF Shield, Cms
<1>2. /\ store' = Settled(<<cm>>) /\ RoomFor(<<cm>>)
      /\ published' = store'[CurrentRoot]
      /\ balance' = balance + v /\ shielded' = shielded + v
  <2>1. Settled(<<cm>>) = Rooted(Insert(store, cm))
    BY DEF Settled
  <2>2. store[NextIndex] \in Nat /\ Shl1[Depth] \in Nat
    BY SameArithmetic, Constants, Trees!CapacityNat, WholeTree
  <2>3. RoomFor(<<cm>>)
    BY <2>2 DEF Shield, Full, RoomFor
  <2> QED  BY <2>1, <2>3 DEF Shield, PublishRoot
<1>3. log' = log \o [k \in DOMAIN <<cm>> |->
                       LeafAppended(<<cm>>[k], store[NextIndex] + k - 1, store'[CurrentRoot])]
  <2> DEFINE e == LeafAppended(cm, store[NextIndex], store'[CurrentRoot])
  <2>1. log' = Append(log, e)
    BY DEF Shield
  <2>2. log \in Seq(Trees!Events) /\ store[NextIndex] \in Nat
    BY WholeTree
  <2>3. [k \in DOMAIN <<cm>> |->
           LeafAppended(<<cm>>[k], store[NextIndex] + k - 1, store'[CurrentRoot])] = <<e>>
    BY <2>2 DEF LeafAppended
  <2> HIDE DEF e
  <2>4. log \o <<e>> = Append(log, e)
    BY <2>2
  <2> QED  BY <2>1, <2>3, <2>4
<1> HIDE DEF cm
<1>4. /\ Trees!InsertAll(<<cm>>)
      /\ Trees!TreeOf(FrontierIn(store'), LeavesIn(store'), store'[CurrentRoot], log')
  <2>1. SameTree(Settled(<<cm>>), store') /\ <<cm>> \in OneOrTwo(cm, cm)
    BY <1>2 DEF SameTree, OneOrTwo
  <2> QED  BY <1>1, <1>2, <1>3, <2>1, OperationKeepsTree
<1>5. DOMAIN store' = Slots /\ SameCredits(store, store')
  <2>1. DOMAIN store = Slots /\ store[NextIndex] \in Nat
    BY WholeTree DEF WholeNow, Whole
  <2>2. <<cm>> \in OneOrTwo(cm, cm)
    BY DEF OneOrTwo
  <2> QED  BY <1>1, <1>2, <2>1, <2>2, SettledCredits
<1>6. WholeNow'
  <2>1. CreditOf(store') = CreditOf(store)
    BY <1>5 DEF CreditOf, SameCredits
  <2>2. /\ \A a \in Accounts : store'[WithdrawalSlot(a)] \in Nat /\ store'[FeeSlot(a)] \in Nat
        /\ SumOver(CreditOf(store), Accounts) \in Int
    <3>1. \A a \in Accounts : store[WithdrawalSlot(a)] \in Nat /\ store[FeeSlot(a)] \in Nat
      BY DEF WholeNow, Whole
    <3>2. \A a \in Accounts : CreditOf(store)[a] \in Int
      BY <3>1 DEF CreditOf
    <3>3. SumOver(CreditOf(store), Accounts) \in Int
      BY <3>2, Constants, SumInt
    <3> QED  BY <1>5, <3>1, <3>3 DEF SameCredits
  <2>3. /\ balance \in Int /\ shielded \in Nat
        /\ balance >= shielded + SumOver(CreditOf(store), Accounts)
    BY DEF WholeNow, Whole
  <2>4. /\ balance' \in Int /\ shielded' \in Nat
        /\ balance' >= shielded' + SumOver(CreditOf(store'), Accounts)
    BY <1>1, <1>2, <2>1, <2>2, <2>3
  <2> QED  BY <1>2, <1>4, <1>5, <2>2, <2>4 DEF WholeNow, Whole
<1> QED  BY <1>1, <1>4, <1>6 DEF cm

CreditsNat(st) ==
  /\ DOMAIN st = Slots
  /\ \A a \in Accounts : st[WithdrawalSlot(a)] \in Nat /\ st[FeeSlot(a)] \in Nat

Credits(st) == SumOver(CreditOf(st), Accounts)

(* The credits sum to a number.                                            *)
LEMMA CreditsInt == ASSUME NEW st, CreditsNat(st) PROVE Credits(st) \in Int
<1>1. \A a \in Accounts : CreditOf(st)[a] \in Int
  BY DEF CreditsNat, CreditOf
<1> QED  BY <1>1, Constants, SumInt DEF Credits

(* Equal credits have equal sums.                                          *)
LEMMA SameCreditsSame ==
  ASSUME NEW st, NEW after, CreditsNat(st), SameCredits(st, after), DOMAIN after = Slots
  PROVE  CreditsNat(after) /\ Credits(after) = Credits(st)
<1>1. CreditOf(after) = CreditOf(st)
  BY DEF CreditOf, SameCredits
<1> QED  BY <1>1 DEF CreditsNat, SameCredits, Credits

(* What is added to a credit is added to their sum, and to no part of the  *)
(* tree.                                                                   *)
LEMMA AddedTo ==
  ASSUME NEW st, CreditsNat(st), NEW a \in Accounts,
         NEW s, s = WithdrawalSlot(a) \/ s = FeeSlot(a), NEW x \in Nat
  PROVE  /\ CreditsNat(AddTo(st, s, x)) /\ SameTree(st, AddTo(st, s, x))
         /\ Credits(AddTo(st, s, x)) = Credits(st) + x
<1> DEFINE y == st[s] + x
           after == AddTo(st, s, x)
<1>1. /\ DOMAIN st = Slots /\ s \in Slots /\ st[s] \in Nat /\ y \in Nat
      /\ \A b \in Accounts : st[WithdrawalSlot(b)] \in Nat /\ st[FeeSlot(b)] \in Nat
  BY SlotsInUse DEF CreditsNat
<1>2. Writes(st, s, y, after)
  BY <1>1 DEF AddTo, Writes
<1> HIDE DEF after
<1>3. DOMAIN after = Slots /\ SameTree(st, after)
  BY <1>1, <1>2, CreditWrites
<1> HIDE DEF y
<1>4. /\ \A b \in Accounts : after[WithdrawalSlot(b)] \in Nat /\ after[FeeSlot(b)] \in Nat
      /\ Credits(st) \in Int /\ Credits(after) = Credits(st) - st[s] + y
  BY <1>1, <1>2, CreditSum DEF Credits
<1>5. Credits(after) = Credits(st) + x
  BY <1>1, <1>4 DEF y
<1> QED  BY <1>3, <1>4, <1>5 DEF CreditsNat, after

(* Two leaves, joined, are a list of two.                                  *)
LEMMA PairOf ==
  ASSUME NEW S, NEW c \in S, NEW d \in S
  PROVE  <<c>> \o <<d>> = <<c, d>>
<1> DEFINE q == Append(<<c>>, d)
<1>1. <<c>> \o <<d>> = q
  BY AppendIsConcat, <<c>> \in Seq(S)
<1>2. Len(q) = 2 /\ q[1] = c /\ q[2] = d /\ q \in Seq(S)
  BY AppendProperties, <<c>> \in Seq(S)
<1> HIDE DEF q
<1>3. DOMAIN q = 1 .. 2
  BY <1>2
<1>4. q = <<c, d>>
  BY <1>2, <1>3
<1> QED  BY <1>1, <1>4

(* Which outputs are inserted.                                             *)
LEMMA FreshCases ==
  ASSUME NEW oc1 \in Cms, NEW oc2 \in Cms
  PROVE  \/ Fresh(oc1, oc2) = <<>>
         \/ /\ Fresh(oc1, oc2) = <<oc1, oc2>>
            /\ ~IsLeaf(store, oc1) /\ ~IsLeaf(store, oc2) /\ oc2 # oc1
         \/ /\ Fresh(oc1, oc2) = <<oc1>> /\ ~IsLeaf(store, oc1)
            /\ ~(~IsLeaf(store, oc2) /\ oc2 # oc1)
         \/ /\ Fresh(oc1, oc2) = <<oc2>> /\ IsLeaf(store, oc1)
            /\ ~IsLeaf(store, oc2) /\ oc2 # oc1
<1>1. <<>> \in Seq(Cms) /\ <<oc1>> \in Seq(Cms) /\ <<oc2>> \in Seq(Cms)
  OBVIOUS
<1>2. <<oc1>> \o <<oc2>> = <<oc1, oc2>>
  BY PairOf
<1>3. <<oc1>> \o <<>> = <<oc1>> /\ <<>> \o <<oc2>> = <<oc2>> /\ <<>> \o <<>> = <<>>
  BY <1>1, ConcatEmptySeq
<1> QED  BY <1>2, <1>3 DEF Fresh

(* The outputs that are inserted are worth no more than the outputs.       *)
LEMMA FreshIs ==
  ASSUME NEW oc1 \in Cms, NEW oc2 \in Cms
  PROVE  /\ \/ Fresh(oc1, oc2) = <<>>
            \/ \E a, b \in {oc1, oc2} : Fresh(oc1, oc2) \in OneOrTwo(a, b)
         /\ Worth(Fresh(oc1, oc2)) \in Nat
         /\ Worth(Fresh(oc1, oc2)) <= ValueOf(oc1) + ValueOf(oc2)
         /\ ValueOf(oc1) \in Nat /\ ValueOf(oc2) \in Nat
<1>1. \A cm \in Cms : ValueOf(cm) \in Nat
  BY Constants DEF Cms, Cm, ValueOf
<1>2. Worth(<<>>) = 0
  BY SumEmpty DEF Worth
<1>3. ASSUME NEW a \in Cms PROVE Worth(<<a>>) = ValueOf(a)
  <2> DEFINE f == [k \in DOMAIN <<a>> |-> ValueOf(<<a>>[k])]
  <2>1. f[1] = ValueOf(a) /\ f[1] \in Int /\ Worth(<<a>>) = SumOver(f, {1})
    BY <1>1 DEF Worth
  <2> HIDE DEF f
  <2>2. IsFiniteSet({}) /\ {} \cup {1} = {1}
    BY FS_EmptySet
  <2>3. SumOver(f, {} \cup {1}) = f[1] + SumOver(f, {})
    <3>1. \A x \in {} \cup {1} : f[x] \in Int
      BY <2>1
    <3> QED  BY <2>2, <3>1, SumAdd
  <2> QED  BY <2>1, <2>2, <2>3, SumEmpty
<1>4. ASSUME NEW a \in Cms, NEW b \in Cms PROVE Worth(<<a, b>>) = ValueOf(a) + ValueOf(b)
  <2> DEFINE f == [k \in DOMAIN <<a, b>> |-> ValueOf(<<a, b>>[k])]
  <2>1. /\ f[1] = ValueOf(a) /\ f[1] \in Int /\ f[2] = ValueOf(b) /\ f[2] \in Int
        /\ Worth(<<a, b>>) = SumOver(f, {1, 2})
    BY <1>1 DEF Worth
  <2> HIDE DEF f
  <2>2. IsFiniteSet({}) /\ {} \cup {1} = {1} /\ IsFiniteSet({1}) /\ {1} \cup {2} = {1, 2}
        /\ 2 \notin {1}
    <3>1. IsFiniteSet({}) /\ IsFiniteSet({1})
      BY FS_EmptySet, FS_Singleton
    <3> QED  BY <3>1
  <2>3. SumOver(f, {} \cup {1}) = f[1] + SumOver(f, {})
    <3>1. \A x \in {} \cup {1} : f[x] \in Int
      BY <2>1
    <3> QED  BY <2>2, <3>1, SumAdd
  <2>4. SumOver(f, {1} \cup {2}) = f[2] + SumOver(f, {1})
    <3>1. \A x \in {1} \cup {2} : f[x] \in Int
      BY <2>1
    <3> QED  BY <2>2, <3>1, SumAdd
  <2> QED  BY <2>1, <2>2, <2>3, <2>4, SumEmpty
<1>5. \/ Fresh(oc1, oc2) = <<>> \/ Fresh(oc1, oc2) = <<oc1>>
      \/ Fresh(oc1, oc2) = <<oc2>> \/ Fresh(oc1, oc2) = <<oc1, oc2>>
  BY FreshCases
<1>6. \/ Fresh(oc1, oc2) = <<>>
      \/ \E a, b \in {oc1, oc2} : Fresh(oc1, oc2) \in OneOrTwo(a, b)
  BY <1>5 DEF OneOrTwo
<1>7. /\ Worth(Fresh(oc1, oc2)) \in Nat
      /\ Worth(Fresh(oc1, oc2)) <= ValueOf(oc1) + ValueOf(oc2)
  <2>1. ValueOf(oc1) \in Nat /\ ValueOf(oc2) \in Nat
    BY <1>1
  <2>2. /\ Worth(<<oc1>>) = ValueOf(oc1) /\ Worth(<<oc2>>) = ValueOf(oc2)
        /\ Worth(<<oc1, oc2>>) = ValueOf(oc1) + ValueOf(oc2)
    BY <1>3, <1>4
  <2> QED  BY <1>2, <1>5, <2>1, <2>2
<1> QED  BY <1>1, <1>6, <1>7

(* A settlement pays from the notes it consumes, and inserts their change. *)
LEMMA SettleWhole ==
  ASSUME WholeNow, NEW oc1 \in Cms, NEW oc2 \in Cms,
         NEW pub \in 0 .. shielded, NEW fee \in 0 .. shielded, NEW gas \in 0 .. shielded,
         NEW recipient \in Accounts, NEW payer \in Accounts,
         Settle(oc1, oc2, pub, recipient, fee, payer, gas)
  PROVE  /\ WholeNow'
         /\ IF Fresh(oc1, oc2) = <<>> THEN SameTree(store, store') /\ log' = log
            ELSE Trees!InsertAll(Fresh(oc1, oc2))
<1> DEFINE fresh == Fresh(oc1, oc2)
           mid == Settled(fresh)
           credited == FeeCredited(mid, payer, fee)
           credit == IF payer # Pool THEN fee ELSE 0
           new == [k \in DOMAIN fresh |->
                     LeafAppended(fresh[k], store[NextIndex] + k - 1, store'[CurrentRoot])]
<1>0. pub \in Nat /\ fee \in Nat /\ gas \in Nat /\ shielded \in Nat /\ balance \in Int
  BY DEF WholeNow, Whole
<1>1. /\ RoomFor(fresh)
      /\ store' = IF pub = 0 THEN credited ELSE AddTo(credited, WithdrawalSlot(recipient), pub)
      /\ log' = log \o new
      /\ published' = store'[CurrentRoot] /\ balance' = balance - gas
      /\ shielded' = shielded - (ValueOf(oc1) + ValueOf(oc2) + pub + fee) + Worth(fresh)
      /\ ValueOf(oc1) + ValueOf(oc2) + pub + fee <= shielded
      /\ gas <= fee /\ (gas = 0) = (payer # Pool)
  BY DEF Settle, PublishRoot
<1>2. /\ fresh = <<>> \/ \E a, b \in Cms : fresh \in OneOrTwo(a, b)
      /\ Worth(fresh) \in Nat /\ Worth(fresh) <= ValueOf(oc1) + ValueOf(oc2)
      /\ ValueOf(oc1) \in Nat /\ ValueOf(oc2) \in Nat
  BY FreshIs
<1>3. /\ CreditsNat(store) /\ Credits(store) \in Int /\ store[NextIndex] \in Nat
      /\ balance >= shielded + Credits(store)
  BY WholeTree, CreditsInt DEF WholeNow, Whole, CreditsNat, Credits
<1> HIDE DEF fresh, new
<1>4. CreditsNat(mid) /\ Credits(mid) = Credits(store)
  <2>1. CASE fresh = <<>>
    BY <1>3, <2>1 DEF Settled
  <2>2. CASE fresh # <<>>
    <3>1. PICK a, b \in Cms : fresh \in OneOrTwo(a, b)
      BY <1>2, <2>2
    <3>2. DOMAIN mid = Slots /\ SameCredits(store, mid)
      <4>1. DOMAIN store = Slots /\ store[NextIndex] \in Nat
        BY <1>3 DEF CreditsNat
      <4> QED  BY <1>1, <3>1, <4>1, SettledCredits
    <3> HIDE DEF mid
    <3> QED  BY <1>3, <3>2, SameCreditsSame
  <2> QED  BY <2>1, <2>2
<1> HIDE DEF mid
<1>5. /\ CreditsNat(credited) /\ Credits(credited) = Credits(mid) + credit
      /\ SameTree(mid, credited)
  <2>1. CASE payer # Pool /\ fee # 0
    <3>1. credited = AddTo(mid, FeeSlot(payer), fee)
      BY <2>1 DEF FeeCredited
    <3> HIDE DEF credited
    <3> QED  BY <1>0, <1>4, <2>1, <3>1, AddedTo
  <2>2. CASE ~(payer # Pool /\ fee # 0)
    <3>1. credited = mid /\ credit = 0
      BY <2>2 DEF FeeCredited
    <3>2. Credits(mid) \in Int
      BY <1>3, <1>4
    <3> QED  BY <1>4, <3>1, <3>2 DEF SameTree
  <2> QED  BY <2>1, <2>2
<1> HIDE DEF credited
<1>6. /\ CreditsNat(store') /\ Credits(store') = Credits(credited) + pub
      /\ SameTree(credited, store')
  <2>1. CASE pub = 0
    <3>1. store' = credited /\ Credits(credited) \in Int
      BY <1>1, <1>5, <2>1, CreditsInt
    <3> QED  BY <1>5, <2>1, <3>1 DEF SameTree
  <2>2. CASE pub # 0
    <3>1. store' = AddTo(credited, WithdrawalSlot(recipient), pub)
      BY <1>1, <2>2
    <3> QED  BY <1>0, <1>5, <3>1, AddedTo
  <2> QED  BY <2>1, <2>2
<1>7. SameTree(mid, store')
  BY <1>5, <1>6 DEF SameTree
<1>8. /\ Trees!TreeOf(FrontierIn(store'), LeavesIn(store'), store'[CurrentRoot], log')
      /\ IF fresh = <<>> THEN SameTree(store, store') /\ log' = log
         ELSE Trees!InsertAll(fresh)
  <2>1. CASE fresh = <<>>
    <3>1. mid = store
      BY <2>1 DEF mid, Settled
    <3>2. log' = log
      <4>1. new = <<>>
        BY <2>1 DEF new
      <4>2. log \in Seq(Trees!Events)
        BY WholeTree
      <4> QED  BY <1>1, <4>1, <4>2, ConcatEmptySeq
    <3> QED  BY <1>7, <2>1, <3>1, <3>2 DEF SameTree, WholeNow, Whole
  <2>2. CASE fresh # <<>>
    <3>1. PICK a, b \in Cms : fresh \in OneOrTwo(a, b)
      BY <1>2, <2>2
    <3> QED  BY <1>1, <1>7, <2>2, <3>1, OperationKeepsTree DEF mid, new
  <2> QED  BY <2>1, <2>2
<1>9. /\ balance' \in Int /\ shielded' \in Nat
      /\ balance' >= shielded' + Credits(store')
  <2> DEFINE out == ValueOf(oc1) + ValueOf(oc2)
             worth == Worth(fresh)
  <2>1. out \in Nat /\ worth \in Nat /\ worth <= out
    BY <1>2
  <2>2. /\ shielded' = shielded - (out + pub + fee) + worth /\ out + pub + fee <= shielded
        /\ balance' = balance - gas /\ gas + credit <= fee /\ credit \in Nat
    <3>1. gas + credit <= fee
      <4>1. CASE payer # Pool
        <5>1. gas = 0
          BY <1>1, <4>1
        <5> QED  BY <1>0, <4>1, <5>1
      <4>2. CASE payer = Pool
        BY <1>0, <1>1, <4>2
      <4> QED  BY <4>1, <4>2
    <3> QED  BY <1>0, <1>1, <1>2, <3>1
  <2>3. Credits(store') = Credits(store) + credit + pub
    BY <1>0, <1>3, <1>4, <1>5, <1>6, <2>2
  <2> HIDE DEF out, worth, credit
  <2> QED  BY <1>0, <1>3, <2>1, <2>2, <2>3
<1> QED  BY <1>1, <1>6, <1>8, <1>9 DEF WholeNow, Whole, CreditsNat, Credits, fresh

(* A claim leaves with the credit it clears; what it began with is kept.   *)
LEMMA ClaimWhole ==
  ASSUME YulInv, NEW a \in Accounts, NEW s, s = WithdrawalSlot(a) \/ s = FeeSlot(a),
         Claim(s, a)
  PROVE  YulInv' /\ SameTree(store, store') /\ log' = log
<1> DEFINE frame == [slot |-> s, store |-> store, published |-> published,
                     balance |-> balance, log |-> log, shielded |-> shielded]
<1>0. WholeNow
  BY DEF YulInv
<1>1. /\ CreditsNat(store) /\ Credits(store) \in Int /\ balance \in Int /\ shielded \in Nat
      /\ DOMAIN store = Slots
      /\ balance >= shielded + Credits(store)
  BY <1>0, CreditsInt DEF WholeNow, Whole, CreditsNat, Credits
<1>2. /\ Writes(store, s, 0, store') /\ balance' = balance - store[s]
      /\ stack' = Append(stack, frame)
      /\ published' = published /\ log' = log /\ shielded' = shielded
  BY DEF Claim, Cleared, Writes
<1>3. DOMAIN store' = Slots /\ SameTree(store, store')
  BY <1>1, <1>2, CreditWrites
<1>4. /\ CreditsNat(store') /\ store[s] \in Nat
      /\ Credits(store') = Credits(store) - store[s]
  <2>1. \A b \in Accounts : store[WithdrawalSlot(b)] \in Nat /\ store[FeeSlot(b)] \in Nat
    BY <1>1 DEF CreditsNat
  <2>2. /\ \A b \in Accounts : store'[WithdrawalSlot(b)] \in Nat /\ store'[FeeSlot(b)] \in Nat
        /\ store[s] \in Nat
        /\ Credits(store') = Credits(store) - store[s] + 0
    BY <1>1, <1>2, <2>1, CreditSum DEF Credits
  <2>3. Credits(store') = Credits(store) - store[s]
    BY <1>1, <2>2
  <2> QED  BY <1>3, <2>2, <2>3 DEF CreditsNat
<1>5. WholeNow'
  <2>1. balance' \in Int /\ balance' >= shielded' + Credits(store')
    BY <1>1, <1>2, <1>4
  <2>2. /\ Trees!TreeOf(FrontierIn(store'), LeavesIn(store'), store'[CurrentRoot], log')
        /\ published' = store'[CurrentRoot]
    BY <1>0, <1>2, <1>3 DEF WholeNow, Whole, SameTree
  <2> QED  BY <1>1, <1>2, <1>4, <2>1, <2>2 DEF WholeNow, Whole, CreditsNat, Credits
<1>6. \E S : /\ stack' \in Seq(S)
             /\ \A f \in S : Whole(f.store, f.published, f.balance, f.log, f.shielded)
  <2>1. PICK S : /\ stack \in Seq(S)
                 /\ \A f \in S : Whole(f.store, f.published, f.balance, f.log, f.shielded)
    BY DEF YulInv
  <2>2. stack \in Seq(S \cup {frame})
    BY <2>1, SeqMonotonic
  <2>3. Whole(frame.store, frame.published, frame.balance, frame.log, frame.shielded)
    BY <1>0 DEF WholeNow
  <2> HIDE DEF frame
  <2>4. stack' \in Seq(S \cup {frame})
    BY <1>2, <2>2
  <2> QED  BY <2>1, <2>3, <2>4
<1> QED  BY <1>2, <1>3, <1>5, <1>6 DEF YulInv

(* The innermost open claim, and the others.                               *)
LEMMA FrontOf ==
  ASSUME NEW S, NEW s \in Seq(S), s # <<>>
  PROVE  Front(s) \in Seq(S) /\ Last(s) \in S
<1>1. Len(s) \in Nat \ {0} /\ s[Len(s)] \in S
  OBVIOUS
<1>2. SubSeq(s, 1, Len(s) - 1) \in Seq(S)
  BY <1>1, SubSeqProperties
<1> QED  BY <1>1, <1>2 DEF Front, Last

(* A payee that returns changes nothing.                                   *)
LEMMA ReturnWhole ==
  ASSUME YulInv, PayeeReturns
  PROVE  YulInv' /\ store' = store /\ log' = log
<1>1. /\ store' = store /\ published' = published /\ balance' = balance /\ log' = log
      /\ shielded' = shielded /\ stack # <<>> /\ stack' = Front(stack)
  BY DEF PayeeReturns, Cleared
<1>2. WholeNow'
  BY <1>1 DEF YulInv, WholeNow
<1>3. \E S : /\ stack' \in Seq(S)
             /\ \A f \in S : Whole(f.store, f.published, f.balance, f.log, f.shielded)
  BY <1>1, FrontOf DEF YulInv
<1> QED  BY <1>1, <1>2, <1>3 DEF YulInv

(* A payee that reverts brings back a state that was whole.                *)
LEMMA RevertWhole == YulInv /\ PayeeReverts => YulInv'
<1> SUFFICES ASSUME YulInv, PayeeReverts PROVE YulInv'
  OBVIOUS
<1> DEFINE before == Last(stack)
<1>1. /\ store' = before.store /\ published' = before.published /\ balance' = before.balance
      /\ log' = before.log /\ shielded' = before.shielded
      /\ stack # <<>> /\ stack' = Front(stack)
  BY DEF PayeeReverts
<1>2. PICK S : /\ stack \in Seq(S)
               /\ \A f \in S : Whole(f.store, f.published, f.balance, f.log, f.shielded)
  BY DEF YulInv
<1>3. before \in S /\ stack' \in Seq(S)
  BY <1>1, <1>2, FrontOf
<1> HIDE DEF before
<1>4. WholeNow'
  BY <1>1, <1>2, <1>3 DEF WholeNow
<1> QED  BY <1>2, <1>3, <1>4 DEF YulInv

-----------------------------------------------------------------------------
(* Every step *)

(* A settlement keeps the invariant.                                       *)
LEMMA SpendStep ==
  ASSUME YulInv, NEW oc1 \in Cms, NEW oc2 \in Cms,
         NEW pub \in 0 .. shielded, NEW fee \in 0 .. shielded, NEW gas \in 0 .. shielded,
         NEW recipient \in Accounts, NEW payer \in Accounts,
         Settle(oc1, oc2, pub, recipient, fee, payer, gas)
  PROVE  YulInv'
<1>1. WholeNow' /\ stack' = stack
  BY SettleWhole DEF YulInv, Settle
<1> QED  BY <1>1 DEF YulInv

(* Every step keeps it, callbacks and reverts included.                    *)
LEMMA EveryStep == YulInv /\ [Next]_vars => YulInv'
<1> SUFFICES ASSUME YulInv, [Next]_vars PROVE YulInv'
  OBVIOUS
<1>1. ASSUME NEW i \in Inners, NEW v \in 0 .. MaxValue, Shield(i, v) PROVE YulInv'
  <2>1. WholeNow' /\ stack' = stack
    BY <1>1, ShieldWhole DEF YulInv, Shield
  <2> QED  BY <2>1 DEF YulInv
<1>2. ASSUME NEW oc1 \in Cms, NEW oc2 \in Cms,
             NEW pub \in 0 .. shielded, NEW fee \in 0 .. shielded, NEW gas \in 0 .. shielded,
             NEW recipient \in Accounts, NEW payer \in Accounts,
             Settle(oc1, oc2, pub, recipient, fee, payer, gas)
      PROVE  YulInv'
  BY <1>2, SpendStep
<1>3. ASSUME NEW who \in Accounts, ClaimWithdrawal(who) \/ ClaimFee(who) PROVE YulInv'
  <2>1. Claim(WithdrawalSlot(who), who) \/ Claim(FeeSlot(who), who)
    BY <1>3 DEF ClaimWithdrawal, ClaimFee
  <2> QED  BY <2>1, ClaimWhole
<1>4. CASE PayeeReturns
  BY <1>4, ReturnWhole
<1>5. CASE PayeeReverts
  BY <1>5, RevertWhole
<1>6. CASE UNCHANGED vars
  BY <1>6 DEF vars, YulInv, WholeNow
<1> QED  BY <1>1, <1>2, <1>3, <1>4, <1>5, <1>6 DEF Next

(* So it always holds.                                                     *)
LEMMA YulAlways == Spec => []YulInv
BY InitWhole, EveryStep, PTL DEF Spec

(* In every state, callbacks included, the root at the predeploy is the    *)
(* root of the full tree over the events.                                  *)
THEOREM PublishedIsRebuilt == Spec => []PublishedRebuilds
<1>1. ASSUME YulInv PROVE PublishedRebuilds
  <2>1. /\ Trees!TreeOf(FrontierIn(store), LeavesIn(store), store[CurrentRoot], log)
        /\ published = store[CurrentRoot]
    BY <1>1 DEF YulInv, WholeNow, Whole
  <2>2. published = Trees!Root(Trees!LeavesOf(log)) /\ Trees!Numbered(log)
    BY <2>1 DEF Trees!TreeOf
  <2>3. Trees!Rebuilt(log) = Trees!LeavesOf(log)
    BY <2>2, Constants, Trees!RebuiltLeaves
  <2> QED  BY <2>2, <2>3, OneFullTree DEF PublishedRebuilds
<1> QED  BY <1>1, YulAlways, PTL

(* Whenever foreign code runs, the pool's ETH covers the notes and every   *)
(* credit that can still be claimed.                                       *)
THEOREM CoveredDuringCalls == Spec => []CoveredAtEveryCall
<1>1. YulInv => CoveredAtEveryCall
  BY DEF YulInv, WholeNow, Whole, CreditOf, CoveredAtEveryCall
<1> QED  BY <1>1, YulAlways, PTL

(* An operation of the one reference is one of the other.                  *)
LEMMA OneInsertion == ASSUME NEW fresh PROVE Trees!InsertAll(fresh) => Tree!InsertAll(fresh)
BY OneReference DEF Trees!InsertAll, Tree!InsertAll

(* The same tree and events are a stuttering step of the reference.        *)
LEMMA TreeUnchanged ==
  ASSUME SameTree(store, store'), log' = log
  PROVE  UNCHANGED Tree!vars
<1>1. FrontierIn(store').filled = FrontierIn(store).filled
      /\ FrontierIn(store').next = FrontierIn(store).next
  BY DEF SameTree
<1>2. /\ [l \in 0 .. Depth |-> store'[Slot(l)]] = [l \in 0 .. Depth |-> store[Slot(l)]]
      /\ store'[NextIndex] = store[NextIndex]
  BY <1>1 DEF FrontierIn
<1>3. {cm \in Cms : IsLeaf(store', cm)} = {cm \in Cms : IsLeaf(store, cm)}
  BY DEF SameTree, LeavesIn
<1> QED  BY <1>2, <1>3 DEF SameTree, Tree!vars, Tree!pool

(* Except for a payee that reverts, every step does to the tree what the   *)
(* Solidity pool's operations do, or nothing.                              *)
THEOREM TreeStepsAreReference == Spec => TreeStepsLikeReference
<1> DEFINE Like == PayeeReverts \/ [Tree!Next]_(Tree!vars)
<1>1. ASSUME YulInv, [Next]_vars PROVE Like
  <2>1. ASSUME NEW i \in Inners, NEW v \in 0 .. MaxValue, Shield(i, v) PROVE Tree!Next
    <3> DEFINE cm == Cm(i, v)
    <3>1. cm \in Cms
      BY <2>1, Constants DEF Shield, Cms
    <3>2. Tree!InsertAll(<<cm>>) /\ ~IsLeaf(store, cm)
      BY <1>1, <2>1, ShieldWhole, OneInsertion DEF YulInv
    <3> HIDE DEF cm
    <3>3. Tree!Shield(cm)
      BY <3>2 DEF Tree!Shield
    <3> QED  BY <3>1, <3>3 DEF Tree!Next
  <2>2. ASSUME NEW oc1 \in Cms, NEW oc2 \in Cms,
               NEW pub \in 0 .. shielded, NEW fee \in 0 .. shielded, NEW gas \in 0 .. shielded,
               NEW recipient \in Accounts, NEW payer \in Accounts,
               Settle(oc1, oc2, pub, recipient, fee, payer, gas)
        PROVE  Tree!Next \/ UNCHANGED Tree!vars
    <3> DEFINE fresh == Fresh(oc1, oc2)
    <3>1. IF fresh = <<>> THEN SameTree(store, store') /\ log' = log
          ELSE Trees!InsertAll(fresh)
      BY <1>1, <2>2, SettleWhole DEF YulInv
    <3>2. CASE fresh = <<>>
      BY <3>1, <3>2, TreeUnchanged
    <3>3. CASE fresh # <<>>
      <4>1. Tree!InsertAll(fresh)
        BY <3>1, <3>3, OneInsertion
      <4>2. \/ /\ fresh = <<oc1, oc2>>
               /\ ~IsLeaf(store, oc1) /\ ~IsLeaf(store, oc2) /\ oc2 # oc1
            \/ /\ fresh = <<oc1>> /\ ~IsLeaf(store, oc1)
               /\ ~(~IsLeaf(store, oc2) /\ oc2 # oc1)
            \/ /\ fresh = <<oc2>> /\ IsLeaf(store, oc1)
               /\ ~IsLeaf(store, oc2) /\ oc2 # oc1
        BY <3>3, FreshCases
      <4> HIDE DEF fresh
      <4>3. Tree!Settle(oc1, oc2)
        BY <4>1, <4>2 DEF Tree!Settle
      <4> QED  BY <4>3 DEF Tree!Next
    <3> QED  BY <3>2, <3>3
  <2>3. ASSUME NEW who \in Accounts, ClaimWithdrawal(who) \/ ClaimFee(who)
        PROVE  UNCHANGED Tree!vars
    <3>1. Claim(WithdrawalSlot(who), who) \/ Claim(FeeSlot(who), who)
      BY <2>3 DEF ClaimWithdrawal, ClaimFee
    <3>2. SameTree(store, store') /\ log' = log
      BY <1>1, <3>1, ClaimWhole
    <3> QED  BY <3>2, TreeUnchanged
  <2>4. CASE PayeeReturns
    <3>1. SameTree(store, store') /\ log' = log
      BY <1>1, <2>4, ReturnWhole DEF SameTree
    <3> QED  BY <3>1, TreeUnchanged
  <2>5. CASE UNCHANGED vars
    <3>1. SameTree(store, store') /\ log' = log
      BY <2>5 DEF vars, SameTree
    <3> QED  BY <3>1, TreeUnchanged
  <2> QED  BY <1>1, <2>1, <2>2, <2>3, <2>4, <2>5 DEF Next
<1>2. YulInv /\ [Next]_vars => [Like]_vars
  BY <1>1
<1> QED  BY <1>2, YulAlways, PTL DEF Spec, TreeStepsLikeReference

=============================================================================
