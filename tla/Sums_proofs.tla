---------------------------- MODULE Sums_proofs -----------------------------
(***************************************************************************)
(* Lemmas about sums over finite sets, and about indices.                  *)
(***************************************************************************)
EXTENDS Sums, FiniteSetTheorems, TLAPS

(* Every nonempty family of subsets of a finite set has a member none of   *)
(* whose proper subsets is in the family. With it, what would be an        *)
(* induction over finite sets is an argument about a smallest              *)
(* counterexample, which needs no induction principle with an operator     *)
(* parameter.                                                              *)
LEMMA SmallestSet ==
  ASSUME NEW S, IsFiniteSet(S), NEW B \in SUBSET SUBSET S, B # {}
  PROVE \E T \in B : \A U \in SUBSET T : U # T => U \notin B
<1>1. IsWellFoundedOn(StrictSubsetOrdering(S), FiniteSubsetsOf(S))
  BY FS_StrictSubsetOrderingWellFounded
<1>2. B \subseteq FiniteSubsetsOf(S)
  BY FS_Subset DEF FiniteSubsetsOf
<1>3. PICK T \in B : \A U \in B : ~(<<U, T>> \in StrictSubsetOrdering(S))
  BY <1>1, <1>2, WFMin
<1>4. ASSUME NEW U \in SUBSET T, U # T, U \in B PROVE FALSE
  BY <1>2, <1>3, <1>4 DEF StrictSubsetOrdering, FiniteSubsetsOf
<1> QED BY <1>3, <1>4

-----------------------------------------------------------------------------
(* The table of partial sums *)

(* the element the fold takes next                                         *)
Pick(s) == CHOOSE x \in s : TRUE

(* g is the table of partial sums that the fold tabulates for S            *)
Partial(g, f, S) ==
  g = [s \in SUBSET S |-> IF s = {} THEN 0 ELSE f[Pick(s)] + g[s \ {Pick(s)}]]

(* The fold takes an element of the set.                                   *)
LEMMA PickIn == ASSUME NEW s, s # {} PROVE Pick(s) \in s
BY DEF Pick

(* The sum is the last entry of such a table.                              *)
LEMMA SumUnfold ==
  ASSUME NEW f, NEW S
  PROVE  SumOver(f, S) = (CHOOSE g : Partial(g, f, S))[S]
BY DEF SumOver, MapThenSumSet, MapThenFoldSet, Partial, Pick

(* What a table holds for the empty set and for any other set.             *)
LEMMA PartialAt ==
  ASSUME NEW f, NEW S, NEW g, Partial(g, f, S)
  PROVE  /\ g[{}] = 0
         /\ \A s \in SUBSET S : s # {} =>
              /\ g[s] = f[Pick(s)] + g[s \ {Pick(s)}]
              /\ Pick(s) \in s
              /\ s \ {Pick(s)} \in SUBSET S /\ s \ {Pick(s)} # s
<1>1. \A s \in SUBSET S : g[s] = IF s = {} THEN 0 ELSE f[Pick(s)] + g[s \ {Pick(s)}]
  BY Zenon DEF Partial
<1> QED
  BY <1>1, PickIn

(* Two tables agree on a set on which the functions they sum agree.        *)
LEMMA PartialUnique ==
  ASSUME NEW f, NEW e, NEW S, NEW T, NEW g, NEW h, Partial(g, f, S), Partial(h, e, T),
         NEW s, IsFiniteSet(s), s \subseteq S, s \subseteq T,
         \A x \in s : f[x] = e[x]
  PROVE  g[s] = h[s]
<1> DEFINE B == {u \in SUBSET s : g[u] # h[u]}
<1>1. B \in SUBSET SUBSET s
  OBVIOUS
<1>2. ASSUME NEW u \in B, \A v \in SUBSET u : v # u => v \notin B PROVE FALSE
  <2>1. u # {}
    <3>1. g[{}] = 0 /\ h[{}] = 0
      BY PartialAt
    <3> QED
      BY <3>1
  <2>2. /\ g[u] = f[Pick(u)] + g[u \ {Pick(u)}]
        /\ h[u] = e[Pick(u)] + h[u \ {Pick(u)}]
        /\ Pick(u) \in u /\ u \ {Pick(u)} # u
    <3>1. u \in SUBSET S /\ u \in SUBSET T
      OBVIOUS
    <3> QED
      BY <2>1, <3>1, PartialAt
  <2>3. g[u \ {Pick(u)}] = h[u \ {Pick(u)}]
    BY <1>2, <2>2
  <2>4. f[Pick(u)] = e[Pick(u)]
    BY <2>2
  <2> QED
    BY <2>2, <2>3, <2>4
<1>3. B = {}
  <2> HIDE DEF B
  <2> QED
    BY <1>1, <1>2, SmallestSet
<1> QED
  BY <1>3

(* A table for a set is one for each of its subsets.                       *)
LEMMA PartialRestrict ==
  ASSUME NEW f, NEW S, NEW g, Partial(g, f, S), NEW T \in SUBSET S
  PROVE  Partial([s \in SUBSET T |-> g[s]], f, T)
<1> DEFINE h == [s \in SUBSET T |-> g[s]]
<1>1. ASSUME NEW s \in SUBSET T
      PROVE  g[s] = IF s = {} THEN 0 ELSE f[Pick(s)] + h[s \ {Pick(s)}]
  <2>1. s \ {Pick(s)} \in SUBSET T /\ h[s \ {Pick(s)}] = g[s \ {Pick(s)}]
    OBVIOUS
  <2>2. s \in SUBSET S /\ g[{}] = 0
    BY PartialAt
  <2>3. s # {} => g[s] = f[Pick(s)] + g[s \ {Pick(s)}]
    BY <2>2, PartialAt
  <2> QED
    BY <2>1, <2>2, <2>3
<1> QED
  BY <1>1 DEF Partial

(* There is a table for every finite set.                                  *)
LEMMA PartialExists ==
  ASSUME NEW f, NEW S, IsFiniteSet(S)
  PROVE  \E g : Partial(g, f, S)
<1> DEFINE B == {T \in SUBSET S : ~ \E g : Partial(g, f, T)}
           Fn(T) == CHOOSE g : Partial(g, f, T)
<1>1. ASSUME NEW T \in SUBSET S, \A U \in SUBSET T : U # T => U \notin B
      PROVE  T \notin B
  <2> DEFINE G == [s \in SUBSET T |->
                     IF s = {} THEN 0 ELSE f[Pick(s)] + Fn(s \ {Pick(s)})[s \ {Pick(s)}]]
  <2>1. ASSUME NEW U \in SUBSET T, U # T PROVE Partial(Fn(U), f, U)
    BY <1>1, <2>1
  <2>2. ASSUME NEW U \in SUBSET T, U # T PROVE Fn(U)[U] = G[U]
    <3>1. CASE U = {}
      BY <2>1, <2>2, <3>1, PartialAt
    <3>2. CASE U # {}
      <4> DEFINE V == U \ {Pick(U)}
      <4>1. V \in SUBSET U /\ V # U /\ V # T
        BY <3>2, PickIn
      <4>2. Partial(Fn(U), f, U) /\ Partial(Fn(V), f, V)
        BY <2>1, <2>2, <4>1
      <4>3. Fn(U)[V] = Fn(V)[V]
        <5> HIDE DEF Fn
        <5>1. IsFiniteSet(V)
          BY <4>1, FS_Subset
        <5> QED
          BY <4>1, <4>2, <5>1, PartialUnique
      <4>4. Fn(U)[U] = f[Pick(U)] + Fn(U)[V]
        BY <3>2, <4>2, PartialAt
      <4>5. G[U] = f[Pick(U)] + Fn(V)[V]
        BY <3>2
      <4> QED
        BY <4>3, <4>4, <4>5
    <3> QED
      BY <3>1, <3>2
  <2>3. ASSUME NEW s \in SUBSET T, s # {}
        PROVE  Fn(s \ {Pick(s)})[s \ {Pick(s)}] = G[s \ {Pick(s)}]
    <3>1. s \ {Pick(s)} \in SUBSET T /\ s \ {Pick(s)} # T
      BY <2>3, PickIn
    <3> QED
      BY <2>2, <3>1
  <2>4. G = [s \in SUBSET T |-> IF s = {} THEN 0 ELSE f[Pick(s)] + G[s \ {Pick(s)}]]
    <3>1. ASSUME NEW s \in SUBSET T
          PROVE  (IF s = {} THEN 0 ELSE f[Pick(s)] + Fn(s \ {Pick(s)})[s \ {Pick(s)}])
                 = (IF s = {} THEN 0 ELSE f[Pick(s)] + G[s \ {Pick(s)}])
      <4> HIDE DEF G, Fn
      <4> QED
        BY <2>3
    <3> DEFINE H == [s \in SUBSET T |-> IF s = {} THEN 0 ELSE f[Pick(s)] + G[s \ {Pick(s)}]]
    <3>2. ASSUME NEW s \in SUBSET T PROVE G[s] = H[s]
      <4>1. G[s] = IF s = {} THEN 0 ELSE f[Pick(s)] + Fn(s \ {Pick(s)})[s \ {Pick(s)}]
        BY Zenon
      <4>2. H[s] = IF s = {} THEN 0 ELSE f[Pick(s)] + G[s \ {Pick(s)}]
        <5> HIDE DEF G
        <5> QED
          BY Zenon
      <4> HIDE DEF G, H, Fn
      <4> QED
        BY <3>1, <4>1, <4>2
    <3>3. DOMAIN G = SUBSET T /\ DOMAIN H = SUBSET T
      OBVIOUS
    <3>4. G = [s \in SUBSET T |-> G[s]] /\ H = [s \in SUBSET T |-> H[s]]
      OBVIOUS
    <3>5. G = H
      <4> HIDE DEF G, H
      <4> QED
        BY <3>2, <3>3, <3>4
    <3> QED
      BY <3>5
  <2>5. Partial(G, f, T)
    <3> HIDE DEF G
    <3> QED BY <2>4 DEF Partial
  <2> QED
    BY <2>5
<1>2. B = {}
  <2>1. B \in SUBSET SUBSET S
    OBVIOUS
  <2> HIDE DEF B
  <2> QED
    BY <1>1, <2>1, SmallestSet
<1> QED
  BY <1>2

-----------------------------------------------------------------------------
(* Sums *)

(* The sum over a finite set is read from a table that exists.             *)
LEMMA SumPartial ==
  ASSUME NEW f, NEW S, IsFiniteSet(S)
  PROVE  \E g : Partial(g, f, S) /\ SumOver(f, S) = g[S]
BY PartialExists, SumUnfold

(* Nothing sums to zero.                                                   *)
LEMMA SumEmpty == ASSUME NEW f PROVE SumOver(f, {}) = 0
BY SumPartial, PartialAt, FS_EmptySet

(* The sum depends on the function's values on the set only.               *)
LEMMA SumSame ==
  ASSUME NEW f, NEW g, NEW S, IsFiniteSet(S), \A x \in S : f[x] = g[x]
  PROVE  SumOver(f, S) = SumOver(g, S)
<1>1. PICK p : Partial(p, f, S) /\ SumOver(f, S) = p[S]
  BY SumPartial
<1>2. PICK q : Partial(q, g, S) /\ SumOver(g, S) = q[S]
  BY SumPartial
<1>3. p[S] = q[S]
  BY <1>1, <1>2, PartialUnique
<1> QED
  BY <1>1, <1>2, <1>3

(* The sum is some element's value and the sum over the others.            *)
LEMMA SumStep ==
  ASSUME NEW f, NEW S, IsFiniteSet(S), S # {}
  PROVE  \E x \in S : SumOver(f, S) = f[x] + SumOver(f, S \ {x})
<1>1. PICK g : Partial(g, f, S) /\ SumOver(f, S) = g[S]
  BY SumPartial
<1> DEFINE x == Pick(S)  T == S \ {x}
<1>2. IsFiniteSet(T) /\ T \subseteq S
  BY FS_RemoveElement
<1>3. PICK h : Partial(h, f, T) /\ SumOver(f, T) = h[T]
  BY <1>2, SumPartial
<1>4. g[T] = h[T]
  <2> HIDE DEF T
  <2> QED
    BY <1>1, <1>2, <1>3, PartialUnique
<1>5. x \in S /\ g[S] = f[x] + g[T]
  BY <1>1, PartialAt
<1> QED
  BY <1>1, <1>3, <1>4, <1>5

(* Zeros sum to zero.                                                      *)
LEMMA SumZero ==
  ASSUME NEW S, IsFiniteSet(S)
  PROVE  SumOver([x \in S |-> 0], S) = 0
<1> DEFINE f == [x \in S |-> 0]
           B == {T \in SUBSET S : SumOver(f, T) # 0}
<1>0. \A x \in S : f[x] = 0
  OBVIOUS
<1> HIDE DEF f
<1>1. ASSUME NEW T \in B, \A U \in SUBSET T : U # T => U \notin B PROVE FALSE
  <2>1. T # {}
    BY SumEmpty
  <2>2. PICK x \in T : SumOver(f, T) = f[x] + SumOver(f, T \ {x})
    BY <2>1, SumStep, FS_Subset
  <2>3. SumOver(f, T \ {x}) = 0 /\ f[x] = 0
    BY <1>0, <1>1
  <2> QED
    BY <2>2, <2>3
<1>2. B \in SUBSET SUBSET S
  OBVIOUS
<1>3. B = {}
  <2> HIDE DEF B
  <2> QED
    BY <1>1, <1>2, SmallestSet
<1>4. SumOver(f, S) = 0
  BY <1>3
<1> QED
  BY <1>4 DEF f

(* A sum of integers is an integer.                                        *)
LEMMA SumInt ==
  ASSUME NEW f, NEW S, IsFiniteSet(S), \A x \in S : f[x] \in Int
  PROVE  SumOver(f, S) \in Int
<1> DEFINE B == {T \in SUBSET S : SumOver(f, T) \notin Int}
<1>1. ASSUME NEW T \in B, \A U \in SUBSET T : U # T => U \notin B PROVE FALSE
  <2>1. T # {}
    BY SumEmpty
  <2>2. PICK x \in T : SumOver(f, T) = f[x] + SumOver(f, T \ {x})
    BY <2>1, SumStep, FS_Subset
  <2>3. SumOver(f, T \ {x}) \in Int
    BY <1>1
  <2> QED
    BY <2>2, <2>3
<1>2. B \in SUBSET SUBSET S
  OBVIOUS
<1>3. B = {}
  <2> HIDE DEF B
  <2> QED
    BY <1>1, <1>2, SmallestSet
<1> QED
  BY <1>3

(* A sum of naturals is a natural.                                         *)
LEMMA SumNat ==
  ASSUME NEW f, NEW S, IsFiniteSet(S), \A x \in S : f[x] \in Nat
  PROVE  SumOver(f, S) \in Nat
<1> DEFINE B == {T \in SUBSET S : SumOver(f, T) \notin Nat}
<1>1. ASSUME NEW T \in B, \A U \in SUBSET T : U # T => U \notin B PROVE FALSE
  <2>1. T # {}
    BY SumEmpty
  <2>2. PICK x \in T : SumOver(f, T) = f[x] + SumOver(f, T \ {x})
    BY <2>1, SumStep, FS_Subset
  <2>3. SumOver(f, T \ {x}) \in Nat
    BY <1>1
  <2> QED
    BY <2>2, <2>3
<1>2. B \in SUBSET SUBSET S
  OBVIOUS
<1>3. B = {}
  <2> HIDE DEF B
  <2> QED
    BY <1>1, <1>2, SmallestSet
<1> QED
  BY <1>3

(* The order of summation does not matter: any element can be taken out.   *)
LEMMA SumRemove ==
  ASSUME NEW f, NEW S, IsFiniteSet(S), \A x \in S : f[x] \in Int, NEW y \in S
  PROVE  SumOver(f, S) = f[y] + SumOver(f, S \ {y})
<1> DEFINE B == {T \in SUBSET S : \E z \in T : SumOver(f, T) # f[z] + SumOver(f, T \ {z})}
<1>1. ASSUME NEW T \in B, \A U \in SUBSET T : U # T => U \notin B PROVE FALSE
  <2>1. PICK z \in T : SumOver(f, T) # f[z] + SumOver(f, T \ {z})
    OBVIOUS
  <2>2. IsFiniteSet(T)
    BY FS_Subset
  <2>3. PICK x \in T : SumOver(f, T) = f[x] + SumOver(f, T \ {x})
    BY <2>1, <2>2, SumStep
  <2>4. x # z
    BY <2>1, <2>3
  <2>5. T \ {x} \notin B /\ T \ {z} \notin B
    BY <1>1
  <2>6. SumOver(f, T \ {x}) = f[z] + SumOver(f, (T \ {x}) \ {z})
    BY <2>4, <2>5
  <2>7. SumOver(f, T \ {z}) = f[x] + SumOver(f, (T \ {z}) \ {x})
    BY <2>4, <2>5
  <2>8. (T \ {x}) \ {z} = (T \ {z}) \ {x}
    OBVIOUS
  <2>9. SumOver(f, (T \ {x}) \ {z}) \in Int /\ f[x] \in Int /\ f[z] \in Int
    <3>1. IsFiniteSet((T \ {x}) \ {z})
      BY <2>2, FS_RemoveElement
    <3> QED
      BY <3>1, SumInt
  <2>10. SumOver(f, T) = f[x] + (f[z] + SumOver(f, (T \ {x}) \ {z}))
    BY <2>3, <2>6
  <2>11. f[z] + SumOver(f, T \ {z}) = f[z] + (f[x] + SumOver(f, (T \ {x}) \ {z}))
    BY <2>7, <2>8
  <2> HIDE DEF B
  <2> QED
    BY <2>1, <2>9, <2>10, <2>11
<1>2. B \in SUBSET SUBSET S
  OBVIOUS
<1>3. B = {}
  <2> HIDE DEF B
  <2> QED
    BY <1>1, <1>2, SmallestSet
<1> QED
  BY <1>3

(* A new element adds its value.                                           *)
LEMMA SumAdd ==
  ASSUME NEW f, NEW S, IsFiniteSet(S), NEW y, y \notin S,
         \A x \in S \cup {y} : f[x] \in Int
  PROVE  SumOver(f, S \cup {y}) = f[y] + SumOver(f, S)
<1>1. IsFiniteSet(S \cup {y}) /\ (S \cup {y}) \ {y} = S
  BY FS_AddElement
<1> QED
  BY <1>1, SumRemove

(* An element, new or not, adds at most its value.                         *)
LEMMA SumAtMost ==
  ASSUME NEW f, NEW S, IsFiniteSet(S), NEW y, \A x \in S \cup {y} : f[x] \in Nat
  PROVE  SumOver(f, S \cup {y}) <= f[y] + SumOver(f, S)
<1>1. SumOver(f, S) \in Nat
  BY SumNat
<1>2. CASE y \in S
  <2>1. S \cup {y} = S
    BY <1>2
  <2>2. SumOver(f, S \cup {y}) = SumOver(f, S) /\ f[y] \in Nat
    BY <2>1
  <2> QED
    BY <1>1, <2>2
<1>3. CASE y \notin S
  BY <1>1, <1>3, SumAdd
<1> QED
  BY <1>2, <1>3

(* A subset sums to no more than the set.                                  *)
LEMMA SumSubset ==
  ASSUME NEW f, NEW S, IsFiniteSet(S), \A x \in S : f[x] \in Nat, NEW T \in SUBSET S
  PROVE  SumOver(f, T) <= SumOver(f, S)
<1> DEFINE B == {U \in SUBSET S : T \subseteq U /\ ~(SumOver(f, T) <= SumOver(f, U))}
<1>0. SumOver(f, T) \in Nat
  BY SumNat, FS_Subset
<1>1. ASSUME NEW U \in B, \A V \in SUBSET U : V # U => V \notin B PROVE FALSE
  <2>1. U # T
    BY <1>0
  <2>2. PICK x \in U : x \notin T
    BY <2>1
  <2>3. SumOver(f, T) <= SumOver(f, U \ {x})
    BY <1>1, <2>2
  <2>4. IsFiniteSet(U) /\ IsFiniteSet(U \ {x})
    BY FS_Subset
  <2>5. SumOver(f, U) = f[x] + SumOver(f, U \ {x}) /\ SumOver(f, U \ {x}) \in Nat
    BY <2>4, SumRemove, SumNat
  <2> QED
    BY <1>0, <2>3, <2>5
<1>2. B \in SUBSET SUBSET S
  OBVIOUS
<1>3. B = {}
  <2> HIDE DEF B
  <2> QED
    BY <1>1, <1>2, SmallestSet
<1> QED
  BY <1>3

(* Changing the function at one element changes the sum by as much.       *)
LEMMA SumChanged ==
  ASSUME NEW f, NEW g, NEW S, IsFiniteSet(S), NEW y \in S,
         \A x \in S : f[x] \in Int /\ g[x] \in Int /\ (x # y => g[x] = f[x])
  PROVE  SumOver(g, S) = SumOver(f, S) - f[y] + g[y]
<1>1. SumOver(g, S \ {y}) = SumOver(f, S \ {y}) /\ SumOver(f, S \ {y}) \in Int
  <2>1. IsFiniteSet(S \ {y}) /\ \A x \in S \ {y} : g[x] = f[x] /\ f[x] \in Int
    BY FS_RemoveElement
  <2> QED
    BY <2>1, SumSame, SumInt
<1>2. /\ SumOver(g, S) = g[y] + SumOver(g, S \ {y})
      /\ SumOver(f, S) = f[y] + SumOver(f, S \ {y})
  BY SumRemove
<1> QED
  BY <1>1, <1>2

-----------------------------------------------------------------------------
(* Indices *)

(* A nonempty set of indices has one whose predecessor is not in it.       *)
LEMMA SmallestIndex ==
  ASSUME NEW m \in Nat, NEW B \in SUBSET (0 .. m), B # {}
  PROVE  \E k \in B : k = 0 \/ k - 1 \notin B
<1> DEFINE F == {0 .. k : k \in B}
<1>1. F \in SUBSET SUBSET (0 .. m) /\ F # {} /\ IsFiniteSet(0 .. m)
  <2>1. \A k \in B : 0 .. k \subseteq 0 .. m
    OBVIOUS
  <2>2. F # {}
    OBVIOUS
  <2>3. IsFiniteSet(0 .. m)
    BY FS_Interval, 0 \in Int, m \in Int
  <2> QED  BY <2>1, <2>2, <2>3
<1>2. PICK S \in F : \A U \in SUBSET S : U # S => U \notin F
  <2> HIDE DEF F
  <2> QED  BY <1>1, SmallestSet
<1>3. PICK k \in B : S = 0 .. k
  BY <1>2
<1>4. ASSUME k # 0, k - 1 \in B PROVE FALSE
  <2>1. 0 .. k - 1 \in F /\ 0 .. k - 1 \in SUBSET S /\ k \in S /\ k \notin 0 .. k - 1
    BY <1>3, <1>4
  <2> QED  BY <1>2, <2>1
<1> QED  BY <1>4

(* What holds at 0, and at each next index, holds at every index.          *)
LEMMA Upwards ==
  ASSUME NEW m \in Nat, NEW B, 0 \in B, \A k \in 0 .. m - 1 : k \in B => k + 1 \in B
  PROVE  \A k \in 0 .. m : k \in B
<1> DEFINE Missing == {k \in 0 .. m : k \notin B}
<1>1. ASSUME NEW k \in Missing, k = 0 \/ k - 1 \notin Missing PROVE FALSE
  <2>1. k # 0 /\ k - 1 \in 0 .. m - 1
    OBVIOUS
  <2>2. k - 1 \in B /\ (k - 1) + 1 = k
    BY <1>1, <2>1
  <2> QED  BY <2>1, <2>2
<1>2. Missing = {}
  <2>1. Missing \in SUBSET (0 .. m)
    OBVIOUS
  <2> HIDE DEF Missing
  <2> QED  BY <1>1, <2>1, SmallestIndex
<1> QED  BY <1>2

(* A nonempty set of indices has a least one.                              *)
LEMMA LeastIndex ==
  ASSUME NEW m \in Nat, NEW B \in SUBSET (1 .. m), B # {}
  PROVE  \E k \in B : \A j \in B : k <= j
<1> DEFINE Under == {k \in 0 .. m : \A j \in B : j > k}
<1>1. SUFFICES ASSUME \A k \in B : \E j \in B : ~(k <= j) PROVE FALSE
  OBVIOUS
<1>2. 0 \in Under
  OBVIOUS
<1>3. ASSUME NEW k \in 0 .. m - 1, k \in Under PROVE k + 1 \in Under
  <2>1. \A j \in B : j \in 1 .. m /\ j >= k + 1
    BY <1>3
  <2>2. k + 1 \notin B
    BY <1>1, <2>1
  <2>3. \A j \in B : j > k + 1
    BY <2>1, <2>2
  <2>. QED  BY <2>3
<1>4. m \in Under
  <2> HIDE DEF Under
  <2>1. \A k \in 0 .. m : k \in Under
    BY <1>2, <1>3, Upwards
  <2>. QED  BY <2>1
<1>5. PICK j \in B : j > m
  BY <1>4
<1>. QED  BY <1>5

=============================================================================
