----------------------------- MODULE MerkleTree -----------------------------
(***************************************************************************)
(* The note-commitment tree on both sides: the write-only frontier the     *)
(* contract keeps (_insert, _computeRoot) and the full tree a wallet       *)
(* rebuilds from the LeafAppended events (gen_nonce_race.seeded_tree and   *)
(* wallet.Tree).  Poseidon2 is the pair constructor, so it is collision-   *)
(* free, and nodes of different levels differ.                             *)
(*                                                                         *)
(* A wallet reads the events and the root in two RPC calls, between which  *)
(* blocks may arrive.                                                      *)
(***************************************************************************)
EXTENDS Integers, Sequences, FiniteSets

CONSTANTS
  Depth,   (* DEPTH, levels above the leaves *)
  Cms,     (* commitments in play            *)
  Zero     (* the empty leaf, bytes32(0)     *)

ASSUME DepthAssumption == Depth \in Nat \ {0}
ASSUME ZeroAssumption == Zero \notin Cms

VARIABLES
  filledSubtrees,  (* level -> the last subtree completed on the left      *)
  nextIndex,
  isLeaf,
  currentRoot,
  log,             (* the LeafAppended events                              *)
  wallet           (* the wallet's view: its phase and its Tree.leaves     *)

pool == <<filledSubtrees, nextIndex, isLeaf, currentRoot, log>>
vars == <<pool, wallet>>

(* uint32(1) << l *)
Pow2[l \in 0 .. Depth] == IF l = 0 THEN 1 ELSE 2 * Pow2[l - 1]

Capacity == Pow2[Depth]

(* idx after l steps of idx >>= 1, and its last bit *)
Shifted(idx) ==
  LET at[l \in 0 .. Depth] == IF l = 0 THEN idx ELSE at[l - 1] \div 2
  IN  at

Bit(idx, l) == Shifted(idx)[l] % 2

HashPair(l, r) == <<l, r>>

Zeros[l \in 0 .. Depth] ==
  IF l = 0 THEN Zero ELSE HashPair(Zeros[l - 1], Zeros[l - 1])

(* the nodes above a leaf, given their siblings: on the right of a node    *)
(* where the bit is 0 and on its left where it is 1                        *)
HashUp(leaf, path) ==
  LET node[d \in 0 .. Depth] ==
        IF d = 0 THEN leaf
        ELSE IF path[d - 1].bit = 0 THEN HashPair(node[d - 1], path[d - 1].node)
                                    ELSE HashPair(path[d - 1].node, node[d - 1])
  IN  node

-----------------------------------------------------------------------------
(* The contract's frontier t = [filled, next] *)

(* the first 0 bit of an index *)
FirstZero(idx) ==
  CHOOSE k \in 0 .. Depth : Bit(idx, k) = 0 /\ \A j \in 0 .. k - 1 : Bit(idx, j) = 1

(* for the mutation runs: the leaf recorded without hashing up *)
InsertUncarried(t, cm) ==
  [filled |-> [t.filled EXCEPT ![FirstZero(t.next)] = cm], next |-> t.next + 1]

(* hash up while the index bit is 1, record at the first 0 bit *)
Insert(t, cm) ==
  LET l == FirstZero(t.next)
      node == HashUp(cm, [k \in 0 .. Depth - 1 |-> [bit |-> 1, node |-> t.filled[k]]])
  IN  [filled |-> [t.filled EXCEPT ![l] = node[l]], next |-> t.next + 1]

(* hash the next empty position up the frontier *)
EmptyPositionUp(t) ==
  HashUp(Zero,
         [l \in 0 .. Depth - 1 |->
            [bit |-> Bit(t.next, l),
             node |-> IF Bit(t.next, l) = 0 THEN Zeros[l] ELSE t.filled[l]]])[Depth]

(* for the mutation runs: no special case for the full tree *)
ComputeRootOfAny(t) == EmptyPositionUp(t)

ComputeRoot(t) ==
  IF t.next = Capacity THEN t.filled[Depth] ELSE EmptyPositionUp(t)

-----------------------------------------------------------------------------
(* The wallet's full tree over a sequence of leaves *)

Levels(leaves) ==
  LET level[d \in 0 .. Depth] ==
        IF d = 0 THEN IF leaves = <<>> THEN <<Zero>> ELSE leaves
        ELSE LET below == level[d - 1]
             IN  [i \in 1 .. (Len(below) + 1) \div 2 |->
                    HashPair(below[2 * i - 1],
                             IF 2 * i <= Len(below) THEN below[2 * i]
                                                    ELSE Zeros[d - 1])]
  IN  level

Root(leaves) == Levels(leaves)[Depth][1]

(* for the mutation runs: an odd position paired with its right neighbour *)
AuthPathRight(leaves, idx) ==
  [d \in 0 .. Depth - 1 |->
     LET level == Levels(leaves)[d]
         sibling == Shifted(idx)[d] + 1
     IN  [node |-> IF sibling < Len(level) THEN level[sibling + 1] ELSE Zeros[d],
          bit |-> Bit(idx, d)]]

(* siblings and direction bits from the leaf up, sib_idx = idx ^ 1 *)
AuthPath(leaves, idx) ==
  [d \in 0 .. Depth - 1 |->
     LET level == Levels(leaves)[d]
         at == Shifted(idx)[d]
         sibling == IF Bit(idx, d) = 1 THEN at - 1 ELSE at + 1
     IN  [node |-> IF sibling < Len(level) THEN level[sibling + 1] ELSE Zeros[d],
          bit |-> Bit(idx, d)]]

(* the walk InputNote does from a leaf along a path *)
PathRoot(leaf, path) == HashUp(leaf, path)[Depth]

(* seeded_tree: leaves[event.index] = event.cm, then range(len(leaves)) *)
Rebuilt(events) ==
  [i \in 1 .. Cardinality({events[k].index : k \in DOMAIN events}) |->
     (CHOOSE e \in {events[k] : k \in DOMAIN events} : e.index = i - 1).cm]

-----------------------------------------------------------------------------
(* The pool's operations on the tree *)

Init ==
  /\ filledSubtrees = [l \in 0 .. Depth |-> Zero]
  /\ nextIndex = 0 /\ isLeaf = {} /\ currentRoot = Zeros[Depth]
  /\ log = <<>>
  /\ wallet = [phase |-> "start", leaves |-> <<>>]

LeafAppended(cm, index, root) == [cm |-> cm, index |-> index, newRoot |-> root]

(* for the mutation runs: the events numbered after the inserts *)
AppendedLate(fresh, root) ==
  [k \in DOMAIN fresh |-> LeafAppended(fresh[k], nextIndex + Len(fresh) - 1, root)]

(* the events of an operation that inserts fresh, all with the final root *)
Appended(fresh, root) ==
  [k \in DOMAIN fresh |-> LeafAppended(fresh[k], nextIndex + k - 1, root)]

(* One operation: the one or two new leaves are inserted in order and the  *)
(* root is computed once.  The operation reverts when the tree is full.    *)
InsertAll(fresh) ==
  LET first == Insert([filled |-> filledSubtrees, next |-> nextIndex], fresh[1])
      after == IF Len(fresh) = 1 THEN first ELSE Insert(first, fresh[2])
  IN  /\ nextIndex + Len(fresh) <= Capacity
      /\ filledSubtrees' = after.filled
      /\ nextIndex' = after.next
      /\ isLeaf' = isLeaf \cup {fresh[k] : k \in DOMAIN fresh}
      /\ currentRoot' = ComputeRoot(after)
      /\ log' = log \o Appended(fresh, currentRoot')
      /\ UNCHANGED wallet

Shield(cm) == cm \notin isLeaf /\ InsertAll(<<cm>>)

(* _settle: outputs already in the tree are skipped, the second one also   *)
(* when it equals the first                                                *)
Settle(out1, out2) ==
  LET new1 == out1 \notin isLeaf
      new2 == out2 \notin isLeaf /\ out2 # out1
  IN  \/ new1 /\ new2 /\ InsertAll(<<out1, out2>>)
      \/ new1 /\ ~new2 /\ InsertAll(<<out1>>)
      \/ ~new1 /\ new2 /\ InsertAll(<<out2>>)

-----------------------------------------------------------------------------
(* The wallet *)

ReadLogs ==
  /\ wallet.phase # "read"
  /\ wallet' = [phase |-> "read", leaves |-> Rebuilt(log)]
  /\ UNCHANGED pool

ReadRoot ==
  /\ wallet.phase = "read"
  /\ wallet' = [wallet EXCEPT !.phase =
                  IF Root(wallet.leaves) = currentRoot THEN "verified" ELSE "mismatch"]
  /\ UNCHANGED pool

Next ==
  \/ \E cm \in Cms : Shield(cm)
  \/ \E out1, out2 \in Cms : Settle(out1, out2)
  \/ ReadLogs
  \/ ReadRoot

Spec == Init /\ [][Next]_vars

-----------------------------------------------------------------------------
(* Properties *)

(* The root computed from the frontier, whose levels are never cleared and *)
(* only read where they have been written, is the root of the full tree.   *)
RootMatchesWallet == currentRoot = Root(Rebuilt(log))

(* A path from the wallet's tree opens at the contract's root for the leaf *)
(* at its position and for no other commitment.                            *)
PathsOpenExactly ==
  LET leaves == Rebuilt(log)
  IN  \A i \in 0 .. nextIndex - 1 :
        LET path == AuthPath(leaves, i)
        IN  \A cm \in Cms \cup {Zero} :
              PathRoot(cm, path) = currentRoot <=> cm = leaves[i + 1]

(* The events give each leaf once, at its index, and the last one of an    *)
(* operation carries the root the operation leaves.                        *)
EventsRebuildTree ==
  /\ Len(log) = nextIndex
  /\ {log[k].cm : k \in DOMAIN log} = isLeaf
  /\ \A k \in DOMAIN log : log[k].index = k - 1
  /\ log # <<>> => log[Len(log)].newRoot = currentRoot

(* Rebuilding fails only by a race: a mismatch is reported only when the   *)
(* pool has inserted a leaf between the wallet's two reads.                *)
MismatchOnlyWhenRaced ==
  [][wallet.phase = "read" /\ wallet'.phase = "mismatch"
       => Len(wallet.leaves) < nextIndex]_vars

=============================================================================
