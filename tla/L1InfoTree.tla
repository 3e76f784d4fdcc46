----------------------------- MODULE L1InfoTree -----------------------------
(***************************************************************************)
(* The L1 info tree of l1infotree/tree.go and hash.go: a Merkle tree of    *)
(* fixed height whose missing leaves are zero.                             *)
(*                                                                         *)
(* Hashes are taken to be free of collisions: a hash is the pair of what   *)
(* it is a hash of.  Leaves are positive numbers, the zero hash is 0.      *)
(* Indices start at 0 as in the code; positions in a sequence start at 1.  *)
(***************************************************************************)
EXTENDS Naturals, Sequences

CONSTANT Height  \* the height of the tree, 32 in the program
ASSUME HeightAssumption == Height \in Nat \ {0}

(* The number of leaves below a node of level h. *)
PowersOf2[h \in 0 .. Height] == IF h = 0 THEN 1 ELSE 2 * PowersOf2[h - 1]

Hash(left, right) == <<left, right>>

ZeroHashes[h \in 0 .. Height] ==
  IF h = 0 THEN 0 ELSE Hash(ZeroHashes[h - 1], ZeroHashes[h - 1])

(* Mutation: the missing node is a copy of the last one. *)
PaddedByLast(nodes, h) == IF Len(nodes) % 2 = 1 THEN Append(nodes, nodes[Len(nodes)]) ELSE nodes

(* An even number of nodes of level h. *)
Padded(nodes, h) == IF Len(nodes) % 2 = 1 THEN Append(nodes, ZeroHashes[h]) ELSE nodes

BuildIntermediate(nodes) ==
  [i \in 1 .. Len(nodes) \div 2 |-> Hash(nodes[2 * i - 1], nodes[2 * i])]

(* The nodes of every level, computed upwards from the leaves. *)
Levels(leaves) ==
  LET level[h \in 0 .. Height] ==
        IF h = 0
          THEN IF leaves = <<>> THEN <<ZeroHashes[0]>> ELSE leaves
          ELSE BuildIntermediate(Padded(level[h - 1], h - 1))
  IN level

(* The index of the node of level h above the leaf with the given index. *)
Above(index) ==
  LET above[h \in 0 .. Height] == IF h = 0 THEN index ELSE above[h - 1] \div 2 IN above

(* Both BuildL1InfoRoot and ComputeMerkleProof fail when there are too many leaves. *)
SingleRoot(leaves) == Len(Levels(leaves)[Height]) = 1

BuildL1InfoRoot(leaves) == Levels(leaves)[Height][1]

(* The siblings that ComputeMerkleProof returns with the same root: sibling h + 1 is
   the one at level h. *)
ComputeMerkleProof(gerIndex, leaves) ==
  LET level == Levels(leaves) IN
  [i \in 1 .. Height |->
     LET h == i - 1
         nodes == Padded(level[h], h)
         index == Above(gerIndex)[h]
     IN IF index >= Len(nodes) THEN ZeroHashes[h]
        ELSE IF index % 2 = 1 THEN nodes[index] ELSE nodes[index + 2]]

NewL1InfoTree(leaves) ==
  [count |-> Len(leaves),
   siblings |-> IF leaves = <<>> THEN [i \in 1 .. Height |-> ZeroHashes[i - 1]]
                ELSE ComputeMerkleProof(Len(leaves), leaves),
   currentRoot |-> BuildL1InfoRoot(leaves)]

Bit(index, h) == Above(index)[h] % 2

(* The nodes on the path from a new leaf to the root. *)
Path(mt, index, leaf) ==
  LET cur[h \in 0 .. Height] ==
        IF h = 0 THEN leaf
        ELSE IF Bit(index, h - 1) = 1 THEN Hash(mt.siblings[h], cur[h - 1])
        ELSE Hash(cur[h - 1], ZeroHashes[h - 1])
  IN cur

(* Mutation: no sibling but the lowest is replaced. *)
UpdatesLowest(index, h) == Bit(index, h) = 0 /\ h = 0

(* The subtrees below level h are filled, the one above is not. *)
UpdatesSibling(index, h) ==
  Bit(index, h) = 0 /\ \A g \in 0 .. h - 1 : Bit(index, g) = 1

(* Mutation: the leaf is not counted. *)
AddUncounted(mt, index, leaf) == [mt EXCEPT !.currentRoot = Path(mt, index, leaf)[Height]]

AddLeaf(mt, index, leaf) ==
  IF index # mt.count THEN mt
  ELSE LET cur == Path(mt, index, leaf) IN
       [count |-> mt.count + 1,
        siblings |-> [i \in 1 .. Height |->
                        IF UpdatesSibling(index, i - 1) THEN cur[i - 1]
                        ELSE mt.siblings[i]],
        currentRoot |-> cur[Height]]

-----------------------------------------------------------------------------
(* Reference definitions. *)

(* The nodes of every level, from the top, with zero leaves behind the last leaf. *)
Nodes(leaves) ==
  LET node[h \in 0 .. Height] ==
        [i \in Nat |-> IF h > 0 THEN Hash(node[h - 1][2 * i], node[h - 1][2 * i + 1])
                       ELSE IF i < Len(leaves) THEN leaves[i + 1] ELSE 0]
  IN node

(* The root of the tree of 2 ^ Height leaves. *)
ReferenceRoot(leaves) == Nodes(leaves)[Height][0]

(* What the verifier of a Merkle proof computes. *)
PathOfProof(index, leaf, siblings) ==
  LET cur[h \in 0 .. Height] ==
        IF h = 0 THEN leaf
        ELSE IF Bit(index, h - 1) = 1 THEN Hash(siblings[h], cur[h - 1])
        ELSE Hash(cur[h - 1], siblings[h])
  IN cur

RootOfProof(index, leaf, siblings) == PathOfProof(index, leaf, siblings)[Height]
=============================================================================
