-------------------------- MODULE L1InfoTreeProofs --------------------------
(***************************************************************************)
(* The L1 info tree, for every height: the tree built at once, the tree    *)
(* built leaf by leaf and the Merkle proofs agree with the tree of all     *)
(* 2 ^ Height leaves, and two trees with the same root have the same       *)
(* leaves.                                                                 *)
(*                                                                         *)
(* All this is by induction over the levels.  The induction theorems of    *)
(* the library take a predicate; SetInduction takes the set of numbers     *)
(* that satisfy it, and follows from the well-foundedness of Nat.          *)
(***************************************************************************)
EXTENDS L1InfoTree, WellFoundedInduction, TLAPS

Less == {p \in Nat \X Nat : p[1] < p[2]}

LEMMA LessWellFounded == IsWellFoundedOn(Less, Nat)
<1>1. Less = OpToRel(<, Nat)
  BY DEF Less, OpToRel
<1>. QED BY <1>1, NatLessThanWellFounded

LEMMA LeastNumber ==
  ASSUME NEW T, T \subseteq Nat, T # {}
  PROVE  \E m \in T : \A k \in T : m <= k
<1>1. \E x \in T : \A y \in T : ~ (<<y, x>> \in Less)
  BY LessWellFounded, WFMin
<1>2. \A x, y \in T : ~ (<<y, x>> \in Less) => x <= y
  BY DEF Less
<1>. QED BY <1>1, <1>2

(* Induction over the natural numbers, for a set instead of a predicate. *)
LEMMA SetInduction ==
  ASSUME NEW T, 0 \in T, \A n \in Nat : n \in T => n + 1 \in T
  PROVE  Nat \subseteq T
<1>. SUFFICES ASSUME Nat \ T # {} PROVE FALSE
  OBVIOUS
<1>1. PICK m \in Nat \ T : \A k \in Nat \ T : m <= k
  BY LeastNumber
<1>2. m - 1 \in Nat /\ m - 1 \in T /\ (m - 1) + 1 = m
  BY <1>1
<1>. QED BY <1>1, <1>2

(* Induction over the levels of the tree. *)
LEMMA LevelInduction ==
  ASSUME NEW T, 0 \in T, \A h \in 0 .. Height - 1 : h \in T => h + 1 \in T
  PROVE  0 .. Height \subseteq T
<1>. DEFINE U == {n \in Nat : n <= Height => n \in T}
<1>1. 0 \in U
  OBVIOUS
<1>2. ASSUME NEW n \in Nat, n \in U PROVE n + 1 \in U
  BY <1>2, HeightAssumption
<1>3. Nat \subseteq U
  <2>. HIDE DEF U
  <2>. QED BY <1>1, <1>2, SetInduction
<1>. QED BY <1>3, HeightAssumption

-----------------------------------------------------------------------------
(* The recursive functions of the model exist. *)

(* Each function that is defined by itself exists: its value at a level is what its
   definition says, by induction on the level. *)
LEMMA ZeroHashesDef ==
  ZeroHashes = [h \in 0 .. Height |->
                  IF h = 0 THEN 0 ELSE Hash(ZeroHashes[h - 1], ZeroHashes[h - 1])]
<1>. DEFINE Step(f, h) == IF h = 0 THEN 0 ELSE Hash(f[h - 1], f[h - 1])
            T == {n \in Nat : \E f : f = [h \in 0 .. n |-> Step(f, h)]}
<1>1. 0 \in T
  <2>. DEFINE f == [h \in 0 .. 0 |-> 0]
  <2>1. f = [h \in 0 .. 0 |-> Step(f, h)]
    OBVIOUS
  <2>. QED BY <2>1
<1>2. ASSUME NEW n \in Nat, n \in T PROVE n + 1 \in T
  <2>1. PICK f : f = [h \in 0 .. n |-> Step(f, h)]
    BY <1>2
  <2>. DEFINE g == [h \in 0 .. n + 1 |-> IF h <= n THEN f[h] ELSE Hash(f[n], f[n])]
  <2>2. ASSUME NEW h \in 0 .. n + 1 PROVE g[h] = Step(g, h)
    <3>1. CASE h <= n
      <4>1. h \in 0 .. n /\ (h # 0 => h - 1 \in 0 .. n + 1 /\ h - 1 <= n)
        BY <3>1
      <4>2. g[h] = f[h] /\ (h # 0 => g[h - 1] = f[h - 1])
        BY <4>1, <3>1
      <4>3. f[h] = Step(f, h)
        BY <2>1, <4>1
      <4>. QED BY <4>2, <4>3
    <3>2. CASE h = n + 1
      BY <3>2
    <3>. QED BY <3>1, <3>2
  <2>3. g = [h \in 0 .. n + 1 |-> Step(g, h)]
    BY <2>2
  <2>. HIDE DEF g
  <2>4. n + 1 \in Nat
    OBVIOUS
  <2>. QED BY <2>3, <2>4, Zenon
<1>3. Nat \subseteq T
  <2>. HIDE DEF T
  <2>. QED BY <1>1, <1>2, SetInduction
<1>4. \E f : f = [h \in 0 .. Height |-> Step(f, h)]
  BY <1>3, HeightAssumption
<1>. QED BY <1>4 DEF ZeroHashes

LEMMA PowersDef ==
  PowersOf2 = [h \in 0 .. Height |-> IF h = 0 THEN 1 ELSE 2 * PowersOf2[h - 1]]
<1>. DEFINE Step(f, h) == IF h = 0 THEN 1 ELSE 2 * f[h - 1]
            T == {n \in Nat : \E f : f = [h \in 0 .. n |-> Step(f, h)]}
<1>1. 0 \in T
  <2>. DEFINE f == [h \in 0 .. 0 |-> 1]
  <2>1. f = [h \in 0 .. 0 |-> Step(f, h)]
    OBVIOUS
  <2>. HIDE DEF f
  <2>. QED BY <2>1
<1>2. ASSUME NEW n \in Nat, n \in T PROVE n + 1 \in T
  <2>1. PICK f : f = [h \in 0 .. n |-> Step(f, h)]
    BY <1>2
  <2>. DEFINE g == [h \in 0 .. n + 1 |-> IF h <= n THEN f[h] ELSE 2 * f[n]]
  <2>2. g = [h \in 0 .. n + 1 |-> Step(g, h)]
    BY <2>1
  <2>3. \E e : e = [h \in 0 .. n + 1 |-> Step(e, h)]
    <3>. HIDE DEF g, Step
    <3>. QED BY <2>2
  <2>4. n + 1 \in Nat
    OBVIOUS
  <2>. QED BY <2>3, <2>4, Zenon
<1>3. Nat \subseteq T
  <2>. HIDE DEF T
  <2>. QED BY <1>1, <1>2, SetInduction
<1>4. \E f : f = [h \in 0 .. Height |-> Step(f, h)]
  BY <1>3, HeightAssumption
<1>. QED BY <1>4 DEF PowersOf2

LEMMA AboveDef ==
  ASSUME NEW index
  PROVE  Above(index) = [h \in 0 .. Height |->
                           IF h = 0 THEN index ELSE Above(index)[h - 1] \div 2]
<1>. DEFINE Step(f, h) == IF h = 0 THEN index ELSE f[h - 1] \div 2
            T == {n \in Nat : \E f : f = [h \in 0 .. n |-> Step(f, h)]}
<1>1. 0 \in T
  <2>. DEFINE f == [h \in 0 .. 0 |-> index]
  <2>1. f = [h \in 0 .. 0 |-> Step(f, h)]
    OBVIOUS
  <2>. HIDE DEF f
  <2>. QED BY <2>1
<1>2. ASSUME NEW n \in Nat, n \in T PROVE n + 1 \in T
  <2>1. PICK f : f = [h \in 0 .. n |-> Step(f, h)]
    BY <1>2
  <2>. DEFINE g == [h \in 0 .. n + 1 |-> IF h <= n THEN f[h] ELSE f[n] \div 2]
  <2>2. g = [h \in 0 .. n + 1 |-> Step(g, h)]
    BY <2>1
  <2>3. \E e : e = [h \in 0 .. n + 1 |-> Step(e, h)]
    <3>. HIDE DEF g, Step
    <3>. QED BY <2>2
  <2>4. n + 1 \in Nat
    OBVIOUS
  <2>. QED BY <2>3, <2>4, Zenon
<1>3. Nat \subseteq T
  <2>. HIDE DEF T
  <2>. QED BY <1>1, <1>2, SetInduction
<1>4. \E f : f = [h \in 0 .. Height |-> Step(f, h)]
  BY <1>3, HeightAssumption
<1>. QED BY <1>4 DEF Above

LEMMA NodesDef ==
  ASSUME NEW leaves
  PROVE  Nodes(leaves) =
           [h \in 0 .. Height |->
              [i \in Nat |-> IF h > 0 THEN Hash(Nodes(leaves)[h - 1][2 * i],
                                                Nodes(leaves)[h - 1][2 * i + 1])
                            ELSE IF i < Len(leaves) THEN leaves[i + 1] ELSE 0]]
<1>. DEFINE Level(below, h) ==
              [i \in Nat |-> IF h > 0 THEN Hash(below[2 * i], below[2 * i + 1])
                            ELSE IF i < Len(leaves) THEN leaves[i + 1] ELSE 0]
            Step(f, h) == Level(f[h - 1], h)
            T == {n \in Nat : \E f : f = [h \in 0 .. n |-> Step(f, h)]}
<1>1. 0 \in T
  <2>. DEFINE f == [h \in 0 .. 0 |-> Level(<<>>, 0)]
  <2>1. f = [h \in 0 .. 0 |-> Step(f, h)]
    OBVIOUS
  <2>. HIDE DEF f
  <2>. QED BY <2>1
<1>2. ASSUME NEW n \in Nat, n \in T PROVE n + 1 \in T
  <2>1. PICK f : f = [h \in 0 .. n |-> Step(f, h)]
    BY <1>2
  <2>. DEFINE g == [h \in 0 .. n + 1 |-> IF h <= n THEN f[h] ELSE Step(f, n + 1)]
  <2>2. \A p, q : Level(p, 0) = Level(q, 0)
    OBVIOUS
  <2>3. g = [h \in 0 .. n + 1 |-> Step(g, h)]
    <3>. HIDE DEF Level
    <3>. QED BY <2>1, <2>2
  <2>4. \E f1 : f1 = [h \in 0 .. n + 1 |-> Step(f1, h)]
    <3>. HIDE DEF g, Step
    <3>. QED BY <2>3
  <2>5. n + 1 \in Nat
    OBVIOUS
  <2>. QED BY <2>4, <2>5, Zenon
<1>3. Nat \subseteq T
  <2>. HIDE DEF T
  <2>. QED BY <1>1, <1>2, SetInduction
<1>4. \E f : f = [h \in 0 .. Height |-> Step(f, h)]
  BY <1>3, HeightAssumption
<1>. QED BY <1>4 DEF Nodes

LEMMA LevelsDef ==
  ASSUME NEW leaves
  PROVE  Levels(leaves) =
           [h \in 0 .. Height |->
              IF h = 0 THEN IF leaves = <<>> THEN <<ZeroHashes[0]>> ELSE leaves
              ELSE BuildIntermediate(Padded(Levels(leaves)[h - 1], h - 1))]
<1>. DEFINE Step(f, h) ==
              IF h = 0 THEN IF leaves = <<>> THEN <<ZeroHashes[0]>> ELSE leaves
              ELSE BuildIntermediate(Padded(f[h - 1], h - 1))
            T == {n \in Nat : \E f : f = [h \in 0 .. n |-> Step(f, h)]}
<1>1. 0 \in T
  <2>. DEFINE f == [h \in 0 .. 0 |-> Step(<<>>, 0)]
  <2>1. f = [h \in 0 .. 0 |-> Step(f, h)]
    OBVIOUS
  <2>. HIDE DEF f
  <2>. QED BY <2>1
<1>2. ASSUME NEW n \in Nat, n \in T PROVE n + 1 \in T
  <2>1. PICK f : f = [h \in 0 .. n |-> Step(f, h)]
    BY <1>2
  <2>. DEFINE g == [h \in 0 .. n + 1 |-> IF h <= n THEN f[h] ELSE Step(f, n + 1)]
  <2>2. g = [h \in 0 .. n + 1 |-> Step(g, h)]
    BY <2>1
  <2>3. \E f1 : f1 = [h \in 0 .. n + 1 |-> Step(f1, h)]
    <3>. HIDE DEF g, Step
    <3>. QED BY <2>2
  <2>4. n + 1 \in Nat
    OBVIOUS
  <2>. QED BY <2>3, <2>4, Zenon
<1>3. Nat \subseteq T
  <2>. HIDE DEF T
  <2>. QED BY <1>1, <1>2, SetInduction
<1>4. \E f : f = [h \in 0 .. Height |-> Step(f, h)]
  BY <1>3, HeightAssumption
<1>. QED BY <1>4 DEF Levels

LEMMA PathDef ==
  ASSUME NEW mt, NEW index, NEW leaf
  PROVE  Path(mt, index, leaf) =
           [h \in 0 .. Height |->
              IF h = 0 THEN leaf
              ELSE IF Bit(index, h - 1) = 1
                THEN Hash(mt.siblings[h], Path(mt, index, leaf)[h - 1])
              ELSE Hash(Path(mt, index, leaf)[h - 1], ZeroHashes[h - 1])]
<1>. DEFINE Step(f, h) ==
              IF h = 0 THEN leaf
              ELSE IF Bit(index, h - 1) = 1 THEN Hash(mt.siblings[h], f[h - 1])
              ELSE Hash(f[h - 1], ZeroHashes[h - 1])
            T == {n \in Nat : \E f : f = [h \in 0 .. n |-> Step(f, h)]}
<1>1. 0 \in T
  <2>. DEFINE f == [h \in 0 .. 0 |-> Step(<<>>, 0)]
  <2>1. f = [h \in 0 .. 0 |-> Step(f, h)]
    OBVIOUS
  <2>. HIDE DEF f
  <2>. QED BY <2>1
<1>2. ASSUME NEW n \in Nat, n \in T PROVE n + 1 \in T
  <2>1. PICK f : f = [h \in 0 .. n |-> Step(f, h)]
    BY <1>2
  <2>. DEFINE g == [h \in 0 .. n + 1 |-> IF h <= n THEN f[h] ELSE Step(f, n + 1)]
  <2>2. g = [h \in 0 .. n + 1 |-> Step(g, h)]
    BY <2>1
  <2>3. \E f1 : f1 = [h \in 0 .. n + 1 |-> Step(f1, h)]
    <3>. HIDE DEF g, Step
    <3>. QED BY <2>2
  <2>4. n + 1 \in Nat
    OBVIOUS
  <2>. QED BY <2>3, <2>4, Zenon
<1>3. Nat \subseteq T
  <2>. HIDE DEF T
  <2>. QED BY <1>1, <1>2, SetInduction
<1>4. \E f : f = [h \in 0 .. Height |-> Step(f, h)]
  BY <1>3, HeightAssumption
<1>. QED BY <1>4 DEF Path

LEMMA PathOfProofDef ==
  ASSUME NEW index, NEW leaf, NEW siblings
  PROVE  PathOfProof(index, leaf, siblings) =
           [h \in 0 .. Height |->
              IF h = 0 THEN leaf
              ELSE IF Bit(index, h - 1) = 1
                THEN Hash(siblings[h], PathOfProof(index, leaf, siblings)[h - 1])
              ELSE Hash(PathOfProof(index, leaf, siblings)[h - 1], siblings[h])]
<1>. DEFINE Step(f, h) ==
              IF h = 0 THEN leaf
              ELSE IF Bit(index, h - 1) = 1 THEN Hash(siblings[h], f[h - 1])
              ELSE Hash(f[h - 1], siblings[h])
            T == {n \in Nat : \E f : f = [h \in 0 .. n |-> Step(f, h)]}
<1>1. 0 \in T
  <2>. DEFINE f == [h \in 0 .. 0 |-> Step(<<>>, 0)]
  <2>1. f = [h \in 0 .. 0 |-> Step(f, h)]
    OBVIOUS
  <2>. HIDE DEF f
  <2>. QED BY <2>1
<1>2. ASSUME NEW n \in Nat, n \in T PROVE n + 1 \in T
  <2>1. PICK f : f = [h \in 0 .. n |-> Step(f, h)]
    BY <1>2
  <2>. DEFINE g == [h \in 0 .. n + 1 |-> IF h <= n THEN f[h] ELSE Step(f, n + 1)]
  <2>2. g = [h \in 0 .. n + 1 |-> Step(g, h)]
    BY <2>1
  <2>3. \E f1 : f1 = [h \in 0 .. n + 1 |-> Step(f1, h)]
    <3>. HIDE DEF g, Step
    <3>. QED BY <2>2
  <2>4. n + 1 \in Nat
    OBVIOUS
  <2>. QED BY <2>3, <2>4, Zenon
<1>3. Nat \subseteq T
  <2>. HIDE DEF T
  <2>. QED BY <1>1, <1>2, SetInduction
<1>4. \E f : f = [h \in 0 .. Height |-> Step(f, h)]
  BY <1>3, HeightAssumption
<1>. QED BY <1>4 DEF PathOfProof

-----------------------------------------------------------------------------
(* The same, one level at a time. *)

(* The same, level by level, as the proofs cite it. *)
LEMMA ZeroHashesStep ==
  /\ ZeroHashes[0] = 0
  /\ \A h \in 0 .. Height - 1 :
       ZeroHashes[h + 1] = Hash(ZeroHashes[h], ZeroHashes[h])
<1>1. \A h \in 0 .. Height :
        ZeroHashes[h] = IF h = 0 THEN 0 ELSE Hash(ZeroHashes[h - 1], ZeroHashes[h - 1])
  BY ZeroHashesDef, Zenon
<1>2. \A h \in 0 .. Height - 1 : h + 1 \in 0 .. Height /\ h + 1 # 0 /\ (h + 1) - 1 = h
  BY HeightAssumption
<1>. QED BY <1>1, <1>2, HeightAssumption

LEMMA PowersStep ==
  /\ PowersOf2[0] = 1
  /\ \A h \in 0 .. Height - 1 : PowersOf2[h + 1] = 2 * PowersOf2[h]
<1>1. \A h \in 0 .. Height : PowersOf2[h] = IF h = 0 THEN 1 ELSE 2 * PowersOf2[h - 1]
  BY PowersDef, Zenon
<1>2. \A h \in 0 .. Height - 1 : h + 1 \in 0 .. Height /\ h + 1 # 0 /\ (h + 1) - 1 = h
  BY HeightAssumption
<1>. QED BY <1>1, <1>2, HeightAssumption

(* The number of leaves below a node. *)
LEMMA PowersPositive == \A h \in 0 .. Height : PowersOf2[h] \in Nat \ {0}
<1>. DEFINE T == {h \in 0 .. Height : PowersOf2[h] \in Nat \ {0}}
<1>1. 0 \in T
  BY PowersStep, HeightAssumption
<1>2. ASSUME NEW h \in 0 .. Height - 1, h \in T PROVE h + 1 \in T
  BY <1>2, PowersStep, HeightAssumption
<1>3. 0 .. Height \subseteq T
  <2>. HIDE DEF T
  <2>. QED BY <1>1, <1>2, LevelInduction
<1>. QED BY <1>3

LEMMA AboveStep ==
  ASSUME NEW index
  PROVE  /\ Above(index)[0] = index
         /\ \A h \in 0 .. Height - 1 : Above(index)[h + 1] = Above(index)[h] \div 2
BY AboveDef, HeightAssumption

LEMMA AboveNat == \A index \in Nat, h \in 0 .. Height : Above(index)[h] \in Nat
<1>. SUFFICES ASSUME NEW index \in Nat PROVE \A h \in 0 .. Height : Above(index)[h] \in Nat
  OBVIOUS
<1>. DEFINE T == {h \in 0 .. Height : Above(index)[h] \in Nat}
<1>1. 0 \in T
  BY AboveStep, HeightAssumption
<1>2. ASSUME NEW h \in 0 .. Height - 1, h \in T PROVE h + 1 \in T
  BY <1>2, AboveStep, HeightAssumption
<1>3. 0 .. Height \subseteq T
  <2>. HIDE DEF T
  <2>. QED BY <1>1, <1>2, LevelInduction
<1>. QED BY <1>3

LEMMA NodesStep ==
  ASSUME NEW leaves
  PROVE  /\ \A i \in Nat : Nodes(leaves)[0][i] = IF i < Len(leaves) THEN leaves[i + 1] ELSE 0
         /\ \A h \in 0 .. Height - 1, i \in Nat :
              Nodes(leaves)[h + 1][i] =
                Hash(Nodes(leaves)[h][2 * i], Nodes(leaves)[h][2 * i + 1])
<1>1. ASSUME NEW N,
             N = [h \in 0 .. Height |->
                    [i \in Nat |-> IF h > 0 THEN Hash(N[h - 1][2 * i], N[h - 1][2 * i + 1])
                                  ELSE IF i < Len(leaves) THEN leaves[i + 1] ELSE 0]]
      PROVE  /\ \A i \in Nat : N[0][i] = IF i < Len(leaves) THEN leaves[i + 1] ELSE 0
             /\ \A h \in 0 .. Height - 1, i \in Nat :
                  N[h + 1][i] = Hash(N[h][2 * i], N[h][2 * i + 1])
  <2>1. ASSUME NEW h \in 0 .. Height
        PROVE  N[h] = [i \in Nat |-> IF h > 0 THEN Hash(N[h - 1][2 * i], N[h - 1][2 * i + 1])
                                    ELSE IF i < Len(leaves) THEN leaves[i + 1] ELSE 0]
    BY <1>1
  <2>2. N[0] = [i \in Nat |-> IF i < Len(leaves) THEN leaves[i + 1] ELSE 0]
    <3>1. 0 \in 0 .. Height
      BY HeightAssumption
    <3>2. N[0] = [i \in Nat |-> IF 0 > 0 THEN Hash(N[0 - 1][2 * i], N[0 - 1][2 * i + 1])
                                ELSE IF i < Len(leaves) THEN leaves[i + 1] ELSE 0]
      BY <2>1, <3>1, Zenon
    <3>. QED BY <3>2
  <2>3. ASSUME NEW h \in 0 .. Height - 1
        PROVE  N[h + 1] = [i \in Nat |-> Hash(N[h][2 * i], N[h][2 * i + 1])]
    <3>1. h + 1 \in 0 .. Height /\ h + 1 > 0 /\ (h + 1) - 1 = h
      BY HeightAssumption
    <3>. QED BY <2>1, <3>1
  <2>. QED BY <2>2, <2>3
<1>. QED BY <1>1, NodesDef, Zenon

LEMMA LevelsStep ==
  ASSUME NEW leaves
  PROVE  /\ Levels(leaves)[0] = IF leaves = <<>> THEN <<ZeroHashes[0]>> ELSE leaves
         /\ \A h \in 0 .. Height - 1 :
              Levels(leaves)[h + 1] = BuildIntermediate(Padded(Levels(leaves)[h], h))
BY LevelsDef, HeightAssumption

LEMMA PathStep ==
  ASSUME NEW mt, NEW index, NEW leaf
  PROVE  /\ Path(mt, index, leaf)[0] = leaf
         /\ \A h \in 0 .. Height - 1 :
              Path(mt, index, leaf)[h + 1] =
                IF Bit(index, h) = 1 THEN Hash(mt.siblings[h + 1], Path(mt, index, leaf)[h])
                ELSE Hash(Path(mt, index, leaf)[h], ZeroHashes[h])
BY PathDef, HeightAssumption

LEMMA PathOfProofStep ==
  ASSUME NEW index, NEW leaf, NEW siblings
  PROVE  /\ PathOfProof(index, leaf, siblings)[0] = leaf
         /\ \A h \in 0 .. Height - 1 :
              PathOfProof(index, leaf, siblings)[h + 1] =
                IF Bit(index, h) = 1
                  THEN Hash(siblings[h + 1], PathOfProof(index, leaf, siblings)[h])
                ELSE Hash(PathOfProof(index, leaf, siblings)[h], siblings[h + 1])
BY PathOfProofDef, HeightAssumption

-----------------------------------------------------------------------------
(* Nodes(leaves)[h][i] depends on the leaves below it only. *)

(* Behind the last leaf there are zero nodes only. *)
LEMMA ZeroNodes ==
  ASSUME NEW leaves, NEW n \in Nat, Len(leaves) <= n + 1, Len(leaves) \in Nat
  PROVE  \A h \in 0 .. Height, i \in Nat :
           i > Above(n)[h] => Nodes(leaves)[h][i] = ZeroHashes[h]
<1>. DEFINE T == {h \in 0 .. Height :
                    \A i \in Nat : i > Above(n)[h] => Nodes(leaves)[h][i] = ZeroHashes[h]}
<1>1. 0 \in T
  BY AboveStep, NodesStep, ZeroHashesStep, HeightAssumption
<1>2. ASSUME NEW h \in 0 .. Height - 1, h \in T PROVE h + 1 \in T
  <2>. SUFFICES ASSUME NEW i \in Nat, i > Above(n)[h + 1]
                PROVE  Nodes(leaves)[h + 1][i] = ZeroHashes[h + 1]
    BY HeightAssumption
  <2>1. Above(n)[h] \in Nat /\ Above(n)[h + 1] = Above(n)[h] \div 2
    BY AboveNat, AboveStep, HeightAssumption
  <2>2. 2 * i \in Nat /\ 2 * i + 1 \in Nat /\ 2 * i > Above(n)[h] /\ 2 * i + 1 > Above(n)[h]
    BY <2>1
  <2>3. Nodes(leaves)[h][2 * i] = ZeroHashes[h] /\ Nodes(leaves)[h][2 * i + 1] = ZeroHashes[h]
    BY <1>2, <2>2
  <2>. QED BY <2>3, NodesStep, ZeroHashesStep
<1>3. 0 .. Height \subseteq T
  <2>. HIDE DEF T
  <2>. QED BY <1>1, <1>2, LevelInduction
<1>. QED BY <1>3

(* Appended leaves change no node that has its leaves before them. *)
LEMMA NodesKept ==
  ASSUME NEW leaves, NEW more, NEW n \in Nat,
         \A i \in 0 .. n - 1 : Nodes(more)[0][i] = Nodes(leaves)[0][i]
  PROVE  \A h \in 0 .. Height, i \in Nat :
           i < Above(n)[h] => Nodes(more)[h][i] = Nodes(leaves)[h][i]
<1>. DEFINE T == {h \in 0 .. Height :
                    \A i \in Nat : i < Above(n)[h] => Nodes(more)[h][i] = Nodes(leaves)[h][i]}
<1>1. 0 \in T
  BY AboveStep, HeightAssumption
<1>2. ASSUME NEW h \in 0 .. Height - 1, h \in T PROVE h + 1 \in T
  <2>. SUFFICES ASSUME NEW i \in Nat, i < Above(n)[h + 1]
                PROVE  Nodes(more)[h + 1][i] = Nodes(leaves)[h + 1][i]
    BY HeightAssumption
  <2>1. Above(n)[h] \in Nat /\ Above(n)[h + 1] = Above(n)[h] \div 2
    BY AboveNat, AboveStep, HeightAssumption
  <2>2. 2 * i \in Nat /\ 2 * i + 1 \in Nat /\ 2 * i < Above(n)[h] /\ 2 * i + 1 < Above(n)[h]
    BY <2>1
  <2>3. /\ Nodes(more)[h][2 * i] = Nodes(leaves)[h][2 * i]
        /\ Nodes(more)[h][2 * i + 1] = Nodes(leaves)[h][2 * i + 1]
    BY <1>2, <2>2
  <2>4. Nodes(more)[h + 1][i] = Hash(Nodes(more)[h][2 * i], Nodes(more)[h][2 * i + 1])
    BY NodesStep
  <2>5. Nodes(leaves)[h + 1][i] = Hash(Nodes(leaves)[h][2 * i], Nodes(leaves)[h][2 * i + 1])
    BY NodesStep
  <2>. QED BY <2>3, <2>4, <2>5
<1>3. 0 .. Height \subseteq T
  <2>. HIDE DEF T
  <2>. QED BY <1>1, <1>2, LevelInduction
<1>. QED BY <1>3

(* The next leaf is below the next node of level h if the subtrees below h are full. *)
LEMMA AboveNext ==
  ASSUME NEW n \in Nat
  PROVE  \A h \in 0 .. Height :
           Above(n + 1)[h] = IF \A g \in 0 .. h - 1 : Bit(n, g) = 1
                               THEN Above(n)[h] + 1 ELSE Above(n)[h]
<1>. DEFINE Full(h) == \A g \in 0 .. h - 1 : Bit(n, g) = 1
            T == {h \in 0 .. Height :
                    Above(n + 1)[h] = IF Full(h) THEN Above(n)[h] + 1 ELSE Above(n)[h]}
<1>1. 0 \in T
  BY AboveStep, HeightAssumption
<1>2. ASSUME NEW h \in 0 .. Height - 1, h \in T PROVE h + 1 \in T
  <2>1. /\ Above(n)[h] \in Nat
        /\ Above(n)[h + 1] = Above(n)[h] \div 2
        /\ Above(n + 1)[h + 1] = Above(n + 1)[h] \div 2
    BY AboveNat, AboveStep, HeightAssumption
  <2>2. Full(h + 1) <=> Full(h) /\ Above(n)[h] % 2 = 1
    BY HeightAssumption DEF Bit
  <2>3. Above(n + 1)[h] = IF Full(h) THEN Above(n)[h] + 1 ELSE Above(n)[h]
    BY <1>2
  <2>4. Above(n + 1)[h + 1] = IF Full(h + 1) THEN Above(n)[h + 1] + 1 ELSE Above(n)[h + 1]
    <3>. HIDE DEF Full
    <3>. QED BY <2>1, <2>2, <2>3
  <2>. QED BY <2>4, HeightAssumption
<1>3. 0 .. Height \subseteq T
  <2>. HIDE DEF T
  <2>. QED BY <1>1, <1>2, LevelInduction
<1>. QED BY <1>3

-----------------------------------------------------------------------------
(* The levels that are computed upwards from the leaves are those of the tree. *)

Row(leaves, h) == {Nodes(leaves)[h][i] : i \in Nat} \cup {ZeroHashes[h]}

(* nodes is the left part of level h, and the rest of the level is zero. *)
LeftPart(nodes, leaves, h) ==
  /\ nodes \in Seq(Row(leaves, h))
  /\ \A i \in Nat : Nodes(leaves)[h][i] =
                      IF i < Len(nodes) THEN nodes[i + 1] ELSE ZeroHashes[h]

(* Padding adds no node that the tree of the reference does not have. *)
LEMMA PaddedLeftPart ==
  ASSUME NEW nodes, NEW leaves, NEW h \in 0 .. Height, LeftPart(nodes, leaves, h)
  PROVE  /\ LeftPart(Padded(nodes, h), leaves, h)
         /\ Len(Padded(nodes, h)) = IF Len(nodes) % 2 = 1 THEN Len(nodes) + 1 ELSE Len(nodes)
         /\ Len(Padded(nodes, h)) % 2 = 0
<1>. DEFINE R == Row(leaves, h)
<1>1. ZeroHashes[h] \in R /\ nodes \in Seq(R)
  BY DEF LeftPart, Row
<1>2. Len(nodes) \in Nat
  BY <1>1
<1>3. CASE Len(nodes) % 2 = 1
  <2>. DEFINE p == Append(nodes, ZeroHashes[h])
  <2>. HIDE DEF R
  <2>1. p \in Seq(R) /\ Len(p) = Len(nodes) + 1
    BY <1>1
  <2>2. p[Len(nodes) + 1] = ZeroHashes[h] /\ \A i \in 1 .. Len(nodes) : p[i] = nodes[i]
    BY <1>1
  <2>3. Padded(nodes, h) = p
    BY <1>3 DEF Padded
  <2>. HIDE DEF p
  <2>4. \A i \in Nat : Nodes(leaves)[h][i] = IF i < Len(p) THEN p[i + 1] ELSE ZeroHashes[h]
    <3>1. \A i \in Nat : Nodes(leaves)[h][i] =
                           IF i < Len(nodes) THEN nodes[i + 1] ELSE ZeroHashes[h]
      BY DEF LeftPart
    <3>. QED BY <2>1, <2>2, <3>1, <1>2
  <2>. QED BY <1>2, <1>3, <2>1, <2>3, <2>4 DEF LeftPart, R
<1>4. CASE Len(nodes) % 2 # 1
  BY <1>2, <1>4 DEF Padded
<1>. QED BY <1>3, <1>4

(* The levels that the code computes are the left parts of the levels of the reference
   tree: the nodes behind them are zero hashes. *)
LEMMA LevelsLeftPart ==
  ASSUME NEW S, NEW leaves \in Seq(S)
  PROVE  \A h \in 0 .. Height : LeftPart(Levels(leaves)[h], leaves, h)
<1>. DEFINE T == {h \in 0 .. Height : LeftPart(Levels(leaves)[h], leaves, h)}
<1>1. 0 \in T
  <2>1. CASE leaves = <<>>
    <3>1. Levels(leaves)[0] = <<ZeroHashes[0]>> /\ ZeroHashes[0] \in Row(leaves, 0)
      BY <2>1, LevelsStep DEF Row
    <3>2. <<ZeroHashes[0]>> \in Seq(Row(leaves, 0)) /\ Len(<<ZeroHashes[0]>>) = 1
      BY <3>1
    <3>3. \A i \in Nat : Nodes(leaves)[0][i] = ZeroHashes[0]
      BY <2>1, NodesStep, ZeroHashesStep
    <3>4. LeftPart(<<ZeroHashes[0]>>, leaves, 0)
      <4>1. \A i \in Nat : i < 1 => <<ZeroHashes[0]>>[i + 1] = ZeroHashes[0]
        OBVIOUS
      <4>. QED BY <3>2, <3>3, <4>1 DEF LeftPart
    <3>. QED BY <3>1, <3>4, HeightAssumption
  <2>2. CASE leaves # <<>>
    <3>1. Levels(leaves)[0] = leaves
      BY <2>2, LevelsStep
    <3>2. \A i \in Nat : Nodes(leaves)[0][i] =
                           IF i < Len(leaves) THEN leaves[i + 1] ELSE ZeroHashes[0]
      BY NodesStep, ZeroHashesStep
    <3>3. leaves \in Seq(Row(leaves, 0))
      <4>1. ASSUME NEW j \in 1 .. Len(leaves) PROVE leaves[j] \in Row(leaves, 0)
        <5>1. j - 1 \in Nat /\ j - 1 < Len(leaves) /\ (j - 1) + 1 = j
          OBVIOUS
        <5>2. leaves[j] = Nodes(leaves)[0][j - 1]
          BY <3>2, <5>1
        <5>. QED BY <5>1, <5>2 DEF Row
      <4>. QED BY <4>1
    <3>. QED BY <3>1, <3>2, <3>3, HeightAssumption DEF LeftPart
  <2>. QED BY <2>1, <2>2
<1>2. ASSUME NEW h \in 0 .. Height - 1, h \in T PROVE h + 1 \in T
  <2>. DEFINE p == Padded(Levels(leaves)[h], h)
              b == BuildIntermediate(p)
  <2>1. LeftPart(p, leaves, h) /\ Len(p) % 2 = 0
    BY <1>2, PaddedLeftPart, HeightAssumption
  <2>2. Levels(leaves)[h + 1] = b
    BY LevelsStep
  <2>3. Len(p) \in Nat
    BY <2>1 DEF LeftPart
  <2>4. \A i \in Nat : Nodes(leaves)[h][i] = IF i < Len(p) THEN p[i + 1] ELSE ZeroHashes[h]
    BY <2>1 DEF LeftPart
  <2>5. b = [i \in 1 .. Len(p) \div 2 |-> Hash(p[2 * i - 1], p[2 * i])]
    BY DEF BuildIntermediate
  <2>. HIDE DEF p, b
  <2>6. ASSUME NEW i \in Nat, i < Len(p) \div 2
        PROVE  b[i + 1] = Nodes(leaves)[h + 1][i]
    <3>1. /\ i + 1 \in 1 .. Len(p) \div 2
          /\ 2 * (i + 1) - 1 = 2 * i + 1 /\ 2 * (i + 1) = 2 * i + 2
          /\ 2 * i \in Nat /\ 2 * i < Len(p)
          /\ 2 * i + 1 \in Nat /\ 2 * i + 1 < Len(p) /\ (2 * i + 1) + 1 = 2 * i + 2
      BY <2>1, <2>3, <2>6
    <3>2. b[i + 1] = Hash(p[2 * i + 1], p[2 * i + 2])
      BY <2>5, <3>1
    <3>3. Nodes(leaves)[h][2 * i] = p[2 * i + 1] /\ Nodes(leaves)[h][2 * i + 1] = p[2 * i + 2]
      BY <2>4, <3>1
    <3>. QED BY <3>2, <3>3, NodesStep
  <2>7. ASSUME NEW i \in Nat, ~ i < Len(p) \div 2
        PROVE  Nodes(leaves)[h + 1][i] = ZeroHashes[h + 1]
    <3>1. 2 * i \in Nat /\ ~ 2 * i < Len(p) /\ 2 * i + 1 \in Nat /\ ~ 2 * i + 1 < Len(p)
      BY <2>1, <2>3, <2>7
    <3>2. Nodes(leaves)[h][2 * i] = ZeroHashes[h] /\ Nodes(leaves)[h][2 * i + 1] = ZeroHashes[h]
      BY <2>4, <3>1
    <3>. QED BY <3>2, NodesStep, ZeroHashesStep
  <2>8. Len(p) \div 2 \in Nat
    BY <2>3
  <2>9. b \in Seq(Row(leaves, h + 1)) /\ Len(b) = Len(p) \div 2
    <3>1. ASSUME NEW j \in 1 .. Len(p) \div 2 PROVE b[j] \in Row(leaves, h + 1)
      <4>1. j - 1 \in Nat /\ j - 1 < Len(p) \div 2 /\ (j - 1) + 1 = j
        BY <2>8
      <4>2. b[j] = Nodes(leaves)[h + 1][j - 1]
        BY <2>6, <4>1
      <4>. QED BY <4>1, <4>2 DEF Row
    <3>. QED BY <2>5, <2>8, <3>1
  <2>10. LeftPart(b, leaves, h + 1)
    BY <2>6, <2>7, <2>9 DEF LeftPart
  <2>. QED BY <2>2, <2>10, HeightAssumption
<1>3. 0 .. Height \subseteq T
  <2>. HIDE DEF T
  <2>. QED BY <1>1, <1>2, LevelInduction
<1>. QED BY <1>3

(* A node is the root of no more than 2 ^ h leaves. *)
LEMMA LevelLength ==
  ASSUME NEW S, NEW leaves \in Seq(S), Len(leaves) <= PowersOf2[Height]
  PROVE  \A h \in 0 .. Height : Len(Levels(leaves)[h]) \in 1 .. PowersOf2[Height - h]
<1>. DEFINE T == {h \in 0 .. Height : Len(Levels(leaves)[h]) \in 1 .. PowersOf2[Height - h]}
<1>1. 0 \in T
  <2>1. PowersOf2[Height] \in Nat \ {0} /\ Height - 0 = Height
    BY PowersPositive, HeightAssumption
  <2>2. CASE leaves = <<>>
    <3>1. Levels(leaves)[0] = <<ZeroHashes[0]>>
      BY <2>2, LevelsStep
    <3>2. Len(<<ZeroHashes[0]>>) = 1
      OBVIOUS
    <3>3. Len(Levels(leaves)[0]) = 1
      BY <3>1, <3>2, Zenon
    <3>4. 1 \in 1 .. PowersOf2[Height - 0] /\ 0 \in 0 .. Height
      BY <2>1, HeightAssumption
    <3>. QED BY <3>3, <3>4, Zenon
  <2>3. CASE leaves # <<>>
    <3>1. Levels(leaves)[0] = leaves /\ Len(leaves) \in Nat \ {0}
      BY <2>3, LevelsStep
    <3>. QED BY <2>1, <3>1, HeightAssumption
  <2>. QED BY <2>2, <2>3
<1>2. ASSUME NEW h \in 0 .. Height - 1, h \in T PROVE h + 1 \in T
  <2>. DEFINE level == Levels(leaves)[h]
              p == Padded(level, h)
  <2>1. /\ h \in 0 .. Height
        /\ LeftPart(level, leaves, h)
        /\ Len(level) \in 1 .. PowersOf2[Height - h]
    BY <1>2, LevelsLeftPart, HeightAssumption
  <2>2. Len(p) = IF Len(level) % 2 = 1 THEN Len(level) + 1 ELSE Len(level)
    <3>. HIDE DEF level
    <3>. QED BY <2>1, PaddedLeftPart
  <2>3. Levels(leaves)[h + 1] = [i \in 1 .. Len(p) \div 2 |-> Hash(p[2 * i - 1], p[2 * i])]
    BY LevelsStep DEF BuildIntermediate
  <2>. DEFINE k == Height - (h + 1)
  <2>4. /\ k \in 0 .. Height - 1 /\ k + 1 = Height - h
        /\ PowersOf2[k] \in Nat \ {0}
    BY PowersPositive, HeightAssumption
  <2>5. PowersOf2[Height - h] = 2 * PowersOf2[k]
    BY <2>4, PowersStep
  <2>. HIDE DEF level, p, k
  <2>6. Len(level) \in Nat /\ Len(p) \in Nat
    BY <2>1, <2>2, <2>4, <2>5
  <2>7. Len(p) \div 2 \in 1 .. PowersOf2[k]
    <3>1. \A l, q \in Nat, power \in Nat :
            /\ l \in 1 .. 2 * power
            /\ q = IF l % 2 = 1 THEN l + 1 ELSE l
            => q \div 2 \in 1 .. power
      OBVIOUS
    <3>2. Len(level) \in 1 .. 2 * PowersOf2[k]
      BY <2>1, <2>5
    <3>. QED BY <2>2, <2>4, <2>6, <3>1, <3>2
  <2>8. Len(Levels(leaves)[h + 1]) = Len(p) \div 2
    BY <2>3, <2>7, <2>4
  <2>. QED BY <2>7, <2>8, HeightAssumption DEF k
<1>3. 0 .. Height \subseteq T
  <2>. HIDE DEF T
  <2>. QED BY <1>1, <1>2, LevelInduction
<1>. QED BY <1>3

(* BuildL1InfoRoot and ComputeMerkleProof end with one root, that of the tree. *)
THEOREM RootIsReference ==
  ASSUME NEW S, NEW leaves \in Seq(S), Len(leaves) <= PowersOf2[Height]
  PROVE  SingleRoot(leaves) /\ BuildL1InfoRoot(leaves) = ReferenceRoot(leaves)
<1>. DEFINE top == Levels(leaves)[Height]
<1>1. Height \in 0 .. Height /\ Height - Height = 0
  BY HeightAssumption
<1>2. Len(top) = 1
  <2>1. Len(top) \in 1 .. PowersOf2[0]
    BY <1>1, LevelLength
  <2>. QED BY <2>1, PowersStep
<1>3. Nodes(leaves)[Height][0] = IF 0 < Len(top) THEN top[0 + 1] ELSE ZeroHashes[Height]
  BY <1>1, LevelsLeftPart DEF LeftPart
<1>. QED BY <1>2, <1>3 DEF SingleRoot, BuildL1InfoRoot, ReferenceRoot

-----------------------------------------------------------------------------
(* Merkle proofs. *)

Sibling(i) == IF i % 2 = 1 THEN i - 1 ELSE i + 1

(* The siblings of a path are nodes of the tree. *)
LEMMA ProofSiblings ==
  ASSUME NEW S, NEW leaves \in Seq(S), NEW index \in Nat, NEW h \in 0 .. Height - 1
  PROVE  ComputeMerkleProof(index, leaves)[h + 1] =
           Nodes(leaves)[h][Sibling(Above(index)[h])]
<1>. DEFINE p == Padded(Levels(leaves)[h], h)
            a == Above(index)[h]
<1>1. LeftPart(p, leaves, h) /\ Len(p) % 2 = 0
  BY LevelsLeftPart, PaddedLeftPart, HeightAssumption
<1>2. a \in Nat
  BY AboveNat, HeightAssumption
<1>3. Len(p) \in Nat
  BY <1>1 DEF LeftPart
<1>4. \A i \in Nat : Nodes(leaves)[h][i] = IF i < Len(p) THEN p[i + 1] ELSE ZeroHashes[h]
  BY <1>1 DEF LeftPart
<1>5. ComputeMerkleProof(index, leaves)[h + 1] =
        IF a >= Len(p) THEN ZeroHashes[h] ELSE IF a % 2 = 1 THEN p[a] ELSE p[a + 2]
  BY HeightAssumption DEF ComputeMerkleProof
<1>. HIDE DEF p, a
<1>6. Sibling(a) \in Nat /\ (Sibling(a) < Len(p) <=> a < Len(p))
  BY <1>1, <1>2, <1>3 DEF Sibling
<1>7. a < Len(p) => Sibling(a) + 1 = IF a % 2 = 1 THEN a ELSE a + 2
  BY <1>2 DEF Sibling
<1>8. ComputeMerkleProof(index, leaves)[h + 1] = Nodes(leaves)[h][Sibling(a)]
  BY <1>2, <1>3, <1>4, <1>5, <1>6, <1>7
<1>. QED BY <1>8 DEF a

(* The proof of a leaf leads to the nodes above it. *)
LEMMA ProofPath ==
  ASSUME NEW S, NEW leaves \in Seq(S), NEW index \in Nat, index < Len(leaves)
  PROVE  \A h \in 0 .. Height :
           PathOfProof(index, leaves[index + 1], ComputeMerkleProof(index, leaves))[h] =
             Nodes(leaves)[h][Above(index)[h]]
<1>. DEFINE path == PathOfProof(index, leaves[index + 1], ComputeMerkleProof(index, leaves))
            T == {h \in 0 .. Height : path[h] = Nodes(leaves)[h][Above(index)[h]]}
<1>1. 0 \in T
  <2>1. path[0] = leaves[index + 1] /\ Above(index)[0] = index
    BY PathOfProofStep, AboveStep
  <2>2. Nodes(leaves)[0][index] = leaves[index + 1]
    BY NodesStep
  <2>. QED BY <2>1, <2>2, HeightAssumption
<1>2. ASSUME NEW h \in 0 .. Height - 1, h \in T PROVE h + 1 \in T
  <2>. DEFINE a == Above(index)[h]
              b == Above(index)[h + 1]
              N == Nodes(leaves)[h]
              sibling == ComputeMerkleProof(index, leaves)[h + 1]
  <2>1. a \in Nat /\ b \in Nat /\ b = a \div 2
    BY AboveNat, AboveStep, HeightAssumption
  <2>2. path[h] = N[a]
    BY <1>2
  <2>3. sibling = N[Sibling(a)]
    BY ProofSiblings
  <2>4. path[h + 1] = IF a % 2 = 1 THEN Hash(sibling, path[h]) ELSE Hash(path[h], sibling)
    BY PathOfProofStep DEF Bit
  <2>5. Nodes(leaves)[h + 1][b] = Hash(N[2 * b], N[2 * b + 1])
    BY <2>1, NodesStep
  <2>. HIDE DEF a, b, N, sibling, path
  <2>6. IF a % 2 = 1 THEN Sibling(a) = 2 * b /\ a = 2 * b + 1
        ELSE a = 2 * b /\ Sibling(a) = 2 * b + 1
    BY <2>1 DEF Sibling
  <2>7. path[h + 1] = Nodes(leaves)[h + 1][b]
    BY <2>2, <2>3, <2>4, <2>5, <2>6
  <2>. QED BY <2>7, HeightAssumption DEF b
<1>3. 0 .. Height \subseteq T
  <2>. HIDE DEF T
  <2>. QED BY <1>1, <1>2, LevelInduction
<1>. QED BY <1>3

-----------------------------------------------------------------------------
(* Adding a leaf. *)

(* The siblings to the left of the path of the next leaf are nodes of the tree. *)
SiblingsFit(mt, leaves) ==
  \A h \in 0 .. Height - 1 :
    Bit(mt.count, h) = 1 =>
      mt.siblings[h + 1] = Nodes(leaves)[h][Above(mt.count)[h] - 1]

TreeOf(mt, leaves) ==
  /\ mt.count = Len(leaves)
  /\ Len(mt.siblings) = Height
  /\ mt.currentRoot = ReferenceRoot(leaves)
  /\ SiblingsFit(mt, leaves)

(* A tree that is built from all the leaves, by NewL1InfoTree or ResetL1InfoTree. *)
LEMMA NewTreeFits ==
  ASSUME NEW S, NEW leaves \in Seq(S), Len(leaves) <= PowersOf2[Height]
  PROVE  TreeOf(NewL1InfoTree(leaves), leaves)
<1>. DEFINE mt == NewL1InfoTree(leaves)
<1>1. mt.count = Len(leaves) /\ mt.currentRoot = ReferenceRoot(leaves)
  BY RootIsReference DEF NewL1InfoTree
<1>2. mt.siblings = IF leaves = <<>> THEN [i \in 1 .. Height |-> ZeroHashes[i - 1]]
                    ELSE ComputeMerkleProof(Len(leaves), leaves)
  BY DEF NewL1InfoTree
<1>3. mt.siblings = [i \in 1 .. Height |-> mt.siblings[i]]
  BY <1>2 DEF ComputeMerkleProof
<1>4. Height \in Nat /\ Len(leaves) \in Nat
  BY HeightAssumption
<1>5. ASSUME NEW h \in 0 .. Height - 1, Bit(Len(leaves), h) = 1
      PROVE  mt.siblings[h + 1] = Nodes(leaves)[h][Above(Len(leaves))[h] - 1]
  <2>1. CASE leaves = <<>>
    <3>. DEFINE T == {g \in 0 .. Height : Above(0)[g] = 0}
    <3>1. 0 \in T
      BY AboveStep, HeightAssumption
    <3>2. ASSUME NEW g \in 0 .. Height - 1, g \in T PROVE g + 1 \in T
      BY <3>2, AboveStep, HeightAssumption
    <3>3. 0 .. Height \subseteq T
      <4>. HIDE DEF T
      <4>. QED BY <3>1, <3>2, LevelInduction
    <3>4. Len(leaves) = 0 /\ h \in 0 .. Height
      BY <2>1, HeightAssumption
    <3>. QED BY <1>5, <3>3, <3>4 DEF Bit
  <2>2. CASE leaves # <<>>
    <3>1. mt.siblings[h + 1] = Nodes(leaves)[h][Sibling(Above(Len(leaves))[h])]
      BY <1>2, <1>4, <2>2, ProofSiblings
    <3>. QED BY <1>5, <3>1 DEF Bit, Sibling
  <2>. QED BY <2>1, <2>2
<1>. HIDE DEF mt
<1>6. SiblingsFit(mt, leaves)
  BY <1>1, <1>5 DEF SiblingsFit
<1>7. Len(mt.siblings) = Height
  <2>. DEFINE s == mt.siblings
  <2>1. s = [i \in 1 .. Height |-> s[i]]
    BY <1>3
  <2>. HIDE DEF s
  <2>2. Len(s) = Height
    BY <2>1, <1>4
  <2>. QED BY <2>2 DEF s
<1>. QED BY <1>1, <1>6, <1>7 DEF TreeOf, mt

(* AddLeaf walks over the nodes above the new leaf. *)
LEMMA PathOfNewLeaf ==
  ASSUME NEW S, NEW leaves \in Seq(S), NEW leaf \in S, NEW mt, TreeOf(mt, leaves)
  PROVE  \A h \in 0 .. Height :
           Path(mt, Len(leaves), leaf)[h] =
             Nodes(Append(leaves, leaf))[h][Above(Len(leaves))[h]]
<1>. DEFINE n == Len(leaves)
            more == Append(leaves, leaf)
            path == Path(mt, n, leaf)
            T == {h \in 0 .. Height : path[h] = Nodes(more)[h][Above(n)[h]]}
<1>1. /\ n \in Nat
      /\ Len(more) \in Nat /\ Len(more) = n + 1 /\ Len(more) <= n + 1
      /\ more[n + 1] = leaf /\ \A i \in 1 .. n : more[i] = leaves[i]
  OBVIOUS
<1>2. ASSUME NEW i \in 0 .. n - 1 PROVE Nodes(more)[0][i] = Nodes(leaves)[0][i]
  <2>. HIDE DEF more
  <2>1. /\ i \in Nat /\ i < Len(leaves) /\ i < Len(more)
        /\ more[i + 1] = leaves[i + 1]
    BY <1>1
  <2>2. Nodes(more)[0][i] = more[i + 1]
    BY <2>1, NodesStep
  <2>3. Nodes(leaves)[0][i] = leaves[i + 1]
    BY <2>1, NodesStep
  <2>. QED BY <2>1, <2>2, <2>3
<1>3. mt.count = n /\ SiblingsFit(mt, leaves)
  BY DEF TreeOf
<1>4. \A h \in 0 .. Height, i \in Nat :
        i < Above(n)[h] => Nodes(more)[h][i] = Nodes(leaves)[h][i]
  <2>. HIDE DEF n, more
  <2>. QED BY <1>1, <1>2, NodesKept
<1>5. \A h \in 0 .. Height, i \in Nat : i > Above(n)[h] => Nodes(more)[h][i] = ZeroHashes[h]
  <2>. HIDE DEF n, more
  <2>. QED BY <1>1, ZeroNodes
<1>. HIDE DEF n, more
<1>6. 0 \in T
  <2>1. path[0] = leaf /\ Above(n)[0] = n
    BY PathStep, AboveStep
  <2>2. Nodes(more)[0][n] = leaf
    BY <1>1, NodesStep
  <2>. QED BY <2>1, <2>2, HeightAssumption
<1>7. ASSUME NEW h \in 0 .. Height - 1, h \in T PROVE h + 1 \in T
  <2>. DEFINE a == Above(n)[h]
              b == Above(n)[h + 1]
              N == Nodes(more)[h]
  <2>1. a \in Nat /\ b \in Nat /\ b = a \div 2
    BY <1>1, AboveNat, AboveStep, HeightAssumption
  <2>2. path[h] = N[a]
    BY <1>7
  <2>3. path[h + 1] = IF a % 2 = 1 THEN Hash(mt.siblings[h + 1], path[h])
                      ELSE Hash(path[h], ZeroHashes[h])
    BY PathStep DEF Bit
  <2>4. Nodes(more)[h + 1][b] = Hash(N[2 * b], N[2 * b + 1])
    BY <2>1, NodesStep
  <2>5. ASSUME a % 2 = 1
        PROVE  mt.siblings[h + 1] = N[2 * b] /\ a = 2 * b + 1
    <3>1. mt.siblings[h + 1] = Nodes(leaves)[h][a - 1]
      BY <1>3, <2>5 DEF SiblingsFit, Bit
    <3>2. a - 1 \in Nat /\ a - 1 < a /\ a - 1 = 2 * b /\ a = 2 * b + 1
      BY <2>1, <2>5
    <3>. QED BY <1>4, <3>1, <3>2, HeightAssumption
  <2>6. ASSUME a % 2 # 1
        PROVE  ZeroHashes[h] = N[2 * b + 1] /\ a = 2 * b
    <3>1. a = 2 * b /\ 2 * b + 1 \in Nat /\ 2 * b + 1 > a
      BY <2>1, <2>6
    <3>. QED BY <1>5, <3>1, HeightAssumption
  <2>. HIDE DEF a, b, N, path
  <2>7. path[h + 1] = Nodes(more)[h + 1][b]
    BY <2>2, <2>3, <2>4, <2>5, <2>6
  <2>. QED BY <2>7, HeightAssumption DEF b
<1>8. 0 .. Height \subseteq T
  <2>. HIDE DEF T
  <2>. QED BY <1>6, <1>7, LevelInduction
<1>. QED BY <1>8 DEF n, more

(* The path of a leaf of the tree ends at the root. *)
LEMMA AboveRoot ==
  ASSUME NEW index \in Nat, index < PowersOf2[Height]
  PROVE  Above(index)[Height] = 0
<1>. DEFINE T == {h \in 0 .. Height : Above(index)[h] < PowersOf2[Height - h]}
<1>1. 0 \in T
  <2>1. Above(index)[0] = index /\ Height - 0 = Height /\ 0 \in 0 .. Height
    BY AboveStep, HeightAssumption
  <2>. QED BY <2>1
<1>2. ASSUME NEW h \in 0 .. Height - 1, h \in T PROVE h + 1 \in T
  <2>. DEFINE k == Height - (h + 1)
  <2>1. /\ k \in 0 .. Height - 1 /\ k + 1 = Height - h
        /\ h \in 0 .. Height /\ h + 1 \in 0 .. Height
        /\ PowersOf2[k] \in Nat
    BY PowersPositive, HeightAssumption
  <2>2. PowersOf2[Height - h] = 2 * PowersOf2[k]
    BY <2>1, PowersStep
  <2>3. Above(index)[h] \in Nat /\ Above(index)[h + 1] = Above(index)[h] \div 2
    BY <2>1, AboveNat, AboveStep
  <2>4. Above(index)[h] < 2 * PowersOf2[k]
    BY <1>2, <2>2
  <2>. HIDE DEF k
  <2>5. Above(index)[h + 1] < PowersOf2[k]
    BY <2>1, <2>3, <2>4
  <2>. QED BY <2>1, <2>5 DEF k
<1>3. 0 .. Height \subseteq T
  <2>. HIDE DEF T
  <2>. QED BY <1>1, <1>2, LevelInduction
<1>4. /\ Height \in 0 .. Height /\ Height - Height = 0
      /\ Above(index)[Height] \in Nat /\ PowersOf2[0] = 1
  BY AboveNat, PowersStep, HeightAssumption
<1>5. Above(index)[Height] < PowersOf2[Height - Height]
  BY <1>3, <1>4
<1>. QED BY <1>4, <1>5

(* The verifier of a proof that ComputeMerkleProof returns for a leaf computes the root of
   BuildL1InfoRoot. *)
THEOREM ProofsVerify ==
  ASSUME NEW S, NEW leaves \in Seq(S), Len(leaves) <= PowersOf2[Height],
         NEW index \in Nat, index < Len(leaves)
  PROVE  RootOfProof(index, leaves[index + 1], ComputeMerkleProof(index, leaves))
           = BuildL1InfoRoot(leaves)
<1>1. Height \in 0 .. Height /\ PowersOf2[Height] \in Nat
  BY HeightAssumption, PowersPositive
<1>2. index < PowersOf2[Height]
  BY <1>1
<1>3. PathOfProof(index, leaves[index + 1], ComputeMerkleProof(index, leaves))[Height]
        = Nodes(leaves)[Height][Above(index)[Height]]
  BY <1>1, ProofPath
<1>4. Above(index)[Height] = 0
  BY <1>2, AboveRoot
<1>. QED BY <1>3, <1>4, RootIsReference DEF RootOfProof, ReferenceRoot

(* AddLeaf, from one leaf and the siblings it has kept, makes the tree of the longer
   sequence, and keeps the siblings that the next leaf needs. *)
THEOREM AddLeafFits ==
  ASSUME NEW S, NEW leaves \in Seq(S), NEW leaf \in S, NEW mt, TreeOf(mt, leaves),
         Len(leaves) < PowersOf2[Height]
  PROVE  TreeOf(AddLeaf(mt, Len(leaves), leaf), Append(leaves, leaf))
<1>. DEFINE n == Len(leaves)
            more == Append(leaves, leaf)
            path == Path(mt, n, leaf)
            new == AddLeaf(mt, n, leaf)
<1>1. /\ n \in Nat /\ n + 1 \in Nat
      /\ Len(more) = n + 1
      /\ more[n + 1] = leaf /\ \A i \in 1 .. n : more[i] = leaves[i]
  OBVIOUS
<1>2. mt.count = n /\ SiblingsFit(mt, leaves)
  BY DEF TreeOf
<1>3. /\ new.count = n + 1
      /\ new.currentRoot = path[Height]
      /\ new.siblings = [i \in 1 .. Height |-> IF UpdatesSibling(n, i - 1) THEN path[i - 1]
                                              ELSE mt.siblings[i]]
  BY <1>2 DEF AddLeaf
<1>4. \A h \in 0 .. Height : path[h] = Nodes(more)[h][Above(n)[h]]
  BY PathOfNewLeaf
<1>5. \A h \in 0 .. Height, i \in Nat :
        i < Above(n)[h] => Nodes(more)[h][i] = Nodes(leaves)[h][i]
  <2>1. ASSUME NEW i \in 0 .. n - 1 PROVE Nodes(more)[0][i] = Nodes(leaves)[0][i]
    <3>1. /\ i \in Nat /\ i < Len(leaves) /\ i < Len(more)
          /\ more[i + 1] = leaves[i + 1]
      BY <1>1
    <3>. HIDE DEF more
    <3>2. Nodes(more)[0][i] = more[i + 1]
      BY <3>1, NodesStep
    <3>3. Nodes(leaves)[0][i] = leaves[i + 1]
      BY <3>1, NodesStep
    <3>. QED BY <3>1, <3>2, <3>3
  <2>. HIDE DEF n, more
  <2>. QED BY <1>1, <2>1, NodesKept
<1>. HIDE DEF n, more, path, new
<1>6. new.currentRoot = ReferenceRoot(more)
  <2>1. n < PowersOf2[Height] /\ Height \in 0 .. Height
    BY HeightAssumption DEF n
  <2>2. Above(n)[Height] = 0
    BY <1>1, <2>1, AboveRoot
  <2>. QED BY <1>3, <1>4, <2>1, <2>2 DEF ReferenceRoot
<1>7. Len(new.siblings) = Height
  <2>1. Len([i \in 1 .. Height |-> IF UpdatesSibling(n, i - 1) THEN path[i - 1]
                                   ELSE mt.siblings[i]]) = Height
    BY HeightAssumption
  <2>. QED BY <1>3, <2>1
<1>8. ASSUME NEW h \in 0 .. Height - 1, Bit(n + 1, h) = 1
      PROVE  new.siblings[h + 1] = Nodes(more)[h][Above(n + 1)[h] - 1]
  <2>. DEFINE Full == \A g \in 0 .. h - 1 : Bit(n, g) = 1
              a == Above(n)[h]
  <2>1. h \in 0 .. Height /\ h + 1 \in 1 .. Height /\ (h + 1) - 1 = h /\ a \in Nat
    BY <1>1, AboveNat, HeightAssumption
  <2>2. Above(n + 1)[h] = IF Full THEN a + 1 ELSE a
    BY <1>1, <2>1, AboveNext
  <2>3. new.siblings[h + 1] = IF UpdatesSibling(n, h) THEN path[h] ELSE mt.siblings[h + 1]
    BY <1>3, <2>1
  <2>4. UpdatesSibling(n, h) <=> a % 2 = 0 /\ Full
    BY DEF UpdatesSibling, Bit
  <2>5. Above(n + 1)[h] % 2 = 1
    BY <1>8 DEF Bit
  <2>6. CASE Full
    <3>1. Above(n + 1)[h] = a + 1 /\ a % 2 = 0 /\ (a + 1) - 1 = a
      BY <2>1, <2>2, <2>5, <2>6
    <3>. QED BY <1>4, <2>1, <2>3, <2>4, <2>6, <3>1
  <2>7. CASE ~ Full
    <3>1. Above(n + 1)[h] = a /\ a % 2 = 1 /\ new.siblings[h + 1] = mt.siblings[h + 1]
      BY <2>1, <2>2, <2>3, <2>4, <2>5, <2>7
    <3>2. mt.siblings[h + 1] = Nodes(leaves)[h][a - 1]
      BY <1>2, <3>1 DEF SiblingsFit, Bit
    <3>3. a - 1 \in Nat /\ a - 1 < a
      BY <2>1, <3>1
    <3>. QED BY <1>5, <2>1, <3>1, <3>2, <3>3
  <2>. QED BY <2>6, <2>7
<1>9. SiblingsFit(new, more)
  BY <1>3, <1>8 DEF SiblingsFit
<1>. QED BY <1>1, <1>3, <1>6, <1>7, <1>9 DEF TreeOf, n, more, new

-----------------------------------------------------------------------------
(* Trees with the same root have the same leaves: hashes are free of collisions. *)

(* A hash is the pair of what it is a hash of. *)
LEMMA HashInjective ==
  ASSUME NEW a, NEW b, NEW c, NEW d, Hash(a, b) = Hash(c, d)
  PROVE  a = c /\ b = d
<1>. USE DEF Hash
<1>1. <<a, b>>[1] = a /\ <<a, b>>[2] = b /\ <<c, d>>[1] = c /\ <<c, d>>[2] = d
  OBVIOUS
<1>. QED BY <1>1

(* No two sequences of leaves have the same root, whatever their lengths. *)
THEOREM SameRootSameLeaves ==
  ASSUME NEW S, NEW s \in Seq(S), NEW t \in Seq(S), 0 \notin S,
         Len(s) <= PowersOf2[Height], Len(t) <= PowersOf2[Height],
         ReferenceRoot(s) = ReferenceRoot(t)
  PROVE  s = t
<1>. DEFINE Same(h) == \A i \in 0 .. PowersOf2[h] - 1 :
                         Nodes(s)[Height - h][i] = Nodes(t)[Height - h][i]
            T == {h \in 0 .. Height : Same(h)}
<1>1. 0 \in T
  <2>1. 0 \in 0 .. Height /\ Height - 0 = Height
    BY HeightAssumption
  <2>2. Nodes(s)[Height][0] = Nodes(t)[Height][0]
    BY DEF ReferenceRoot
  <2>3. \A i \in 0 .. PowersOf2[0] - 1 : i = 0
    BY PowersStep
  <2>. QED BY <2>1, <2>2, <2>3
<1>2. ASSUME NEW h \in 0 .. Height - 1, h \in T PROVE h + 1 \in T
  <2>. DEFINE k == Height - (h + 1)
  <2>1. k \in 0 .. Height - 1 /\ k + 1 = Height - h /\ h + 1 \in 0 .. Height /\ h \in 0 .. Height
    BY HeightAssumption
  <2>2. PowersOf2[h] \in Nat /\ PowersOf2[h + 1] = 2 * PowersOf2[h]
    BY <2>1, PowersPositive, PowersStep
  <2>. SUFFICES ASSUME NEW i \in 0 .. PowersOf2[h + 1] - 1
                PROVE  Nodes(s)[k][i] = Nodes(t)[k][i]
    BY <2>1
  <2>. DEFINE j == i \div 2
  <2>3. /\ i \in Nat /\ j \in Nat /\ j \in 0 .. PowersOf2[h] - 1
        /\ i = 2 * j \/ i = 2 * j + 1
    BY <2>2
  <2>4. Nodes(s)[k + 1][j] = Nodes(t)[k + 1][j]
    BY <1>2, <2>1, <2>3
  <2>. HIDE DEF j, k
  <2>5. Nodes(s)[k + 1][j] = Hash(Nodes(s)[k][2 * j], Nodes(s)[k][2 * j + 1])
    BY <2>1, <2>3, NodesStep
  <2>6. Nodes(t)[k + 1][j] = Hash(Nodes(t)[k][2 * j], Nodes(t)[k][2 * j + 1])
    BY <2>1, <2>3, NodesStep
  <2>7. /\ Nodes(s)[k][2 * j] = Nodes(t)[k][2 * j]
        /\ Nodes(s)[k][2 * j + 1] = Nodes(t)[k][2 * j + 1]
    <3>1. Hash(Nodes(s)[k][2 * j], Nodes(s)[k][2 * j + 1]) =
            Hash(Nodes(t)[k][2 * j], Nodes(t)[k][2 * j + 1])
      BY <2>4, <2>5, <2>6
    <3>. HIDE DEF Same, T
    <3>. QED BY <3>1, HashInjective
  <2>. QED BY <2>3, <2>7
<1>3. 0 .. Height \subseteq T
  <2>. HIDE DEF T
  <2>. QED BY <1>1, <1>2, LevelInduction
<1>4. \A i \in 0 .. PowersOf2[Height] - 1 : Nodes(s)[0][i] = Nodes(t)[0][i]
  BY <1>3, HeightAssumption
<1>5. ASSUME NEW i \in Nat, i < PowersOf2[Height]
      PROVE  /\ i < Len(s) <=> i < Len(t)
             /\ i < Len(s) => s[i + 1] = t[i + 1]
  <2>1. /\ Nodes(s)[0][i] = IF i < Len(s) THEN s[i + 1] ELSE 0
        /\ Nodes(t)[0][i] = IF i < Len(t) THEN t[i + 1] ELSE 0
    BY NodesStep
  <2>2. (i < Len(s) => s[i + 1] \in S) /\ (i < Len(t) => t[i + 1] \in S)
    OBVIOUS
  <2>3. Nodes(s)[0][i] = Nodes(t)[0][i]
    BY <1>4, <1>5, PowersPositive, HeightAssumption
  <2>. QED BY <2>1, <2>2, <2>3
<1>6. Len(s) = Len(t)
  <2>1. Len(s) \in Nat /\ Len(t) \in Nat /\ PowersOf2[Height] \in Nat
    BY PowersPositive, HeightAssumption
  <2>2. ~ Len(s) < Len(t)
    BY <2>1, <1>5
  <2>3. ~ Len(t) < Len(s)
    BY <2>1, <1>5
  <2>. QED BY <2>1, <2>2, <2>3
<1>7. ASSUME NEW i \in 1 .. Len(s) PROVE s[i] = t[i]
  <2>1. i - 1 \in Nat /\ i - 1 < Len(s) /\ (i - 1) + 1 = i /\ i - 1 < PowersOf2[Height]
    BY PowersPositive, HeightAssumption
  <2>. QED BY <1>5, <2>1
<1>. QED BY <1>6, <1>7
=============================================================================
