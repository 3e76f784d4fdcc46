-------------------------- MODULE ExclusiveProofs ---------------------------
(* Mutual exclusion in Aggregator: rows and claims never share a batch, and the
   row of a claim stays locked.  It rests on two assumptions, both false of some
   executions of the program: the rows in use are not cleaned up (StaleLock.cfg
   shows what happens otherwise), and no transaction that was given up is mined
   (the deletion of validateEligibleFinalProof and the unlocking that follows it
   then race with a prover that read L1 before). *)
EXTENDS AggregatorProofs

Prompt == PromptHolders /\ ~ LateMining

-----------------------------------------------------------------------------
(* The inductive invariant. *)

(* Only one prover at a time is in the section of getAndLockBatchToProve. *)
MutexHeldOnce ==
  \A p, q \in Provers : pc[p] = "choose" /\ pc[q] = "choose" => p = q

SeenBelow == \A p \in Provers : seen[p] <= lastVerified

(* A number of verified batches read under the mutex may be stale, but not with
   respect to the proofs other provers have in memory: these cannot have been
   settled meanwhile. *)
StaleReadersSafe ==
  \A p, q \in Provers : pc[q] = "choose" =>
    \A c \in held[p] : c.to <= lastVerified => c.to <= seen[q]

ExclusiveInv ==
  /\ RowsDisjoint
  /\ ClaimsExclusive
  /\ ClaimsLocked
  /\ MutexHeldOnce
  /\ SeenBelow
  /\ StaleReadersSafe

-----------------------------------------------------------------------------
(* Rows, under the statements of ProofStore. *)

AllDisjoint(P) == \A r, s \in P : r = s \/ Disjoint(r, s)

LockedIn(P, c) == \E r \in P : SameKey(r, c) /\ r.since = "recent"

Clear(P, c) == \A r \in P : Disjoint(r, c)

(* What ClaimsLocked says of one claim. *)
ClaimSafe(P, at, c, last) ==
  IF at = "dropped" THEN c.to <= last /\ Clear(P, c) ELSE LockedIn(P, c)

LEMMA DisjointSym ==
  ASSUME NEW x, NEW y
  PROVE  Disjoint(x, y) <=> Disjoint(y, x)
  BY DEF Disjoint

LEMMA NotSelfDisjoint ==
  ASSUME NEW x \in Held \cup Rows, NEW y, SameKey(x, y)
  PROVE  ~ Disjoint(x, y)
  BY LastBatchAssumption DEF Held, Rows, Batches, SameKey, Disjoint

LEMMA UpdateDisjoint ==
  ASSUME NEW P, NEW C, NEW since, AllDisjoint(P),
         \A c, d \in C : c = d \/ Disjoint(c, d)
  PROVE  AllDisjoint(UpdateGeneratedProof(P, C, since))
  BY DEF AllDisjoint, UpdateGeneratedProof, SameKey, Row, Disjoint

LEMMA AddDisjoint ==
  ASSUME NEW P, NEW c, AllDisjoint(P), \A r \in P : Disjoint(c, r)
  PROVE  AllDisjoint(AddGeneratedProof(P, c))
  BY DEF AllDisjoint, AddGeneratedProof, Row, Disjoint

LEMMA UpdateClear ==
  ASSUME NEW P, NEW C, NEW since, NEW d, Clear(P, d)
  PROVE  Clear(UpdateGeneratedProof(P, C, since), d)
  BY DEF Clear, UpdateGeneratedProof, SameKey, Row, Disjoint

LEMMA UpdateKeepsLock ==
  ASSUME NEW P, NEW C \in SUBSET Held, NEW since, NEW d, LockedIn(P, d),
         \A c \in C : Disjoint(c, d)
  PROVE  LockedIn(UpdateGeneratedProof(P, C, since), d)
<1>1. PICK r \in P : SameKey(r, d) /\ r.since = "recent"
  BY DEF LockedIn
<1>2. \A c \in C : ~ SameKey(c, r)
  BY <1>1, NotSelfDisjoint DEF SameKey
<1>. QED  BY <1>1, <1>2 DEF LockedIn, UpdateGeneratedProof

(* A claim on rows is compatible with a claim that does not overlap them. *)
LEMMA UpdateSafe ==
  ASSUME NEW P, NEW C \in SUBSET Held, NEW since, NEW at, NEW d, NEW last,
         ClaimSafe(P, at, d, last), \A c \in C : Disjoint(c, d)
  PROVE  ClaimSafe(UpdateGeneratedProof(P, C, since), at, d, last)
  BY UpdateClear, UpdateKeepsLock DEF ClaimSafe

LEMMA DeleteSafe ==
  ASSUME NEW P \in SUBSET Rows, NEW c \in Held, NEW at, NEW d, NEW last,
         ClaimSafe(P, at, d, last), Disjoint(c, d)
  PROVE  ClaimSafe(DeleteGeneratedProofs(P, c), at, d, last)
<1>1. CASE at = "dropped"
  BY <1>1 DEF ClaimSafe, Clear, DeleteGeneratedProofs
<1>2. CASE at # "dropped"
  <2>1. PICK r \in P : SameKey(r, d) /\ r.since = "recent"
    BY <1>2 DEF ClaimSafe, LockedIn
  <2>2. ~ Within(r, c)
    BY <2>1, LastBatchAssumption DEF Within, SameKey, Disjoint, Rows, Held, Batches
  <2>. QED  BY <1>2, <2>1, <2>2 DEF ClaimSafe, LockedIn, DeleteGeneratedProofs
<1>. QED  BY <1>1, <1>2

LEMMA AddSafe ==
  ASSUME NEW P, NEW c, NEW at, NEW d, NEW last,
         ClaimSafe(P, at, d, last), Disjoint(c, d)
  PROVE  ClaimSafe(AddGeneratedProof(P, c), at, d, last)
  BY DEF ClaimSafe, Clear, LockedIn, AddGeneratedProof, Row, Disjoint

(* A range apart from two adjacent ones is apart from their union. *)
LEMMA UnionDisjoint ==
  ASSUME NEW x \in Held, NEW y \in Held, Adjacent(x, y),
         NEW z, z.from \in Nat, z.to \in Nat, z.from <= z.to,
         Disjoint(x, z), Disjoint(y, z)
  PROVE  Disjoint(Aggregated(x, y), z)
  BY LastBatchAssumption DEF Adjacent, Disjoint, Aggregated, Proof, Held, Batches

-----------------------------------------------------------------------------
(* Steps of one holder. *)

(* Nobody newly enters the section under the mutex, or has its number changed
   there. *)
ReadersKept ==
  /\ lastVerified' = lastVerified
  /\ \A q \in Provers :
       /\ seen'[q] <= lastVerified
       /\ pc'[q] = "choose" => pc[q] = "choose" /\ seen'[q] = seen[q]

(* The claims of the others stay compatible with the rows. *)
OthersSafe(h) ==
  \A g \in Holders : g # h =>
    \A d \in held[g] : ClaimSafe(proofs', pc[g], d, lastVerified)

(* The claims h ends up with are compatible with the rows, with the claims of
   the others, and with the numbers read under the mutex. *)
ClaimFits(h, c) ==
  /\ ClaimSafe(proofs', pc'[h], c, lastVerified)
  /\ \A g \in Holders : g # h => \A d \in held[g] : Disjoint(c, d)
  /\ h \in Provers /\ c.to <= lastVerified =>
       \A q \in Provers : pc'[q] = "choose" => c.to <= seen[q]

OwnSafe(h) == \A c \in held'[h] : ClaimFits(h, c)

LEMMA ExclusiveFrame ==
  ASSUME TypeOK, ExclusiveInv, NEW h \in Holders, Alone(h), ReadersKept,
         AllDisjoint(proofs'), OthersSafe(h), OwnSafe(h)
  PROVE  ExclusiveInv'
<1>1. RowsDisjoint'
  BY DEF RowsDisjoint, AllDisjoint
<1>2. ClaimsExclusive'
  <2>. SUFFICES ASSUME NEW f \in Holders, NEW g \in Holders, f # g,
                       NEW c \in held'[f], NEW d \in held'[g]
                PROVE  Disjoint(c, d)
    BY DEF ClaimsExclusive
  <2>1. CASE f = h
    BY <2>1 DEF OwnSafe, ClaimFits, Alone
  <2>2. CASE g = h
    BY <2>2, DisjointSym DEF OwnSafe, ClaimFits, Alone
  <2>3. CASE f # h /\ g # h
    BY <2>3 DEF Alone, ExclusiveInv, ClaimsExclusive
  <2>. QED  BY <2>1, <2>2, <2>3
<1>3. ClaimsLocked'
  <2>. SUFFICES ASSUME NEW g \in Holders, NEW d \in held'[g]
                PROVE  ClaimSafe(proofs', pc'[g], d, lastVerified')
    BY DEF ClaimsLocked, ClaimSafe, LockedIn, Clear
  <2>1. CASE g = h
    BY <2>1 DEF OwnSafe, ClaimFits, ReadersKept
  <2>2. CASE g # h
    BY <2>2 DEF OthersSafe, Alone, ReadersKept
  <2>. QED  BY <2>1, <2>2
<1>4. MutexHeldOnce' /\ SeenBelow'
  BY DEF ReadersKept, ExclusiveInv, MutexHeldOnce, SeenBelow
<1>5. StaleReadersSafe'
  <2>. SUFFICES ASSUME NEW p \in Provers, NEW q \in Provers, pc'[q] = "choose",
                       NEW c \in held'[p], c.to <= lastVerified'
                PROVE  c.to <= seen'[q]
    BY DEF StaleReadersSafe
  <2>1. p \in Holders /\ seen'[q] = seen[q] /\ lastVerified' = lastVerified
    BY DEF Holders, ReadersKept
  <2>2. CASE p = h
    BY <2>1, <2>2 DEF OwnSafe, ClaimFits
  <2>3. CASE p # h
    BY <2>1, <2>3 DEF Alone, ReadersKept, ExclusiveInv, StaleReadersSafe
  <2>. QED  BY <2>2, <2>3
<1>. QED  BY <1>1, <1>2, <1>3, <1>4, <1>5 DEF ExclusiveInv

(* What the invariant says of the claims. *)
LEMMA InvSafe ==
  ASSUME ExclusiveInv, NEW g \in Holders, NEW d \in held[g]
  PROVE  /\ ClaimSafe(proofs, pc[g], d, lastVerified)
         /\ \A f \in Holders : f # g => \A c \in held[f] : Disjoint(c, d)
  BY DEF ExclusiveInv, ClaimsLocked, ClaimSafe, LockedIn, Clear, ClaimsExclusive

(* A holder moves on, and keeps its proofs or drops them. *)
LEMMA MovesOn ==
  ASSUME TypeOK, ExclusiveInv, NEW h \in Holders, Alone(h), ReadersKept,
         proofs' = proofs,
         held'[h] = {} \/ (held'[h] = held[h] /\ pc[h] # "dropped" /\ pc'[h] # "dropped")
  PROVE  ExclusiveInv'
<1>1. AllDisjoint(proofs')
  BY DEF ExclusiveInv, RowsDisjoint, AllDisjoint
<1>2. OthersSafe(h)
  BY InvSafe DEF OthersSafe
<1>3. OwnSafe(h)
  <2>. SUFFICES ASSUME NEW c \in held'[h], held'[h] = held[h],
                       pc[h] # "dropped", pc'[h] # "dropped"
                PROVE  ClaimFits(h, c)
    BY DEF OwnSafe
  <2>1. ClaimSafe(proofs', pc'[h], c, lastVerified)
    BY InvSafe DEF ClaimSafe
  <2>2. \A g \in Holders : g # h => \A d \in held[g] : Disjoint(c, d)
    BY InvSafe, DisjointSym
  <2>3. h \in Provers /\ c.to <= lastVerified =>
          \A q \in Provers : pc'[q] = "choose" => c.to <= seen[q]
    BY DEF ReadersKept, ExclusiveInv, StaleReadersSafe
  <2>. QED  BY <2>1, <2>2, <2>3 DEF ClaimFits
<1>. QED  BY <1>1, <1>2, <1>3, ExclusiveFrame

(* A holder gives up its proofs, and may unlock their rows. *)
LEMMA GivesUp ==
  ASSUME TypeOK, ClaimsApart, ExclusiveInv, NEW h \in Holders, Alone(h), ReadersKept,
         \/ proofs' = proofs
         \/ proofs' = UpdateGeneratedProof(proofs, held[h], "null"),
         held'[h] = {}
  PROVE  ExclusiveInv'
<1>1. AllDisjoint(proofs')
  <2>1. AllDisjoint(proofs)
    BY DEF ExclusiveInv, RowsDisjoint, AllDisjoint
  <2>2. \A c, d \in held[h] : c = d \/ Disjoint(c, d)
    BY DEF ClaimsApart
  <2>. QED  BY <2>1, <2>2, UpdateDisjoint
<1>2. OthersSafe(h)
  <2>. SUFFICES ASSUME NEW g \in Holders, g # h, NEW d \in held[g]
                PROVE  ClaimSafe(proofs', pc[g], d, lastVerified)
    BY DEF OthersSafe
  <2>1. ClaimSafe(proofs, pc[g], d, lastVerified) /\ \A c \in held[h] : Disjoint(c, d)
    BY InvSafe
  <2>2. held[h] \in SUBSET Held
    BY DEF TypeOK
  <2>. QED  BY <2>1, <2>2, UpdateSafe
<1>3. OwnSafe(h)
  BY DEF OwnSafe
<1>. QED  BY <1>1, <1>2, <1>3, ExclusiveFrame

(* A prover outside the mutex locks the rows of C, which nobody works on. *)
LEMMA LocksRows ==
  ASSUME TypeOK, ExclusiveInv, NEW p \in Provers, Alone(p), ReadersKept, MutexFree,
         NEW R \in SUBSET proofs, \A r \in R : r.since = "null",
         proofs' = UpdateGeneratedProof(proofs, {Content(r) : r \in R}, "recent"),
         held'[p] \subseteq {Content(r) : r \in R},
         pc'[p] # "dropped"
  PROVE  ExclusiveInv'
<1>. DEFINE C == {Content(r) : r \in R}
<1>0. p \in Holders /\ proofs \in SUBSET Rows /\ AllDisjoint(proofs) /\ C \in SUBSET Held
  BY ContentTyped DEF Holders, TypeOK, ExclusiveInv, RowsDisjoint, AllDisjoint
<1>1. AllDisjoint(proofs')
  <2>1. \A c, d \in C : c = d \/ Disjoint(c, d)
    BY <1>0 DEF AllDisjoint, Disjoint, Content, Proof
  <2>. QED  BY <1>0, <2>1, UpdateDisjoint
<1>2. ASSUME NEW g \in Holders, NEW d \in held[g], NEW c \in C
      PROVE  Disjoint(c, d)
  <2>1. PICK r \in R : c = Content(r)
    OBVIOUS
  <2>2. CASE pc[g] = "dropped"
    BY <2>1, <2>2, InvSafe DEF ClaimSafe, Clear, Disjoint, Content, Proof
  <2>3. CASE pc[g] # "dropped"
    <3>1. PICK s \in proofs : SameKey(s, d) /\ s.since = "recent"
      BY <2>3, InvSafe DEF ClaimSafe, LockedIn
    <3>2. Disjoint(r, s)
      BY <1>0, <3>1 DEF AllDisjoint
    <3>. QED  BY <2>1, <3>1, <3>2 DEF Disjoint, SameKey, Content, Proof
  <2>. QED  BY <2>2, <2>3
<1>3. OthersSafe(p)
  <2>. SUFFICES ASSUME NEW g \in Holders, g # p, NEW d \in held[g]
                PROVE  ClaimSafe(proofs', pc[g], d, lastVerified)
    BY DEF OthersSafe
  <2>1. ClaimSafe(proofs, pc[g], d, lastVerified) /\ \A c \in C : Disjoint(c, d)
    BY <1>2, InvSafe
  <2>. QED  BY <1>0, <2>1, UpdateSafe
<1>4. OwnSafe(p)
  <2>. SUFFICES ASSUME NEW c \in held'[p] PROVE ClaimFits(p, c)
    BY DEF OwnSafe
  <2>1. ClaimSafe(proofs', pc'[p], c, lastVerified)
    <3>1. PICK r \in R : c = Content(r)
      OBVIOUS
    <3>2. Row(c, "recent") \in proofs' /\ SameKey(Row(c, "recent"), c)
      BY <3>1 DEF UpdateGeneratedProof, SameKey, Row, Content, Proof
    <3>. QED  BY <3>2 DEF ClaimSafe, LockedIn, Row
  <2>2. \A g \in Holders : g # p => \A d \in held[g] : Disjoint(c, d)
    BY <1>2
  <2>3. \A q \in Provers : pc'[q] # "choose"
    BY DEF MutexFree, ReadersKept
  <2>. QED  BY <2>1, <2>2, <2>3 DEF ClaimFits
<1>. QED  BY <1>0, <1>1, <1>3, <1>4, ExclusiveFrame

(* Deleting the rows of the holder's own proof, which it drops or keeps in memory
   as a proof of verified batches. *)
LEMMA DeletesOwn ==
  ASSUME TypeOK, ClaimsApart, ExclusiveInv, NEW h \in Holders, Alone(h), ReadersKept,
         NEW c \in held[h],
         pc[h] # "dropped",
         proofs' = DeleteGeneratedProofs(proofs, c),
         \/ held'[h] = {}
         \/ /\ held'[h] = held[h]
            /\ pc[h] # "aggregating"
            /\ pc'[h] = "dropped"
            /\ c.to <= lastVerified
  PROVE  ExclusiveInv'
<1>0. proofs \in SUBSET Rows /\ AllDisjoint(proofs) /\ c \in Held
  BY DEF TypeOK, ExclusiveInv, RowsDisjoint, AllDisjoint
<1>1. AllDisjoint(proofs')
  BY <1>0 DEF AllDisjoint, DeleteGeneratedProofs
<1>2. OthersSafe(h)
  BY <1>0, InvSafe, DeleteSafe DEF OthersSafe
<1>3. OwnSafe(h)
  <2>. SUFFICES ASSUME held'[h] = held[h], pc[h] # "aggregating",
                       pc'[h] = "dropped", c.to <= lastVerified
                PROVE  OwnSafe(h)
    BY DEF OwnSafe
  <2>1. \A d \in held[h] : d = c
    BY DEF ClaimsApart
  <2>2. PICK r \in proofs : SameKey(r, c)
    BY InvSafe DEF ClaimSafe, LockedIn
  <2>3. Clear(proofs', c)
    <3>. SUFFICES ASSUME NEW s \in proofs, ~ Within(s, c) PROVE Disjoint(s, c)
      BY DEF Clear, DeleteGeneratedProofs
    <3>1. s # r
      BY <1>0, <2>2, LastBatchAssumption DEF Within, SameKey, Rows, Held, Batches
    <3>2. Disjoint(s, r)
      BY <1>0, <3>1 DEF AllDisjoint
    <3>. QED  BY <2>2, <3>2 DEF Disjoint, SameKey
  <2>4. \A g \in Holders : g # h => \A d \in held[g] : Disjoint(c, d)
    BY InvSafe, DisjointSym
  <2>5. h \in Provers => \A q \in Provers : pc'[q] = "choose" => c.to <= seen[q]
    BY DEF ReadersKept, ExclusiveInv, StaleReadersSafe
  <2>. QED  BY <2>1, <2>3, <2>4, <2>5 DEF OwnSafe, ClaimFits, ClaimSafe
<1>. QED  BY <1>1, <1>2, <1>3, ExclusiveFrame

(* Two rows of a pair are replaced by the row of their aggregation, which the
   prover keeps in memory, or unlocks in vain when the reply was lost. *)
LEMMA Aggregates ==
  ASSUME TypeOK, ClaimsApart, ExclusiveInv, NEW p \in Provers, Alone(p), ReadersKept,
         NEW x \in held[p], NEW y \in held[p], Adjacent(x, y),
         pc[p] # "dropped", pc'[p] # "dropped",
         LET c == Aggregated(x, y) IN
         \/ /\ proofs' = ReplaceByAggregated(proofs, c)
            /\ held'[p] = {c}
         \/ /\ proofs' = UpdateGeneratedProof(ReplaceByAggregated(proofs, c), held[p], "null")
            /\ held'[p] = {}
  PROVE  ExclusiveInv'
<1>. DEFINE c == Aggregated(x, y)
            Q == ReplaceByAggregated(proofs, c)
<1>0. /\ p \in Holders /\ proofs \in SUBSET Rows /\ AllDisjoint(proofs)
      /\ held[p] \in SUBSET Held /\ x \in Held /\ y \in Held /\ c \in Held
  BY AggregatedTyped DEF Holders, TypeOK, ExclusiveInv, RowsDisjoint, AllDisjoint
<1>1. \A z : (/\ z.from \in Nat /\ z.to \in Nat /\ z.from <= z.to
              /\ Disjoint(x, z) /\ Disjoint(y, z)) => Disjoint(c, z)
  BY <1>0, UnionDisjoint
<1>2. PICK r \in proofs, s \in proofs : SameKey(r, x) /\ SameKey(s, y)
  BY <1>0, InvSafe DEF ClaimSafe, LockedIn
<1>3. \A w \in DeleteGeneratedProofs(proofs, c) : Disjoint(c, w)
  <2>. SUFFICES ASSUME NEW w \in proofs, ~ Within(w, c) PROVE Disjoint(c, w)
    BY DEF DeleteGeneratedProofs
  <2>1. w # r /\ w # s
    BY <1>0, <1>2, LastBatchAssumption
    DEF Within, SameKey, Adjacent, Aggregated, Proof, Rows, Held, Batches
  <2>2. Disjoint(x, w) /\ Disjoint(y, w)
    BY <1>0, <1>2, <2>1 DEF AllDisjoint, Disjoint, SameKey
  <2>3. w.from \in Nat /\ w.to \in Nat /\ w.from <= w.to
    BY <1>0, LastBatchAssumption DEF Rows, Batches
  <2>. QED  BY <1>1, <2>2, <2>3
<1>4. AllDisjoint(Q)
  <2>1. AllDisjoint(DeleteGeneratedProofs(proofs, c))
    BY <1>0 DEF AllDisjoint, DeleteGeneratedProofs
  <2>. QED  BY <1>3, <2>1, AddDisjoint DEF ReplaceByAggregated
<1>5. \A g \in Holders : g # p => \A d \in held[g] : Disjoint(c, d)
  <2>. SUFFICES ASSUME NEW g \in Holders, g # p, NEW d \in held[g] PROVE Disjoint(c, d)
    OBVIOUS
  <2>1. Disjoint(x, d) /\ Disjoint(y, d)
    BY <1>0, InvSafe
  <2>2. d.from \in Nat /\ d.to \in Nat /\ d.from <= d.to
    BY LastBatchAssumption DEF TypeOK, Held, Batches
  <2>. QED  BY <1>1, <2>1, <2>2
<1>6. \A g \in Holders : g # p => \A d \in held[g] : ClaimSafe(Q, pc[g], d, lastVerified)
  BY <1>0, <1>5, InvSafe, DeleteSafe, AddSafe DEF ReplaceByAggregated
<1>7. CASE proofs' = Q /\ held'[p] = {c}
  <2>1. LockedIn(proofs', c)
    <3>1. Row(c, "recent") \in proofs' /\ SameKey(Row(c, "recent"), c)
      BY <1>7 DEF ReplaceByAggregated, AddGeneratedProof, SameKey, Row
    <3>. QED  BY <3>1 DEF LockedIn, Row
  <2>2. c.to <= lastVerified => \A q \in Provers : pc'[q] = "choose" => c.to <= seen[q]
    <3>1. c.to = y.to
      BY DEF Aggregated, Proof
    <3>. QED  BY <3>1 DEF ReadersKept, ExclusiveInv, StaleReadersSafe
  <2>3. OwnSafe(p)
    BY <1>5, <1>7, <2>1, <2>2 DEF OwnSafe, ClaimFits, ClaimSafe
  <2>. QED  BY <1>0, <1>4, <1>6, <1>7, <2>3, ExclusiveFrame DEF OthersSafe
<1>8. CASE proofs' = UpdateGeneratedProof(Q, held[p], "null") /\ held'[p] = {}
  <2>1. AllDisjoint(proofs')
    <3>1. \A u, v \in held[p] : u = v \/ Disjoint(u, v)
      BY <1>0 DEF ClaimsApart
    <3>. QED  BY <1>4, <1>8, <3>1, UpdateDisjoint
  <2>2. OthersSafe(p)
    <3>. SUFFICES ASSUME NEW g \in Holders, g # p, NEW d \in held[g]
                  PROVE  ClaimSafe(proofs', pc[g], d, lastVerified)
      BY DEF OthersSafe
    <3>1. ClaimSafe(Q, pc[g], d, lastVerified) /\ \A u \in held[p] : Disjoint(u, d)
      BY <1>0, <1>6, InvSafe
    <3>. QED  BY <1>0, <1>8, <3>1, UpdateSafe
  <2>. QED  BY <1>0, <1>8, <2>1, <2>2, ExclusiveFrame DEF OwnSafe
<1>. QED  BY <1>7, <1>8

(* The batch chosen under the mutex is in no row and in no claim of another. *)
LEMMA BatchApart ==
  ASSUME TypeOK, ExclusiveInv, NEW p \in Provers, pc[p] = "choose",
         NEW b \in Batches, NextToProve(p, b)
  PROVE  LET c == Proof(b, b, FALSE) IN
         /\ \A r \in proofs : Disjoint(c, r)
         /\ \A g \in Holders : g # p => \A d \in held[g] : Disjoint(c, d)
<1>. DEFINE c == Proof(b, b, FALSE)
<1>0. proofs \in SUBSET Rows /\ b \in Nat /\ c.from = b /\ c.to = b
  BY LastBatchAssumption DEF TypeOK, Batches, Proof
<1>1. \A r \in proofs : Disjoint(c, r)
  <2>. SUFFICES ASSUME NEW r \in proofs PROVE Disjoint(c, r)
    OBVIOUS
  <2>1. ~ (r.from <= b /\ b <= r.to)
    BY DEF NextToProve, CheckProofExistsForBatch, Contains
  <2>2. r.from \in Nat /\ r.to \in Nat
    BY <1>0, LastBatchAssumption DEF Rows, Batches
  <2>3. r.to < b \/ b < r.from
    BY <1>0, <2>1, <2>2
  <2>. QED  BY <1>0, <2>3 DEF Disjoint
<1>2. \A g \in Holders : g # p => \A d \in held[g] : Disjoint(c, d)
  <2>. SUFFICES ASSUME NEW g \in Holders, g # p, NEW d \in held[g] PROVE Disjoint(c, d)
    OBVIOUS
  <2>1. CASE pc[g] = "dropped"
    <3>1. g \in Provers
      BY <2>1 DEF Holders, TypeOK, SenderPC
    <3>2. d.to <= lastVerified
      BY <2>1, InvSafe DEF ClaimSafe
    <3>3. d.to <= seen[p]
      BY <3>1, <3>2 DEF ExclusiveInv, StaleReadersSafe
    <3>4. seen[p] < b /\ d.to \in Nat /\ seen[p] \in Nat
      BY LastBatchAssumption DEF NextToProve, TypeOK, Held, Batches
    <3>5. d.to < b
      BY <1>0, <3>3, <3>4
    <3>. QED  BY <1>0, <3>5 DEF Disjoint
  <2>2. CASE pc[g] # "dropped"
    <3>1. PICK r \in proofs : SameKey(r, d)
      BY <2>2, InvSafe DEF ClaimSafe, LockedIn
    <3>. QED  BY <1>1, <3>1 DEF Disjoint, SameKey
  <2>. QED  BY <2>1, <2>2
<1>. QED  BY <1>1, <1>2

(* The prover under the mutex inserts the row of that batch. *)
LEMMA LocksBatch ==
  ASSUME TypeOK, ExclusiveInv, NEW p \in Provers, Alone(p), ReadersKept,
         pc[p] = "choose", pc'[p] \notin {"choose", "dropped"},
         NEW b \in Batches, NextToProve(p, b),
         LET c == Proof(b, b, FALSE) IN
         \/ proofs' = AddGeneratedProof(proofs, c) /\ held'[p] \subseteq {c}
         \/ proofs' = proofs /\ held'[p] = {}
  PROVE  ExclusiveInv'
<1>. DEFINE c == Proof(b, b, FALSE)
<1>0. p \in Holders /\ AllDisjoint(proofs)
  BY DEF Holders, ExclusiveInv, RowsDisjoint, AllDisjoint
<1>1. CASE proofs' = proofs /\ held'[p] = {}
  BY <1>0, <1>1, MovesOn
<1>2. CASE proofs' = AddGeneratedProof(proofs, c) /\ held'[p] \subseteq {c}
  <2>1. /\ \A r \in proofs : Disjoint(c, r)
        /\ \A g \in Holders : g # p => \A d \in held[g] : Disjoint(c, d)
    BY BatchApart
  <2>2. AllDisjoint(proofs')
    BY <1>0, <1>2, <2>1, AddDisjoint
  <2>3. OthersSafe(p)
    BY <1>2, <2>1, InvSafe, AddSafe DEF OthersSafe
  <2>4. OwnSafe(p)
    <3>1. LockedIn(proofs', c)
      <4>1. Row(c, "recent") \in proofs' /\ SameKey(Row(c, "recent"), c)
        BY <1>2 DEF AddGeneratedProof, SameKey, Row
      <4>. QED  BY <4>1 DEF LockedIn, Row
    <3>2. \A q \in Provers : pc'[q] # "choose"
      BY DEF ReadersKept, ExclusiveInv, MutexHeldOnce
    <3>. QED  BY <1>2, <2>1, <3>1, <3>2 DEF OwnSafe, ClaimFits, ClaimSafe
  <2>. QED  BY <1>0, <2>2, <2>3, <2>4, ExclusiveFrame
<1>. QED  BY <1>1, <1>2

-----------------------------------------------------------------------------
(* The actions. *)

LEMMA ProverReaders ==
  ASSUME TypeOK, ExclusiveInv, NEW p \in Provers, Channel(p), Alone(p),
         ~ HandOver(p), ~ UnprofitableBatch(p)
  PROVE  ReadersKept \/ (pc[p] = "batch" /\ pc'[p] = "choose")
<1>. USE DEF l1Vars, Goto
<1>0. p \in Holders /\ \A q \in Provers : q # p => q \in Holders /\ pc'[q] = pc[q]
  BY DEF Holders, Alone
<1>1. \A q \in Provers : 0 <= lastVerified /\ seen[q] <= lastVerified
  BY LastBatchAssumption DEF TypeOK, ExclusiveInv, SeenBelow
<1>2. CASE GetLatestVerifiedBatchNum(p)
  <2>1. /\ pc' = [pc EXCEPT ![p] = "choose"] => pc[p] = "batch"
        /\ pc'[p] = "choose" => pc' = [pc EXCEPT ![p] = "choose"]
        /\ seen' = [seen EXCEPT ![p] = lastVerified] /\ lastVerified' = lastVerified
    BY <1>0, <1>2 DEF GetLatestVerifiedBatchNum, TypeOK
  <2>2. lastVerified <= lastVerified
    BY LastBatchAssumption DEF TypeOK
  <2>. QED  BY <1>0, <1>1, <2>1, <2>2 DEF ReadersKept, TypeOK
<1>3. CASE ~ GetLatestVerifiedBatchNum(p)
  <2>1. pc'[p] # "choose"
    BY <1>0, <1>3
    DEF Channel, TryBuildFinalProof, CheckCanVerify, NothingReady, LockProofReady,
        ValidateOwn, FinalProofBuilt, FinalProofFails, UnlockOwn, TryAggregateProofs,
        NothingToAggregate, LockProofsToAggregate, AggregationDone, AggregationFails,
        TryGenerateBatchProof, NothingToProve, LockBatchToProve, BatchProofDone,
        BatchProofWrongRoot, BatchProofFails, ReadFails, TypeOK
  <2>2. (seen' = seen \/ Forget(p)) /\ lastVerified' = lastVerified
    BY <1>3
    DEF Channel, TryBuildFinalProof, CheckCanVerify, NothingReady, LockProofReady,
        ValidateOwn, FinalProofBuilt, FinalProofFails, UnlockOwn, TryAggregateProofs,
        NothingToAggregate, LockProofsToAggregate, AggregationDone, AggregationFails,
        TryGenerateBatchProof, NothingToProve, LockBatchToProve, BatchProofDone,
        BatchProofWrongRoot, BatchProofFails, ReadFails
  <2>. QED  BY <1>0, <1>1, <2>1, <2>2 DEF ReadersKept, Forget, TypeOK
<1>. QED  BY <1>2, <1>3

(* A prover enters the section under the mutex: its number is up to date. *)
LEMMA EntersMutex ==
  ASSUME TypeOK, ExclusiveInv, NEW p \in Provers,
         GetLatestVerifiedBatchNum(p), pc[p] = "batch"
  PROVE  ExclusiveInv'
<1>1. /\ UNCHANGED <<proofs, held, lastVerified>> /\ MutexFree
      /\ pc' = [pc EXCEPT ![p] = "choose"]
      /\ seen' = [seen EXCEPT ![p] = lastVerified]
  BY DEF GetLatestVerifiedBatchNum, dbVars, l1Vars, Goto
<1>2. /\ p \in Holders /\ pc'[p] = "choose" /\ seen'[p] = lastVerified
      /\ \A q \in Provers : q # p => pc'[q] # "choose" /\ seen'[q] = seen[q]
      /\ \A h \in Holders : (pc'[h] = "dropped") <=> (pc[h] = "dropped")
      /\ lastVerified <= lastVerified
  BY <1>1, LastBatchAssumption DEF TypeOK, MutexFree, Holders
<1>3. (RowsDisjoint /\ ClaimsExclusive /\ ClaimsLocked)'
  BY <1>1, <1>2 DEF ExclusiveInv, RowsDisjoint, ClaimsExclusive, ClaimsLocked
<1>4. (MutexHeldOnce /\ SeenBelow /\ StaleReadersSafe)'
  BY <1>1, <1>2 DEF ExclusiveInv, MutexHeldOnce, SeenBelow, StaleReadersSafe
<1>. QED  BY <1>3, <1>4 DEF ExclusiveInv

(* The proof changes hands, and nothing else. *)
LEMMA HandsOver ==
  ASSUME TypeOK, ExclusiveInv, NEW p \in Provers, HandOver(p)
  PROVE  ExclusiveInv'
<1>0. p \in Holders /\ Sender \in Holders /\ p # Sender
  BY SenderAssumption DEF Holders
<1>1. /\ UNCHANGED <<proofs, lastVerified, seen>>
      /\ held'[p] = {} /\ held'[Sender] = held[p]
      /\ \A g \in Holders : g # p /\ g # Sender => pc'[g] = pc[g] /\ held'[g] = held[g]
      /\ pc[p] # "dropped" /\ pc'[p] \notin {"dropped", "choose"} /\ pc'[Sender] = "received"
  BY <1>0 DEF HandOver, TypeOK, dbVars, l1Vars
<1>2. ClaimsExclusive'
  <2>. SUFFICES ASSUME NEW f \in Holders, NEW g \in Holders, f # g,
                       NEW c \in held'[f], NEW d \in held'[g]
                PROVE  Disjoint(c, d)
    BY DEF ClaimsExclusive
  <2>. DEFINE owner(h) == IF h = Sender THEN p ELSE h
  <2>1. c \in held[owner(f)] /\ d \in held[owner(g)] /\ owner(f) # owner(g)
    BY <1>0, <1>1
  <2>2. owner(f) \in Holders /\ owner(g) \in Holders
    BY <1>0
  <2>. QED  BY <2>1, <2>2 DEF ExclusiveInv, ClaimsExclusive
<1>3. ClaimsLocked'
  BY <1>0, <1>1 DEF ExclusiveInv, ClaimsLocked
<1>4. (RowsDisjoint /\ MutexHeldOnce /\ SeenBelow)'
  BY <1>0, <1>1
  DEF ExclusiveInv, RowsDisjoint, MutexHeldOnce, SeenBelow, Holders
<1>5. StaleReadersSafe'
  BY <1>0, <1>1, SenderAssumption DEF ExclusiveInv, StaleReadersSafe, Holders
<1>. QED  BY <1>2, <1>3, <1>4, <1>5 DEF ExclusiveInv

(* When the process ends there are no claims left. *)
LEMMA EndsExclusive ==
  ASSUME TypeOK, ExclusiveInv, NEW T, ProcessEnds(T), proofs' = proofs,
         lastVerified' = lastVerified
  PROVE  ExclusiveInv'
<1>1. /\ \A h \in Holders : pc'[h] = "down" /\ held'[h] = {}
      /\ \A p \in Provers : seen'[p] = 0
  BY DEF ProcessEnds
<1>2. 0 <= lastVerified /\ Provers \subseteq Holders
  BY LastBatchAssumption DEF TypeOK, Holders
<1>. QED
  BY <1>1, <1>2
  DEF ExclusiveInv, RowsDisjoint, ClaimsExclusive, ClaimsLocked, MutexHeldOnce,
      SeenBelow, StaleReadersSafe

LEMMA ExclusiveProver ==
  ASSUME TypeOK, ClaimsApart, ExclusiveInv, NEW p \in Provers, Channel(p)
  PROVE  ExclusiveInv'
<1>. USE DEF dbVars, l1Vars, Goto, Keep
<1>0. p \in Holders /\ held[p] \in SUBSET Held
  BY DEF Holders, TypeOK
<1>1. CASE HandOver(p)
  BY <1>1, HandsOver
<1>2. CASE UnprofitableBatch(p)
  BY <1>2, EndsExclusive DEF UnprofitableBatch
<1>3. CASE GetLatestVerifiedBatchNum(p) /\ pc[p] = "batch"
  BY <1>3, EntersMutex
<1>. SUFFICES ASSUME Alone(p), ReadersKept, ~ HandOver(p), ~ UnprofitableBatch(p)
              PROVE  ExclusiveInv'
  <2>1. CASE pc[p] = "batch" /\ pc'[p] = "choose"
    <3>1. GetLatestVerifiedBatchNum(p)
      BY <1>0, <2>1
      DEF Channel, TryBuildFinalProof, CheckCanVerify, NothingReady, LockProofReady,
          ValidateOwn, FinalProofBuilt, FinalProofFails, HandOver, UnlockOwn,
          TryAggregateProofs, NothingToAggregate, LockProofsToAggregate, AggregationDone,
          AggregationFails, TryGenerateBatchProof, NothingToProve, LockBatchToProve,
          UnprofitableBatch, BatchProofDone, BatchProofWrongRoot, BatchProofFails,
          ReadFails, TypeOK
    <3>. QED  BY <1>3, <2>1, <3>1
  <2>. QED  BY <1>1, <1>2, <2>1, ProverAlone, ProverReaders
<1>4. CASE \/ CheckCanVerify(p) \/ (GetLatestVerifiedBatchNum(p) /\ pc[p] # "batch")
           \/ NothingReady(p) \/ FinalProofBuilt(p) \/ NothingToAggregate(p)
           \/ NothingToProve(p) \/ ReadFails(p)
  <2>1. UNCHANGED <<proofs, held>>
    BY <1>4 DEF CheckCanVerify, GetLatestVerifiedBatchNum, NothingReady, FinalProofBuilt,
                NothingToAggregate, NothingToProve, ReadFails
  <2>2. pc[p] # "dropped" /\ pc'[p] # "dropped"
    BY <1>0, <1>4
    DEF CheckCanVerify, GetLatestVerifiedBatchNum, NothingReady, FinalProofBuilt,
        NothingToAggregate, NothingToProve, ReadFails, TypeOK
  <2>. QED  BY <1>0, <2>1, <2>2, MovesOn
<1>5. CASE LockProofReady(p)
  <2>1. PICK r \in GetProofReadyToVerify(proofs, sequences, seen[p]) :
          /\ proofs' = UpdateGeneratedProof(proofs, {Content(r)}, "recent")
          /\ held' = [held EXCEPT ![p] = {Content(r)}] \/ held' = [held EXCEPT ![p] = {}]
          /\ MutexFree /\ pc'[p] # "dropped"
    BY <1>0, <1>5 DEF LockProofReady, TypeOK
  <2>2. r \in proofs /\ r.since = "null"
    BY DEF GetProofReadyToVerify
  <2>3. {Content(s) : s \in {r}} = {Content(r)} /\ held'[p] \subseteq {Content(r)}
    BY <1>0, <2>1 DEF TypeOK
  <2>4. {r} \in SUBSET proofs /\ \A s \in {r} : s.since = "null"
    BY <2>2
  <2>. QED  BY <2>1, <2>3, <2>4, LocksRows
<1>6. CASE ValidateOwn(p)
  <2>1. CASE proofs' = proofs /\ pc'[p] # "dropped"
    BY <1>0, <1>6, <2>1, MovesOn DEF ValidateOwn
  <2>2. ASSUME NEW c \in held[p], c.to <= seen[p],
               proofs' = DeleteGeneratedProofs(proofs, c), pc'[p] = "dropped"
        PROVE  ExclusiveInv'
    <3>1. c.to <= lastVerified
      BY <1>0, <2>2, LastBatchAssumption
      DEF ExclusiveInv, SeenBelow, TypeOK, Held, Batches
    <3>2. held' = held /\ pc[p] = "validate"
      BY <1>6 DEF ValidateOwn
    <3>. QED  BY <1>0, <2>2, <3>1, <3>2, DeletesOwn
  <2>3. \/ proofs' = proofs /\ pc'[p] # "dropped"
        \/ \E c \in held[p] : /\ c.to <= seen[p]
                              /\ proofs' = DeleteGeneratedProofs(proofs, c)
                              /\ pc'[p] = "dropped"
    BY <1>0, <1>6 DEF ValidateOwn, TypeOK
  <2>. QED  BY <2>1, <2>2, <2>3
<1>7. CASE FinalProofFails(p)
  <2>1. CASE pc[p] = "buildStored"
    BY <1>0, <1>7, <2>1, GivesUp DEF FinalProofFails, Release, TypeOK
  <2>2. CASE pc[p] = "buildOwn"
    <3>1. UNCHANGED <<proofs, held>> /\ pc'[p] = "unlock"
      BY <1>0, <1>7, <2>2 DEF FinalProofFails, TypeOK
    <3>. QED  BY <1>0, <2>2, <3>1, MovesOn
  <2>. QED  BY <1>7, <2>1, <2>2 DEF FinalProofFails
<1>8. CASE UnlockOwn(p) \/ AggregationFails(p)
  <2>1. /\ held'[p] = {}
        /\ proofs' = proofs \/ proofs' = UpdateGeneratedProof(proofs, held[p], "null")
    BY <1>0, <1>8 DEF UnlockOwn, AggregationFails, Release, TypeOK
  <2>. QED  BY <1>0, <2>1, GivesUp
<1>9. CASE LockProofsToAggregate(p)
  <2>1. PICK c \in GetProofsToAggregate(proofs, sequences) :
          LET pair == {Content(c[1]), Content(c[2])} IN
          /\ proofs' = UpdateGeneratedProof(proofs, pair, "recent")
          /\ held' = [held EXCEPT ![p] = pair] \/ held' = [held EXCEPT ![p] = {}]
          /\ MutexFree /\ pc'[p] # "dropped"
    BY <1>0, <1>9 DEF LockProofsToAggregate, TypeOK
  <2>2. c[1] \in proofs /\ c[2] \in proofs /\ c[1].since = "null" /\ c[2].since = "null"
    BY DEF GetProofsToAggregate, Aggregatable
  <2>3. /\ {Content(s) : s \in {c[1], c[2]}} = {Content(c[1]), Content(c[2])}
        /\ held'[p] \subseteq {Content(c[1]), Content(c[2])}
    BY <1>0, <2>1 DEF TypeOK
  <2>4. {c[1], c[2]} \in SUBSET proofs /\ \A s \in {c[1], c[2]} : s.since = "null"
    BY <2>2
  <2>. QED  BY <2>1, <2>3, <2>4, LocksRows
<1>10. CASE AggregationDone(p)
  <2>1. PICK x \in held[p], y \in held[p] :
          LET c == Aggregated(x, y) IN
          /\ Adjacent(x, y)
          /\ \/ /\ proofs' = ReplaceByAggregated(proofs, c)
                /\ held' = [held EXCEPT ![p] = {c}]
             \/ /\ proofs' = UpdateGeneratedProof(ReplaceByAggregated(proofs, c),
                                                  held[p], "null")
                /\ held' = [held EXCEPT ![p] = {}]
          /\ pc[p] = "aggregating" /\ pc'[p] # "dropped"
    BY <1>0, <1>10 DEF AggregationDone, TypeOK
  <2>2. LET c == Aggregated(x, y) IN
        \/ /\ proofs' = ReplaceByAggregated(proofs, c)
           /\ held'[p] = {c}
        \/ /\ proofs' = UpdateGeneratedProof(ReplaceByAggregated(proofs, c), held[p], "null")
           /\ held'[p] = {}
    BY <1>0, <2>1 DEF TypeOK
  <2>. QED  BY <2>1, <2>2, Aggregates
<1>11. CASE LockBatchToProve(p)
  <2>1. PICK b \in Batches :
          /\ NextToProve(p, b)
          /\ \/ /\ proofs' = AddGeneratedProof(proofs, Proof(b, b, FALSE))
                /\ \/ held' = [held EXCEPT ![p] = {Proof(b, b, FALSE)}]
                   \/ held' = [held EXCEPT ![p] = {}]
             \/ proofs' = proofs /\ held' = [held EXCEPT ![p] = {}]
          /\ pc[p] = "choose" /\ pc'[p] \notin {"choose", "dropped"}
    BY <1>0, <1>11 DEF LockBatchToProve, TypeOK
  <2>2. LET c == Proof(b, b, FALSE) IN
        \/ proofs' = AddGeneratedProof(proofs, c) /\ held'[p] \subseteq {c}
        \/ proofs' = proofs /\ held'[p] = {}
    BY <1>0, <2>1 DEF TypeOK
  <2>. QED  BY <2>1, <2>2, LocksBatch
<1>12. CASE BatchProofDone(p)
  <2>1. PICK c \in held[p] :
          /\ held'[p] = {Proof(c.from, c.to, TRUE)} /\ proofs' = proofs
          /\ pc[p] # "dropped" /\ pc'[p] # "dropped"
    BY <1>0, <1>12 DEF BatchProofDone, TypeOK
  <2>. DEFINE d == Proof(c.from, c.to, TRUE)
  <2>2. d.from = c.from /\ d.to = c.to
    BY DEF Proof
  <2>3. ClaimFits(p, d)
    <3>1. LockedIn(proofs', d)
      BY <1>0, <2>1, <2>2, InvSafe DEF ClaimSafe, LockedIn, SameKey
    <3>2. \A g \in Holders : g # p => \A e \in held[g] : Disjoint(d, e)
      BY <1>0, <2>2, InvSafe DEF Disjoint
    <3>3. d.to <= lastVerified => \A q \in Provers : pc'[q] = "choose" => d.to <= seen[q]
      BY <2>1, <2>2 DEF ReadersKept, ExclusiveInv, StaleReadersSafe
    <3>. QED  BY <2>1, <3>1, <3>2, <3>3 DEF ClaimFits, ClaimSafe
  <2>4. OwnSafe(p)
    BY <2>1, <2>3 DEF OwnSafe
  <2>5. AllDisjoint(proofs') /\ OthersSafe(p)
    BY <2>1, InvSafe DEF OthersSafe, ExclusiveInv, RowsDisjoint, AllDisjoint
  <2>. QED  BY <1>0, <2>4, <2>5, ExclusiveFrame
<1>13. CASE BatchProofWrongRoot(p)
  BY <1>0, <1>13, MovesOn DEF BatchProofWrongRoot, TypeOK
<1>14. CASE BatchProofFails(p)
  <2>1. PICK c \in held[p] : /\ \/ proofs' = DeleteGeneratedProofs(proofs, c)
                                \/ proofs' = proofs
                             /\ held'[p] = {} /\ pc[p] = "proving"
    BY <1>0, <1>14 DEF BatchProofFails, TypeOK
  <2>. QED  BY <1>0, <2>1, DeletesOwn, MovesOn
<1>. QED
  BY <1>1, <1>2, <1>3, <1>4, <1>5, <1>6, <1>7, <1>8, <1>9, <1>10, <1>11, <1>12, <1>13,
     <1>14
  DEF Channel, TryBuildFinalProof, TryAggregateProofs, TryGenerateBatchProof

(* A proof is settled.  The claims of the others do not overlap it, and it starts
   at most right above the last verified batch: so a claim that is verified now
   was verified before. *)
LEMMA MinedExclusive ==
  ASSUME TypeOK, ClaimsApart, ExclusiveInv, SettlementMined
  PROVE  ExclusiveInv'
<1>. USE DEF dbVars, flags, Goto
<1>0. Sender \in Holders /\ Sender \notin Provers /\ Provers \subseteq Holders
  BY SenderAssumption DEF Holders
<1>1. PICK c \in held[Sender] : Acceptable(c) /\ lastVerified' = c.to
  BY DEF SettlementMined
<1>2. /\ UNCHANGED <<proofs, held, seen>> /\ pc[Sender] = "settling"
      /\ pc'[Sender] = "mined"
      /\ \A p \in Provers : pc'[p] = pc[p]
  BY <1>0 DEF SettlementMined, TypeOK
<1>3. /\ c.from \in Nat /\ c.to \in Nat /\ lastVerified \in Nat
      /\ c.from <= lastVerified + 1 /\ lastVerified < c.to
  BY <1>0, <1>1, LastBatchAssumption DEF Acceptable, TypeOK, Held, Batches
<1>4. (RowsDisjoint /\ ClaimsExclusive /\ MutexHeldOnce)'
  BY <1>2 DEF ExclusiveInv, RowsDisjoint, ClaimsExclusive, MutexHeldOnce
<1>5. ClaimsLocked'
  <2>. SUFFICES ASSUME NEW h \in Holders, NEW d \in held'[h]
                PROVE  ClaimSafe(proofs', pc'[h], d, lastVerified')
    BY DEF ClaimsLocked, ClaimSafe, LockedIn, Clear
  <2>1. ClaimSafe(proofs, pc[h], d, lastVerified) /\ d.to \in Nat
    BY <1>2, InvSafe, LastBatchAssumption DEF TypeOK, Held, Batches
  <2>2. (pc'[h] = "dropped") <=> (pc[h] = "dropped")
    BY <1>2 DEF Holders
  <2>3. d.to <= lastVerified => d.to <= lastVerified'
    BY <1>1, <1>3, <2>1
  <2>. QED  BY <1>2, <2>1, <2>2, <2>3 DEF ClaimSafe
<1>6. SeenBelow'
  <2>. SUFFICES ASSUME NEW p \in Provers PROVE seen[p] <= c.to
    BY <1>1, <1>2 DEF SeenBelow
  <2>1. seen[p] \in Nat /\ seen[p] <= lastVerified
    BY LastBatchAssumption DEF TypeOK, ExclusiveInv, SeenBelow
  <2>. QED  BY <1>3, <2>1
<1>7. StaleReadersSafe'
  <2>. SUFFICES ASSUME NEW p \in Provers, NEW q \in Provers, pc[q] = "choose",
                       NEW d \in held[p], d.to <= c.to
                PROVE  d.to <= seen[q]
    BY <1>1, <1>2 DEF StaleReadersSafe
  <2>1. Disjoint(d, c)
    BY <1>0, InvSafe
  <2>2. d.from \in Nat /\ d.to \in Nat /\ d.from <= d.to
    BY <1>0, LastBatchAssumption DEF TypeOK, Held, Batches
  <2>3. d.to <= lastVerified
    BY <1>3, <2>1, <2>2 DEF Disjoint
  <2>. QED  BY <2>3 DEF ExclusiveInv, StaleReadersSafe
<1>. QED  BY <1>4, <1>5, <1>6, <1>7 DEF ExclusiveInv

LEMMA SenderExclusive ==
  ASSUME TypeOK, ClaimsApart, ExclusiveInv,
         SendFinalProof \/ (HandleSettlementFailure /\ UNCHANGED abandoned)
  PROVE  ExclusiveInv'
<1>. USE DEF dbVars, l1Vars, flags, Goto, Keep
<1>0. Sender \in Holders /\ Sender \notin Provers
  BY SenderAssumption DEF Holders
<1>1. /\ \E to \in SenderPC : pc' = [pc EXCEPT ![Sender] = to]
      /\ held' = held \/ held' = [held EXCEPT ![Sender] = {}]
      /\ seen' = seen /\ lastVerified' = lastVerified
  BY DEF SendFinalProof, StartVerification, GetBatchFails, Submit, SubmitFails,
         EndVerification, SettlementTimeout, HandleSettlementFailure, SenderPC
<1>2. Alone(Sender)
  BY <1>0, <1>1, AloneByExcept
<1>3. ReadersKept
  BY <1>0, <1>1 DEF ReadersKept, ExclusiveInv, SeenBelow, TypeOK, Holders
<1>4. pc[Sender] # "dropped" /\ pc'[Sender] # "dropped"
  BY <1>0, <1>1 DEF TypeOK, SenderPC
<1>5. CASE HandleSettlementFailure
  <2>1. /\ held'[Sender] = {}
        /\ \/ proofs' = proofs
           \/ proofs' = UpdateGeneratedProof(proofs, held[Sender], "null")
    BY <1>0, <1>5 DEF HandleSettlementFailure, Release, TypeOK
  <2>. QED  BY <1>0, <1>2, <1>3, <2>1, GivesUp
<1>6. CASE StartVerification \/ GetBatchFails \/ Submit \/ EndVerification
  <2>1. /\ proofs' = proofs
        /\ held'[Sender] = {} \/ held'[Sender] = held[Sender]
    BY <1>0, <1>6
    DEF StartVerification, GetBatchFails, Submit, EndVerification, TypeOK
  <2>. QED  BY <1>0, <1>2, <1>3, <1>4, <2>1, MovesOn
<1>. QED
  BY <1>5, <1>6 DEF SendFinalProof, SubmitFails, SettlementTimeout

(* The rows of claims do not get old. *)
LEMMA LifeExclusive ==
  ASSUME Prompt, TypeOK, DownTogether, ExclusiveInv,
         \/ AbandonedDropped \/ BatchReady \/ VerifyTimeReached \/ LocksGetOld
         \/ CleanupLocked \/ Restart
  PROVE  ExclusiveInv'
<1>. USE DEF dbVars, l1Vars, flags
<1>1. CASE AbandonedDropped \/ BatchReady \/ VerifyTimeReached
  <2>1. UNCHANGED <<proofs, held, pc, seen, lastVerified>>
    BY <1>1 DEF AbandonedDropped, BatchReady, VerifyTimeReached
  <2>. QED
    BY <2>1 DEF ExclusiveInv, RowsDisjoint, ClaimsExclusive, ClaimsLocked, MutexHeldOnce,
                SeenBelow, StaleReadersSafe
<1>2. CASE LocksGetOld \/ CleanupLocked
  <2>1. UNCHANGED <<held, pc, seen, lastVerified>>
    BY <1>2 DEF LocksGetOld, CleanupLocked
  <2>2. \A r \in proofs' : \E s \in proofs :
          SameKey(r, s) /\ (r = s \/ r = [s EXCEPT !.since = "old"])
    BY <1>2 DEF LocksGetOld, CleanupLocked, CleanupLockedProofs, SameKey, TypeOK, Rows
  <2>3. RowsDisjoint'
    <3>. DEFINE aged(s) == IF CanGetOld(s) THEN [s EXCEPT !.since = "old"] ELSE s
    <3>1. \A s \in proofs : SameKey(aged(s), s)
      BY DEF SameKey, TypeOK, Rows
    <3>2. \/ proofs' = {aged(s) : s \in proofs}
          \/ proofs' \subseteq proofs
      BY <1>2 DEF LocksGetOld, CleanupLocked, CleanupLockedProofs
    <3>3. \A r, s \in proofs : r = s \/ Disjoint(r, s)
      BY DEF ExclusiveInv, RowsDisjoint
    <3>4. \A r, s \in proofs : aged(r) = aged(s) \/ Disjoint(aged(r), aged(s))
      BY <3>1, <3>3 DEF Disjoint, SameKey
    <3>. HIDE DEF aged
    <3>. QED  BY <3>2, <3>3, <3>4 DEF RowsDisjoint
  <2>4. \A r \in proofs : r.since = "recent" /\ InMemory(r) => r \in proofs'
    BY <1>2 DEF LocksGetOld, CanGetOld, CleanupLocked, CleanupLockedProofs, Prompt
  <2>5. ASSUME NEW h \in Holders, NEW c \in held[h]
        PROVE  ClaimSafe(proofs', pc[h], c, lastVerified)
    <3>1. CASE pc[h] = "dropped"
      <4>1. c.to <= lastVerified /\ Clear(proofs, c)
        BY <3>1, InvSafe DEF ClaimSafe
      <4>2. Clear(proofs', c)
        BY <2>2, <4>1 DEF Clear, Disjoint, SameKey
      <4>. QED  BY <3>1, <4>1, <4>2 DEF ClaimSafe
    <3>2. CASE pc[h] # "dropped"
      <4>1. PICK r \in proofs : SameKey(r, c) /\ r.since = "recent"
        BY <3>2, InvSafe DEF ClaimSafe, LockedIn
      <4>2. InMemory(r)
        BY <4>1 DEF InMemory, SameKey
      <4>. QED  BY <2>4, <3>2, <4>1, <4>2 DEF ClaimSafe, LockedIn
    <3>. QED  BY <3>1, <3>2
  <2>6. ClaimsLocked'
    BY <2>1, <2>5 DEF ClaimsLocked, ClaimSafe, LockedIn, Clear
  <2>. QED
    BY <2>1, <2>3, <2>6
    DEF ExclusiveInv, ClaimsExclusive, MutexHeldOnce, SeenBelow, StaleReadersSafe
<1>3. CASE Restart
  <2>1. /\ proofs' \subseteq proofs /\ UNCHANGED <<held, seen, lastVerified>>
        /\ \A h \in Holders : held'[h] = {} /\ pc'[h] # "choose"
    BY <1>3
    DEF Restart, DeleteUngeneratedProofs, DeleteBatchesOlderThanBatchNumber, DownTogether
  <2>. QED
    BY <2>1 DEF ExclusiveInv, RowsDisjoint, ClaimsExclusive, ClaimsLocked, MutexHeldOnce,
                SeenBelow, StaleReadersSafe, Holders
<1>. QED  BY <1>1, <1>2, <1>3

LEMMA ExclusiveStep ==
  ASSUME Prompt, TypeOK, DownTogether, ClaimsApart, ExclusiveInv, [Next]_vars
  PROVE  ExclusiveInv'
<1>1. CASE UNCHANGED vars
  BY <1>1 DEF vars, ExclusiveInv, RowsDisjoint, ClaimsExclusive, ClaimsLocked,
              MutexHeldOnce, SeenBelow, StaleReadersSafe
<1>2. CASE Settlement \/ Environment \/ Crash
  <2>1. CASE \E T : ProcessEnds(T) /\ UNCHANGED <<proofs, lastVerified>>
    BY <2>1, EndsExclusive
  <2>2. ~ \E c \in Held : AbandonedMined(c)
    BY DEF Prompt, AbandonedMined
  <2>. QED
    BY <1>2, <2>1, <2>2, MinedExclusive, SenderExclusive, LifeExclusive
    DEF Settlement, NotMinedByAggLayer, SettlementReverted, AbandonedReverted,
        Environment, Crash, dbVars
<1>. QED
  BY <1>1, <1>2, ExclusiveProver, SenderExclusive, LifeExclusive DEF Next

LEMMA ExclusiveInit == Init => ExclusiveInv
  BY LastBatchAssumption
  DEF Init, ExclusiveInv, RowsDisjoint, ClaimsExclusive, ClaimsLocked, MutexHeldOnce,
      SeenBelow, StaleReadersSafe, Holders

(* As long as the rows in use are not cleaned up and no transaction that was given
   up is mined, a batch is in one row only, one goroutine works on it, and the row
   it works on is locked: for any provers, sequences, faults and crashes. *)
THEOREM Exclusive ==
  ASSUME PromptHolders, ~ LateMining
  PROVE  Spec => [](RowsDisjoint /\ ClaimsExclusive /\ ClaimsLocked)
<1>1. Init => ExclusiveInv
  BY ExclusiveInit
<1>2. TypeOK /\ DownTogether /\ ClaimsApart /\ ExclusiveInv /\ [Next]_vars => ExclusiveInv'
  BY ExclusiveStep DEF Prompt
<1>3. ExclusiveInv => RowsDisjoint /\ ClaimsExclusive /\ ClaimsLocked
  BY DEF ExclusiveInv
<1>. QED
  BY TypeCorrect, EndsTogether, ClaimsStayApart, <1>1, <1>2, <1>3, PTL DEF Spec

-----------------------------------------------------------------------------
(* An unlocked proof never gets lost: whoever deletes rows deletes those it has locked,
   and rows do not overlap. *)

(* What UnlockedProofsKept asks of a step while the process runs. *)
Stays(P, Q) ==
  \A r \in P : r.since = "null" => \E s \in Q : SameKey(r, s) /\ s.made

Generated(P) == \A r \in P : r.since = "null" => r.made

-----------------------------------------------------------------------------
(* Rows. *)

LEMMA SupersetStays ==
  ASSUME NEW P, NEW Q, Generated(P), \A r \in P : r.since = "null" => r \in Q
  PROVE  Stays(P, Q)
  BY DEF Stays, Generated, SameKey

LEMMA UpdateStays ==
  ASSUME NEW P, NEW Q, Stays(P, Q), NEW C, NEW since, \A c \in C : c.made
  PROVE  Stays(P, UpdateGeneratedProof(Q, C, since))
<1>. SUFFICES ASSUME NEW r \in P, r.since = "null"
              PROVE  \E s \in UpdateGeneratedProof(Q, C, since) : SameKey(r, s) /\ s.made
  BY DEF Stays
<1>1. PICK s \in Q : SameKey(r, s) /\ s.made
  BY DEF Stays
<1>2. CASE \A c \in C : ~ SameKey(c, s)
  BY <1>1, <1>2 DEF UpdateGeneratedProof
<1>3. ASSUME NEW c \in C, SameKey(c, s)
      PROVE  \E t \in UpdateGeneratedProof(Q, C, since) : SameKey(r, t) /\ t.made
  <2>1. Row(c, since) \in UpdateGeneratedProof(Q, C, since)
    BY <1>1, <1>3 DEF UpdateGeneratedProof
  <2>2. SameKey(r, Row(c, since)) /\ Row(c, since).made
    BY <1>1, <1>3 DEF SameKey, Row
  <2>. QED  BY <2>1, <2>2
<1>. QED  BY <1>2, <1>3

(* No unlocked row lies inside a proof that is locked. *)
LEMMA OwnRowLocked ==
  ASSUME NEW P \in SUBSET Rows, AllDisjoint(P), NEW c \in Held, LockedIn(P, c),
         NEW r \in P, r.since = "null"
  PROVE  Disjoint(c, r)
<1>1. PICK s \in P : SameKey(s, c) /\ s.since = "recent"
  BY DEF LockedIn
<1>2. Disjoint(s, r)
  BY <1>1 DEF AllDisjoint
<1>. QED  BY <1>1, <1>2 DEF SameKey, Disjoint

LEMMA WithinOverlaps ==
  ASSUME NEW r \in Rows, NEW c \in Held, Disjoint(c, r)
  PROVE  ~ Within(r, c)
  BY LastBatchAssumption DEF Rows, Held, Batches, Disjoint, Within

LEMMA DeleteStays ==
  ASSUME NEW P \in SUBSET Rows, Generated(P), NEW c \in Held,
         \A r \in P : r.since = "null" => Disjoint(c, r)
  PROVE  Stays(P, DeleteGeneratedProofs(P, c))
<1>1. \A r \in P : r.since = "null" => r \in DeleteGeneratedProofs(P, c)
  BY WithinOverlaps DEF DeleteGeneratedProofs
<1>. QED  BY <1>1, SupersetStays

-----------------------------------------------------------------------------
(* The actions. *)

LEMMA ProverKeeps ==
  ASSUME TypeOK, ExclusiveInv, OnlyGeneratedProofsUsed, NEW p \in Provers, Channel(p)
  PROVE  Stays(proofs, proofs')
<1>. USE DEF dbVars
<1>0. /\ p \in Holders /\ held[p] \in SUBSET Held /\ proofs \in SUBSET Rows
      /\ AllDisjoint(proofs) /\ Generated(proofs)
      /\ pc[p] # "proving" => \A c \in held[p] : c.made
      /\ pc[p] # "dropped" => \A c \in held[p] : LockedIn(proofs, c)
  BY InvSafe
  DEF Holders, TypeOK, ExclusiveInv, RowsDisjoint, AllDisjoint, OnlyGeneratedProofsUsed,
      Generated, ClaimSafe
<1>1. Stays(proofs, proofs)
  BY <1>0, SupersetStays
<1>2. CASE \E since : proofs' = UpdateGeneratedProof(proofs, held[p], since) /\ pc[p] # "proving"
  BY <1>0, <1>1, <1>2, UpdateStays
<1>3. CASE LockProofReady(p)
  <2>1. PICK r \in GetProofReadyToVerify(proofs, sequences, seen[p]) :
          proofs' = UpdateGeneratedProof(proofs, {Content(r)}, "recent")
    BY <1>3 DEF LockProofReady
  <2>2. r \in proofs /\ r.since = "null"
    BY DEF GetProofReadyToVerify
  <2>3. \A c \in {Content(r)} : c.made
    BY <1>0, <2>2 DEF Content, Proof, Generated
  <2>. QED  BY <1>1, <2>1, <2>3, UpdateStays
<1>4. CASE LockProofsToAggregate(p)
  <2>1. PICK c \in GetProofsToAggregate(proofs, sequences) :
          proofs' = UpdateGeneratedProof(proofs, {Content(c[1]), Content(c[2])}, "recent")
    BY <1>4 DEF LockProofsToAggregate
  <2>2. c[1] \in proofs /\ c[2] \in proofs /\ c[1].since = "null" /\ c[2].since = "null"
    BY DEF GetProofsToAggregate, Aggregatable
  <2>3. \A d \in {Content(c[1]), Content(c[2])} : d.made
    BY <1>0, <2>2 DEF Content, Proof, Generated
  <2>. QED  BY <1>1, <2>1, <2>3, UpdateStays
<1>5. ASSUME NEW c \in held[p], pc[p] # "dropped", proofs' = DeleteGeneratedProofs(proofs, c)
      PROVE  Stays(proofs, proofs')
  <2>1. \A r \in proofs : r.since = "null" => Disjoint(c, r)
    BY <1>0, <1>5, OwnRowLocked
  <2>. QED  BY <1>0, <1>5, <2>1, DeleteStays
<1>6. CASE AggregationDone(p)
  <2>1. PICK x \in held[p], y \in held[p] :
          LET c == Aggregated(x, y) IN
          /\ Adjacent(x, y)
          /\ \/ proofs' = ReplaceByAggregated(proofs, c)
             \/ proofs' = UpdateGeneratedProof(ReplaceByAggregated(proofs, c), held[p], "null")
          /\ pc[p] = "aggregating"
    BY <1>6 DEF AggregationDone
  <2>. DEFINE c == Aggregated(x, y)
              Q == ReplaceByAggregated(proofs, c)
  <2>2. c \in Held
    BY <1>0, <2>1, AggregatedTyped
  <2>3. ASSUME NEW r \in proofs, r.since = "null"
        PROVE  Disjoint(c, r)
    <3>1. Disjoint(x, r) /\ Disjoint(y, r)
      BY <1>0, <2>1, <2>3, OwnRowLocked
    <3>2. r.from \in Nat /\ r.to \in Nat /\ r.from <= r.to
      BY <1>0, LastBatchAssumption DEF Rows, Batches
    <3>. QED  BY <1>0, <2>1, <3>1, <3>2, UnionDisjoint
  <2>4. Stays(proofs, DeleteGeneratedProofs(proofs, c))
    BY <1>0, <2>2, <2>3, DeleteStays
  <2>5. Stays(proofs, Q)
    BY <2>4 DEF Stays, ReplaceByAggregated, AddGeneratedProof
  <2>6. Stays(proofs, UpdateGeneratedProof(Q, held[p], "null"))
    BY <1>0, <2>1, <2>5, UpdateStays
  <2>. QED  BY <2>1, <2>5, <2>6
<1>7. CASE LockBatchToProve(p)
  <2>1. proofs \subseteq proofs'
    BY <1>7 DEF LockBatchToProve, AddGeneratedProof
  <2>. QED  BY <1>0, <2>1, SupersetStays
<1>8. CASE ValidateOwn(p) \/ BatchProofFails(p)
  <2>1. /\ pc[p] # "dropped"
        /\ \/ proofs' = proofs
           \/ \E c \in held[p] : proofs' = DeleteGeneratedProofs(proofs, c)
    BY <1>8 DEF ValidateOwn, BatchProofFails
  <2>. QED  BY <1>1, <1>5, <2>1
<1>9. CASE FinalProofFails(p) \/ UnlockOwn(p) \/ AggregationFails(p)
  BY <1>1, <1>2, <1>9 DEF FinalProofFails, UnlockOwn, AggregationFails, Release
<1>10. CASE UNCHANGED proofs
  BY <1>1, <1>10
<1>. QED
  BY <1>3, <1>4, <1>6, <1>7, <1>8, <1>9, <1>10
  DEF Channel, TryBuildFinalProof, CheckCanVerify, GetLatestVerifiedBatchNum, NothingReady,
      FinalProofBuilt, HandOver, TryAggregateProofs, NothingToAggregate,
      TryGenerateBatchProof, NothingToProve, UnprofitableBatch, BatchProofDone,
      BatchProofWrongRoot, ReadFails

(* An unlocked row that does not stay may be one that a restart deletes. *)
LEMMA OthersKeep ==
  ASSUME TypeOK, OnlyGeneratedProofsUsed,
         \/ SendFinalProof \/ Settlement \/ Environment \/ BatchReady
         \/ VerifyTimeReached \/ LocksGetOld \/ CleanupLocked \/ Crash
  PROVE  Stays(proofs, proofs')
<1>. USE DEF dbVars
<1>0. /\ proofs \in SUBSET Rows /\ Generated(proofs)
      /\ \A c \in held[Sender] : c.made
  BY DEF TypeOK, SenderPC, Holders, OnlyGeneratedProofsUsed, Generated
<1>1. Stays(proofs, proofs)
  BY <1>0, SupersetStays
<1>2. CASE HandleSettlementFailure
  BY <1>0, <1>1, <1>2, UpdateStays DEF HandleSettlementFailure, Release
<1>3. CASE LocksGetOld
  <2>1. \A r \in proofs : r.since = "null" => r \in proofs'
    BY <1>3 DEF LocksGetOld, CanGetOld
  <2>. QED  BY <1>0, <2>1, SupersetStays
<1>4. CASE CleanupLocked
  <2>1. \A r \in proofs : r.since = "null" => r \in proofs'
    BY <1>4 DEF CleanupLocked, CleanupLockedProofs
  <2>. QED  BY <1>0, <2>1, SupersetStays
<1>5. CASE UNCHANGED proofs
  BY <1>1, <1>5
<1>. QED
  BY <1>2, <1>3, <1>4, <1>5
  DEF SendFinalProof, StartVerification, GetBatchFails, Submit, SubmitFails,
      EndVerification, SettlementTimeout, Settlement, SettlementMined, NotMinedByAggLayer,
      SettlementReverted, AbandonedReverted, Environment, AbandonedMined,
      AbandonedDropped, BatchReady, VerifyTimeReached, Crash

-----------------------------------------------------------------------------

(* As long as the rows in use are not cleaned up and no transaction that was given
   up is mined: whatever fails, an unlocked proof leaves the table only at a restart,
   and only when it starts below the last verified batch. *)
THEOREM UnlockedStay ==
  ASSUME PromptHolders, ~ LateMining
  PROVE  Spec => UnlockedProofsKept
<1>. DEFINE Step ==
       \A r \in proofs : r.since = "null" =>
         \/ \E s \in proofs' : SameKey(r, s) /\ s.made
         \/ pc[Sender] = "down" /\ r.from < lastVerified
<1>1. TypeOK /\ ExclusiveInv /\ OnlyGeneratedProofsUsed /\ [Next]_vars => [Step]_vars
  <2>. SUFFICES ASSUME TypeOK, ExclusiveInv, OnlyGeneratedProofsUsed, Next
                PROVE  Step
    OBVIOUS
  <2>1. CASE Stays(proofs, proofs')
    BY <2>1 DEF Stays
  <2>2. CASE Restart
    <3>. SUFFICES ASSUME NEW r \in proofs, r.since = "null", ~ (r.from < lastVerified)
                  PROVE  \E s \in proofs' : SameKey(r, s) /\ s.made
      BY <2>2 DEF Restart
    <3>1. r.from >= lastVerified /\ r.made
      BY LastBatchAssumption DEF TypeOK, Rows, Batches, OnlyGeneratedProofsUsed
    <3>2. r \in proofs'
      BY <2>2, <3>1
      DEF Restart, DeleteUngeneratedProofs, DeleteBatchesOlderThanBatchNumber
    <3>. QED  BY <3>1, <3>2 DEF SameKey
  <2>. QED  BY <2>1, <2>2, ProverKeeps, OthersKeep DEF Next
<1>2. Init => ExclusiveInv
  BY ExclusiveInit
<1>3. TypeOK /\ DownTogether /\ ClaimsApart /\ ExclusiveInv /\ [Next]_vars => ExclusiveInv'
  BY ExclusiveStep DEF Prompt
<1>4. UnlockedProofsKept <=> [][Step]_vars
  BY DEF UnlockedProofsKept
<1>. HIDE DEF Step
<1>. QED
  BY TypeCorrect, EndsTogether, ClaimsStayApart, GeneratedProofsUsed, <1>1, <1>2, <1>3,
     <1>4, PTL DEF Spec
=============================================================================
