---------------------------- MODULE FinalProofs ------------------------------
(* The final proofs of Aggregator: there is one at a time, and it starts right
   above the last verified batch.  Besides the assumptions of ExclusiveProofs this
   rests on AggLayerTxTimeout never passing: it unlocks a proof that may be settled
   already, and a prover that read L1 before finds it ready. *)
EXTENDS ExclusiveProofs

Patient == Prompt /\ "timeout" \notin Faults

-----------------------------------------------------------------------------
(* The inductive invariant. *)

Above(P, last) == \A r \in P : r.since = "null" => last < r.from

(* Nothing that is verified is worked on, but by sendFinalProof at the end. *)
ClaimsAbove ==
  \A h \in Holders : pc[h] # "mined" => \A c \in held[h] : lastVerified < c.from

(* Whoever has read L1 under the mutex finds what was settled since in rows that
   stay locked, and chooses no batch of them. *)
SettledRowsStay ==
  \A p \in Provers : pc[p] = "choose" =>
    \A b \in Batches : seen[p] < b /\ b <= lastVerified =>
      \E r \in proofs : Contains(r, b) /\ r.since = "recent"

FinalInv ==
  /\ Above(proofs, lastVerified)
  /\ ClaimsAbove
  /\ SettledRowsStay
  /\ FinalProofExtendsVerified

-----------------------------------------------------------------------------
(* Rows. *)

KeepsVerified(P, Q, last) ==
  \A r \in P : r.since = "recent" /\ r.from <= last => r \in Q

LEMMA UpdateAbove ==
  ASSUME NEW P \in SUBSET Rows, NEW C \in SUBSET Held, NEW since, NEW last \in Nat,
         Above(P, last), \A c \in C : last < c.from
  PROVE  LET Q == UpdateGeneratedProof(P, C, since) IN
         Above(Q, last) /\ KeepsVerified(P, Q, last)
<1>. DEFINE Q == UpdateGeneratedProof(P, C, since)
<1>1. Above(Q, last)
  BY DEF Above, UpdateGeneratedProof, Row
<1>2. ASSUME NEW r \in P, r.from <= last
      PROVE  r \in Q
  <2>1. \A c \in C : ~ SameKey(c, r)
    BY <1>2, LastBatchAssumption DEF SameKey, Rows, Held, Batches
  <2>. QED  BY <2>1 DEF UpdateGeneratedProof
<1>. QED  BY <1>1, <1>2 DEF KeepsVerified

LEMMA DeleteAbove ==
  ASSUME NEW P \in SUBSET Rows, NEW c \in Held, NEW last \in Nat,
         Above(P, last), last < c.from
  PROVE  LET Q == DeleteGeneratedProofs(P, c) IN
         Above(Q, last) /\ KeepsVerified(P, Q, last)
<1>1. \A r \in P : r.from <= last => ~ Within(r, c)
  BY LastBatchAssumption DEF Within, Rows, Held, Batches
<1>. QED  BY <1>1 DEF Above, KeepsVerified, DeleteGeneratedProofs

LEMMA AddAbove ==
  ASSUME NEW P, NEW c, NEW last, Above(P, last)
  PROVE  LET Q == AddGeneratedProof(P, c) IN
         Above(Q, last) /\ KeepsVerified(P, Q, last)
  BY DEF Above, KeepsVerified, AddGeneratedProof, Row

-----------------------------------------------------------------------------
(* Steps of one holder. *)

(* A step of h that keeps to the invariant. *)
LEMMA FinalFrame ==
  ASSUME TypeOK, FinalInv, NEW h \in Holders, Alone(h), ReadersKept,
         Above(proofs', lastVerified), KeepsVerified(proofs, proofs', lastVerified),
         pc'[h] # "mined" => \A c \in held'[h] : lastVerified < c.from,
         Finishing(h)' => \A c \in held'[h] : c.from = lastVerified + 1
  PROVE  FinalInv'
<1>0. lastVerified' = lastVerified
  BY DEF ReadersKept
<1>1. Above(proofs', lastVerified')
  BY <1>0
<1>2. ClaimsAbove'
  <2>. SUFFICES ASSUME NEW g \in Holders, pc'[g] # "mined", NEW c \in held'[g]
                PROVE  lastVerified < c.from
    BY <1>0 DEF ClaimsAbove
  <2>1. CASE g = h
    BY <2>1
  <2>2. CASE g # h
    BY <2>2 DEF Alone, FinalInv, ClaimsAbove
  <2>. QED  BY <2>1, <2>2
<1>3. SettledRowsStay'
  <2>. SUFFICES ASSUME NEW p \in Provers, pc'[p] = "choose", NEW b \in Batches,
                       seen'[p] < b, b <= lastVerified
                PROVE  \E r \in proofs' : Contains(r, b) /\ r.since = "recent"
    BY <1>0 DEF SettledRowsStay
  <2>1. pc[p] = "choose" /\ seen'[p] = seen[p]
    BY DEF ReadersKept
  <2>2. PICK r \in proofs : Contains(r, b) /\ r.since = "recent"
    BY <2>1 DEF FinalInv, SettledRowsStay
  <2>3. r.from <= lastVerified
    BY <2>2, LastBatchAssumption DEF Contains, TypeOK, Rows, Batches
  <2>. QED  BY <2>2, <2>3 DEF KeepsVerified
<1>4. FinalProofExtendsVerified'
  <2>. SUFFICES ASSUME NEW g \in Holders, Finishing(g)', NEW c \in held'[g]
                PROVE  c.from = lastVerified + 1
    BY <1>0 DEF FinalProofExtendsVerified
  <2>1. CASE g = h
    BY <2>1
  <2>2. CASE g # h
    <3>1. Finishing(g)
      BY <2>2 DEF Alone, Finishing
    <3>. QED  BY <2>2, <3>1 DEF Alone, FinalInv, FinalProofExtendsVerified
  <2>. QED  BY <2>1, <2>2
<1>. QED  BY <1>1, <1>2, <1>3, <1>4 DEF FinalInv

(* A holder moves on or gives up its proofs, and may change their locks. *)
LEMMA FinalMoves ==
  ASSUME TypeOK, FinalInv, NEW h \in Holders, Alone(h), ReadersKept,
         pc[h] # "mined",
         proofs' = proofs \/ \E since : proofs' = UpdateGeneratedProof(proofs, held[h], since),
         \/ held'[h] = {}
         \/ held'[h] = held[h] /\ (Finishing(h)' => Finishing(h))
  PROVE  FinalInv'
<1>1. /\ proofs \in SUBSET Rows /\ held[h] \in SUBSET Held /\ lastVerified \in Nat
      /\ Above(proofs, lastVerified) /\ \A c \in held[h] : lastVerified < c.from
  BY LastBatchAssumption DEF TypeOK, FinalInv, ClaimsAbove
<1>2. Above(proofs', lastVerified) /\ KeepsVerified(proofs, proofs', lastVerified)
  <2>1. CASE proofs' = proofs
    BY <1>1, <2>1 DEF KeepsVerified
  <2>2. ASSUME NEW since, proofs' = UpdateGeneratedProof(proofs, held[h], since)
        PROVE  Above(proofs', lastVerified) /\ KeepsVerified(proofs, proofs', lastVerified)
    BY <1>1, <2>2, UpdateAbove
  <2>. QED  BY <2>1, <2>2
<1>3. Finishing(h) => \A c \in held[h] : c.from = lastVerified + 1
  BY DEF FinalInv, FinalProofExtendsVerified
<1>. QED  BY <1>1, <1>2, <1>3, FinalFrame

-----------------------------------------------------------------------------
(* The actions. *)

LEMMA FinalProver ==
  ASSUME TypeOK, ClaimsApart, ExclusiveInv, FinalInv, NEW p \in Provers, Channel(p),
         Alone(p), ReadersKept, ~ HandOver(p), ~ UnprofitableBatch(p)
  PROVE  FinalInv'
<1>. USE DEF dbVars, l1Vars, Goto, Keep
<1>0. /\ p \in Holders /\ held[p] \in SUBSET Held /\ proofs \in SUBSET Rows
      /\ pc[p] # "mined" /\ lastVerified \in Nat /\ seen[p] \in Nat
      /\ Above(proofs, lastVerified) /\ \A c \in held[p] : lastVerified < c.from
      /\ seen[p] <= lastVerified
  BY LastBatchAssumption
  DEF Holders, TypeOK, ProverPC, FinalInv, ClaimsAbove, ExclusiveInv, SeenBelow
<1>1. CASE \/ CheckCanVerify(p) \/ GetLatestVerifiedBatchNum(p) \/ NothingReady(p)
           \/ FinalProofBuilt(p) \/ NothingToAggregate(p) \/ NothingToProve(p)
           \/ ReadFails(p)
  <2>1. UNCHANGED <<proofs, held>>
    BY <1>1 DEF CheckCanVerify, GetLatestVerifiedBatchNum, NothingReady, FinalProofBuilt,
                NothingToAggregate, NothingToProve, ReadFails
  <2>2. Finishing(p)' => Finishing(p)
    BY <1>0, <1>1
    DEF CheckCanVerify, GetLatestVerifiedBatchNum, NothingReady, FinalProofBuilt,
        NothingToAggregate, NothingToProve, ReadFails, TypeOK, Finishing
  <2>. QED  BY <1>0, <2>1, <2>2, FinalMoves
<1>2. CASE LockProofReady(p)
  <2>1. PICK r \in GetProofReadyToVerify(proofs, sequences, seen[p]) :
          /\ proofs' = UpdateGeneratedProof(proofs, {Content(r)}, "recent")
          /\ held'[p] = {Content(r)} \/ held'[p] = {}
    BY <1>0, <1>2 DEF LockProofReady, TypeOK
  <2>2. r \in proofs /\ r.since = "null" /\ r.from = seen[p] + 1
    BY DEF GetProofReadyToVerify
  <2>3. /\ {Content(r)} \in SUBSET Held /\ Content(r).from = lastVerified + 1
        /\ lastVerified < Content(r).from
    BY <1>0, <2>2, ContentTyped, LastBatchAssumption
    DEF Above, Content, Proof, Rows, Batches
  <2>4. Above(proofs', lastVerified) /\ KeepsVerified(proofs, proofs', lastVerified)
    BY <1>0, <2>1, <2>3, UpdateAbove
  <2>. QED  BY <1>0, <2>1, <2>3, <2>4, FinalFrame
<1>3. CASE ValidateOwn(p)
  <2>1. PICK c \in held[p] :
          \/ c.to <= seen[p]
          \/ proofs' = proofs /\ Contains(c, seen[p] + 1)
          \/ proofs' = proofs /\ ~ Finishing(p)'
    BY <1>0, <1>3 DEF ValidateOwn, TypeOK, Finishing
  <2>2. c.from \in Nat /\ c.to \in Nat /\ c.from <= c.to /\ lastVerified < c.from
    BY <1>0, LastBatchAssumption DEF Held, Batches
  <2>3. ~ (c.to <= seen[p])
    BY <1>0, <2>2
  <2>4. Contains(c, seen[p] + 1) => c.from = lastVerified + 1
    BY <1>0, <2>2 DEF Contains
  <2>5. \A d \in held[p] : d = c
    BY <1>0, <1>3 DEF ClaimsApart, ValidateOwn
  <2>6. held' = held
    BY <1>3 DEF ValidateOwn
  <2>. QED
    BY <1>0, <2>1, <2>3, <2>4, <2>5, <2>6, FinalFrame DEF KeepsVerified
<1>4. CASE \/ FinalProofFails(p) \/ UnlockOwn(p) \/ AggregationFails(p)
           \/ BatchProofWrongRoot(p)
  <2>1. \/ proofs' = proofs
        \/ proofs' = UpdateGeneratedProof(proofs, held[p], "null")
    BY <1>4
    DEF FinalProofFails, UnlockOwn, AggregationFails, BatchProofWrongRoot, Release
  <2>2. held'[p] = {} \/ (held'[p] = held[p] /\ (Finishing(p)' => Finishing(p)))
    BY <1>0, <1>4
    DEF FinalProofFails, UnlockOwn, AggregationFails, BatchProofWrongRoot, TypeOK,
        Finishing
  <2>. QED  BY <1>0, <2>1, <2>2, FinalMoves
<1>5. CASE LockProofsToAggregate(p)
  <2>1. PICK c \in GetProofsToAggregate(proofs, sequences) :
          LET pair == {Content(c[1]), Content(c[2])} IN
          /\ proofs' = UpdateGeneratedProof(proofs, pair, "recent")
          /\ held'[p] = pair \/ held'[p] = {}
          /\ ~ Finishing(p)'
    BY <1>0, <1>5 DEF LockProofsToAggregate, TypeOK, Finishing
  <2>. DEFINE pair == {Content(c[1]), Content(c[2])}
  <2>2. c[1] \in proofs /\ c[2] \in proofs /\ c[1].since = "null" /\ c[2].since = "null"
    BY DEF GetProofsToAggregate, Aggregatable
  <2>3. pair \in SUBSET Held /\ \A d \in pair : lastVerified < d.from
    BY <1>0, <2>2, ContentTyped DEF Above, Content, Proof
  <2>4. Above(proofs', lastVerified) /\ KeepsVerified(proofs, proofs', lastVerified)
    BY <1>0, <2>1, <2>3, UpdateAbove
  <2>. QED  BY <1>0, <2>1, <2>3, <2>4, FinalFrame
<1>6. CASE AggregationDone(p)
  <2>1. PICK x \in held[p], y \in held[p] :
          LET c == Aggregated(x, y) IN
          /\ Adjacent(x, y)
          /\ \/ proofs' = ReplaceByAggregated(proofs, c)
             \/ proofs' = UpdateGeneratedProof(ReplaceByAggregated(proofs, c),
                                               held[p], "null")
          /\ held'[p] = {c} \/ held'[p] = {}
          /\ ~ Finishing(p)'
    BY <1>0, <1>6 DEF AggregationDone, TypeOK, Finishing
  <2>. DEFINE c == Aggregated(x, y)
              P == DeleteGeneratedProofs(proofs, c)
              Q == ReplaceByAggregated(proofs, c)
  <2>2. c \in Held /\ lastVerified < c.from
    BY <1>0, <2>1, AggregatedTyped DEF Aggregated, Proof
  <2>3. P \in SUBSET Rows /\ Q \in SUBSET Rows
    BY <1>0, <2>2, RowTyped
    DEF DeleteGeneratedProofs, ReplaceByAggregated, AddGeneratedProof, Since
  <2>4. Above(P, lastVerified) /\ KeepsVerified(proofs, P, lastVerified)
    BY <1>0, <2>2, DeleteAbove
  <2>5. Above(Q, lastVerified) /\ KeepsVerified(P, Q, lastVerified)
    BY <2>4, AddAbove DEF ReplaceByAggregated
  <2>6. Above(proofs', lastVerified) /\ KeepsVerified(Q, proofs', lastVerified)
    <3>1. CASE proofs' = Q
      BY <2>5, <3>1 DEF KeepsVerified
    <3>2. CASE proofs' = UpdateGeneratedProof(Q, held[p], "null")
      BY <1>0, <2>3, <2>5, <3>2, UpdateAbove
    <3>. QED  BY <2>1, <3>1, <3>2
  <2>7. KeepsVerified(proofs, proofs', lastVerified)
    BY <2>4, <2>5, <2>6 DEF KeepsVerified
  <2>. QED  BY <1>0, <2>1, <2>2, <2>6, <2>7, FinalFrame
<1>7. CASE LockBatchToProve(p)
  <2>1. PICK b \in Batches :
          LET c == Proof(b, b, FALSE) IN
          /\ NextToProve(p, b)
          /\ proofs' = proofs \/ proofs' = AddGeneratedProof(proofs, c)
          /\ held'[p] = {c} \/ held'[p] = {}
          /\ pc[p] = "choose" /\ ~ Finishing(p)'
    BY <1>0, <1>7 DEF LockBatchToProve, TypeOK, Finishing
  <2>2. lastVerified < Proof(b, b, FALSE).from
    <3>. SUFFICES ASSUME b <= lastVerified PROVE FALSE
      BY <1>0, LastBatchAssumption DEF Proof, Batches
    <3>1. \E r \in proofs : Contains(r, b)
      BY <2>1 DEF NextToProve, FinalInv, SettledRowsStay
    <3>. QED  BY <2>1, <3>1 DEF NextToProve, CheckProofExistsForBatch
  <2>3. Above(proofs', lastVerified) /\ KeepsVerified(proofs, proofs', lastVerified)
    <3>1. CASE proofs' = proofs
      BY <1>0, <3>1 DEF KeepsVerified
    <3>2. CASE proofs' = AddGeneratedProof(proofs, Proof(b, b, FALSE))
      BY <1>0, <3>2, AddAbove
    <3>. QED  BY <2>1, <3>1, <3>2
  <2>. QED  BY <1>0, <2>1, <2>2, <2>3, FinalFrame
<1>8. CASE BatchProofDone(p)
  <2>1. PICK c \in held[p] : /\ held'[p] = {Proof(c.from, c.to, TRUE)}
                             /\ proofs' = proofs /\ ~ Finishing(p)'
    BY <1>0, <1>8 DEF BatchProofDone, TypeOK, Finishing
  <2>2. lastVerified < Proof(c.from, c.to, TRUE).from
    BY <1>0 DEF Proof
  <2>. QED  BY <1>0, <2>1, <2>2, FinalFrame DEF KeepsVerified
<1>9. CASE BatchProofFails(p)
  <2>1. PICK c \in held[p] : /\ \/ proofs' = DeleteGeneratedProofs(proofs, c)
                                \/ proofs' = proofs
                             /\ held'[p] = {}
    BY <1>0, <1>9 DEF BatchProofFails, TypeOK
  <2>2. Above(proofs', lastVerified) /\ KeepsVerified(proofs, proofs', lastVerified)
    BY <1>0, <2>1, DeleteAbove DEF KeepsVerified
  <2>. QED  BY <1>0, <2>1, <2>2, FinalFrame DEF FinalInv, FinalProofExtendsVerified
<1>. QED
  BY <1>1, <1>2, <1>3, <1>4, <1>5, <1>6, <1>7, <1>8, <1>9
  DEF Channel, TryBuildFinalProof, TryAggregateProofs, TryGenerateBatchProof

(* A prover enters the section under the mutex: nothing was settled since it read L1. *)
LEMMA FinalEnters ==
  ASSUME TypeOK, FinalInv, NEW p \in Provers,
         GetLatestVerifiedBatchNum(p), pc[p] = "batch"
  PROVE  FinalInv'
<1>1. /\ UNCHANGED <<proofs, held, lastVerified>> /\ MutexFree
      /\ pc' = [pc EXCEPT ![p] = "choose"]
      /\ seen' = [seen EXCEPT ![p] = lastVerified]
  BY DEF GetLatestVerifiedBatchNum, dbVars, l1Vars, Goto
<1>2. /\ p \in Holders /\ pc'[p] = "choose" /\ seen'[p] = lastVerified
      /\ \A q \in Provers : q # p => pc'[q] # "choose"
      /\ \A h \in Holders : (pc'[h] = "mined") <=> (pc[h] = "mined")
      /\ \A h \in Holders : Finishing(h)' => Finishing(h)
  BY <1>1 DEF TypeOK, MutexFree, Holders, Finishing
<1>3. (Above(proofs, lastVerified) /\ ClaimsAbove /\ FinalProofExtendsVerified)'
  BY <1>1, <1>2 DEF FinalInv, Above, ClaimsAbove, FinalProofExtendsVerified
<1>4. SettledRowsStay'
  <2>1. \A b \in Batches : ~ (lastVerified < b /\ b <= lastVerified)
    BY LastBatchAssumption DEF TypeOK, Batches
  <2>. QED  BY <1>1, <1>2, <2>1 DEF SettledRowsStay
<1>. QED  BY <1>3, <1>4 DEF FinalInv

LEMMA FinalHandsOver ==
  ASSUME TypeOK, FinalInv, NEW p \in Provers, HandOver(p)
  PROVE  FinalInv'
<1>0. p \in Holders /\ Sender \in Holders /\ p # Sender
  BY SenderAssumption DEF Holders
<1>1. /\ UNCHANGED <<proofs, lastVerified, seen>>
      /\ held'[p] = {} /\ held'[Sender] = held[p]
      /\ \A g \in Holders : g # p /\ g # Sender => pc'[g] = pc[g] /\ held'[g] = held[g]
      /\ Finishing(p) /\ pc[p] # "mined"
      /\ pc'[p] # "choose" /\ pc'[Sender] = "received"
  BY <1>0 DEF HandOver, TypeOK, dbVars, l1Vars, Finishing
<1>2. Above(proofs', lastVerified') /\ SettledRowsStay'
  BY <1>0, <1>1 DEF FinalInv, Above, SettledRowsStay, Holders
<1>3. \A c \in held[p] : lastVerified < c.from /\ c.from = lastVerified + 1
  BY <1>0, <1>1 DEF FinalInv, ClaimsAbove, FinalProofExtendsVerified
<1>4. ClaimsAbove'
  BY <1>0, <1>1, <1>3 DEF FinalInv, ClaimsAbove
<1>5. FinalProofExtendsVerified'
  BY <1>0, <1>1, <1>3 DEF FinalInv, FinalProofExtendsVerified, Finishing
<1>. QED  BY <1>2, <1>4, <1>5 DEF FinalInv

LEMMA FinalEnds ==
  ASSUME TypeOK, FinalInv, NEW T, ProcessEnds(T), proofs' = proofs,
         lastVerified' = lastVerified
  PROVE  FinalInv'
<1>1. \A h \in Holders : pc'[h] = "down" /\ held'[h] = {}
  BY DEF ProcessEnds
<1>2. Provers \subseteq Holders
  BY DEF Holders
<1>. QED
  BY <1>1, <1>2
  DEF FinalInv, Above, ClaimsAbove, SettledRowsStay, FinalProofExtendsVerified

(* A proof is settled.  No other final proof is under way, because it would start at
   the same batch. *)
LEMMA FinalMined ==
  ASSUME TypeOK, ClaimsApart, ExclusiveInv, FinalInv, SettlementMined
  PROVE  FinalInv'
<1>. USE DEF dbVars, flags, Goto
<1>0. Sender \in Holders /\ Sender \notin Provers /\ Provers \subseteq Holders
  BY SenderAssumption DEF Holders
<1>1. PICK c \in held[Sender] : lastVerified' = c.to
  BY DEF SettlementMined
<1>2. /\ UNCHANGED <<proofs, held, seen>> /\ pc[Sender] = "settling"
      /\ pc'[Sender] = "mined"
      /\ \A h \in Holders : h # Sender => pc'[h] = pc[h]
  BY <1>0 DEF SettlementMined, TypeOK
<1>3. /\ c.from = lastVerified + 1 /\ lastVerified \in Nat /\ c.to \in Nat
      /\ c.from <= c.to
  BY <1>0, <1>2, LastBatchAssumption
  DEF FinalInv, FinalProofExtendsVerified, Finishing, TypeOK, Held, Batches
<1>4. PICK s \in proofs : SameKey(s, c) /\ s.since = "recent"
  BY <1>0, <1>2, InvSafe DEF ClaimSafe, LockedIn
<1>5. Above(proofs', lastVerified')
  <2>. SUFFICES ASSUME NEW r \in proofs, r.since = "null" PROVE c.to < r.from
    BY <1>1, <1>2 DEF Above
  <2>1. Disjoint(r, s)
    BY <1>4 DEF ExclusiveInv, RowsDisjoint
  <2>2. r.from \in Nat /\ r.to \in Nat /\ r.from <= r.to /\ lastVerified < r.from
    BY LastBatchAssumption DEF TypeOK, Rows, Batches, FinalInv, Above
  <2>. QED  BY <1>3, <1>4, <2>1, <2>2 DEF Disjoint, SameKey
<1>6. \A h \in Holders : h # Sender => \A d \in held[h] : c.to < d.from
  <2>. SUFFICES ASSUME NEW h \in Holders, h # Sender, NEW d \in held[h]
                PROVE  c.to < d.from
    OBVIOUS
  <2>1. Disjoint(c, d)
    BY <1>0, InvSafe
  <2>2. pc[h] # "mined"
    BY DEF TypeOK, Holders, ProverPC
  <2>3. d.from \in Nat /\ d.to \in Nat /\ d.from <= d.to /\ lastVerified < d.from
    BY <2>2, LastBatchAssumption DEF TypeOK, Held, Batches, FinalInv, ClaimsAbove
  <2>. QED  BY <1>3, <2>1, <2>3 DEF Disjoint
<1>7. ClaimsAbove'
  BY <1>1, <1>2, <1>6 DEF ClaimsAbove
<1>8. SettledRowsStay'
  <2>. SUFFICES ASSUME NEW p \in Provers, pc[p] = "choose", NEW b \in Batches,
                       seen[p] < b, b <= c.to
                PROVE  \E r \in proofs : Contains(r, b) /\ r.since = "recent"
    BY <1>0, <1>1, <1>2 DEF SettledRowsStay
  <2>1. CASE b <= lastVerified
    BY <2>1 DEF FinalInv, SettledRowsStay
  <2>2. CASE ~ (b <= lastVerified)
    <3>1. c.from <= b
      BY <1>3, <2>2, LastBatchAssumption DEF Batches
    <3>. QED  BY <1>4, <3>1 DEF Contains, SameKey
  <2>. QED  BY <2>1, <2>2
<1>9. FinalProofExtendsVerified'
  <2>. SUFFICES ASSUME NEW h \in Holders, Finishing(h)', NEW d \in held[h]
                PROVE  FALSE
    BY <1>2 DEF FinalProofExtendsVerified
  <2>1. h # Sender /\ Finishing(h)
    BY <1>2 DEF Finishing
  <2>2. d.from = lastVerified + 1
    BY <2>1 DEF FinalInv, FinalProofExtendsVerified
  <2>. QED  BY <1>3, <1>6, <2>1, <2>2
<1>. QED  BY <1>5, <1>7, <1>8, <1>9 DEF FinalInv

LEMMA FinalSender ==
  ASSUME Patient, TypeOK, ClaimsApart, ExclusiveInv, FinalInv,
         \/ SendFinalProof
         \/ pc[Sender] = "settling" /\ HandleSettlementFailure /\ UNCHANGED abandoned
  PROVE  FinalInv'
<1>. USE DEF dbVars, l1Vars, flags, Goto, Keep
<1>0. Sender \in Holders /\ Sender \notin Provers
  BY SenderAssumption DEF Holders
<1>1. /\ \E to \in SenderPC : pc' = [pc EXCEPT ![Sender] = to]
      /\ held' = held \/ held' = [held EXCEPT ![Sender] = {}]
      /\ seen' = seen /\ lastVerified' = lastVerified
  BY DEF SendFinalProof, StartVerification, GetBatchFails, Submit, SubmitFails,
         EndVerification, SettlementTimeout, HandleSettlementFailure, SenderPC
<1>2. Alone(Sender)
  BY <1>0, <1>1, AloneByExcept
<1>3. ReadersKept
  BY <1>0, <1>1 DEF ReadersKept, ExclusiveInv, SeenBelow, TypeOK, Holders
<1>4. ~ SettlementTimeout
  BY DEF Patient, SettlementTimeout, Fault
<1>5. CASE HandleSettlementFailure /\ pc[Sender] \in {"started", "settling"}
  <2>1. held'[Sender] = {}
    BY <1>0, <1>5 DEF HandleSettlementFailure, TypeOK
  <2>2. proofs' = proofs \/ proofs' = UpdateGeneratedProof(proofs, held[Sender], "null")
    BY <1>5 DEF HandleSettlementFailure, Release
  <2>. QED  BY <1>0, <1>2, <1>3, <1>5, <2>1, <2>2, FinalMoves
<1>6. CASE StartVerification \/ GetBatchFails \/ Submit
  <2>1. /\ proofs' = proofs
        /\ held'[Sender] = {} \/ (held'[Sender] = held[Sender] /\ Finishing(Sender))
        /\ pc[Sender] # "mined"
    BY <1>0, <1>6 DEF StartVerification, GetBatchFails, Submit, TypeOK, Finishing
  <2>. QED  BY <1>0, <1>2, <1>3, <2>1, FinalMoves
<1>7. CASE EndVerification
  <2>1. proofs' = proofs /\ held'[Sender] = {}
    BY <1>0, <1>7 DEF EndVerification, TypeOK
  <2>2. Above(proofs', lastVerified) /\ KeepsVerified(proofs, proofs', lastVerified)
    BY <2>1 DEF FinalInv, KeepsVerified
  <2>. QED  BY <1>0, <1>2, <1>3, <2>1, <2>2, FinalFrame
<1>. QED
  BY <1>4, <1>5, <1>6, <1>7 DEF SendFinalProof, SubmitFails

LEMMA FinalLife ==
  ASSUME Prompt, TypeOK, DownTogether, FinalInv,
         \/ AbandonedDropped \/ BatchReady \/ VerifyTimeReached \/ LocksGetOld
         \/ CleanupLocked \/ Restart
  PROVE  FinalInv'
<1>. USE DEF dbVars, l1Vars, flags
<1>0. Provers \subseteq Holders
  BY DEF Holders
<1>1. CASE AbandonedDropped \/ BatchReady \/ VerifyTimeReached
  BY <1>1
  DEF AbandonedDropped, BatchReady, VerifyTimeReached, FinalInv, Above, ClaimsAbove,
      SettledRowsStay, FinalProofExtendsVerified, Finishing
<1>2. CASE LocksGetOld
  <2>1. /\ UNCHANGED <<pc, held, seen, lastVerified>> /\ MutexFree
        /\ proofs' = {IF CanGetOld(r) THEN [r EXCEPT !.since = "old"] ELSE r : r \in proofs}
    BY <1>2 DEF LocksGetOld, CanGetOld, Prompt
  <2>2. \A r \in proofs' : r.since = "null" => r \in proofs
    BY <2>1 DEF TypeOK, Rows
  <2>3. Above(proofs', lastVerified') /\ SettledRowsStay'
    BY <2>1, <2>2 DEF FinalInv, Above, SettledRowsStay, MutexFree
  <2>. QED
    BY <2>1, <2>3 DEF FinalInv, ClaimsAbove, FinalProofExtendsVerified, Finishing
<1>3. CASE CleanupLocked
  <2>1. /\ UNCHANGED <<pc, held, seen, lastVerified>>
        /\ proofs' = {r \in proofs : r.since # "old"}
    BY <1>3 DEF CleanupLocked, CleanupLockedProofs
  <2>. QED
    BY <2>1
    DEF FinalInv, Above, SettledRowsStay, ClaimsAbove, FinalProofExtendsVerified, Finishing
<1>4. CASE Restart
  <2>1. /\ proofs' \subseteq proofs /\ UNCHANGED <<held, seen, lastVerified>>
        /\ \A h \in Holders : held'[h] = {} /\ pc'[h] # "choose"
    BY <1>4
    DEF Restart, DeleteUngeneratedProofs, DeleteBatchesOlderThanBatchNumber, DownTogether
  <2>. QED
    BY <1>0, <2>1
    DEF FinalInv, Above, SettledRowsStay, ClaimsAbove, FinalProofExtendsVerified
<1>. QED  BY <1>1, <1>2, <1>3, <1>4

LEMMA FinalStep ==
  ASSUME Patient, TypeOK, DownTogether, ClaimsApart, ExclusiveInv, FinalInv, [Next]_vars
  PROVE  FinalInv'
<1>1. CASE UNCHANGED vars
  BY <1>1
  DEF vars, FinalInv, Above, ClaimsAbove, SettledRowsStay, FinalProofExtendsVerified,
      Finishing
<1>2. ASSUME NEW p \in Provers, Channel(p)
      PROVE  FinalInv'
  <2>1. CASE HandOver(p)
    BY <2>1, FinalHandsOver
  <2>2. CASE UnprofitableBatch(p)
    BY <2>2, FinalEnds DEF UnprofitableBatch
  <2>3. CASE ~ HandOver(p) /\ ~ UnprofitableBatch(p)
    <3>1. Alone(p)
      BY <1>2, <2>3, ProverAlone
    <3>2. CASE ReadersKept
      BY <1>2, <2>3, <3>1, <3>2, FinalProver
    <3>3. CASE pc[p] = "batch" /\ pc'[p] = "choose"
      <4>1. GetLatestVerifiedBatchNum(p)
        BY <1>2, <3>3
        DEF Channel, TryBuildFinalProof, CheckCanVerify, NothingReady, LockProofReady,
            ValidateOwn, FinalProofBuilt, FinalProofFails, HandOver, UnlockOwn,
            TryAggregateProofs, NothingToAggregate, LockProofsToAggregate,
            AggregationDone, AggregationFails, TryGenerateBatchProof, NothingToProve,
            LockBatchToProve, UnprofitableBatch, BatchProofDone, BatchProofWrongRoot,
            BatchProofFails, ReadFails, TypeOK, Goto, Holders
      <4>. QED  BY <3>3, <4>1, FinalEnters
    <3>. QED  BY <1>2, <2>3, <3>1, <3>2, <3>3, ProverReaders
  <2>. QED  BY <2>1, <2>2, <2>3
<1>3. CASE Settlement
  <2>1. CASE SettlementMined
    BY <2>1, FinalMined
  <2>2. CASE NotMinedByAggLayer
    BY <2>2, FinalSender DEF NotMinedByAggLayer
  <2>3. CASE SettlementReverted \/ AbandonedReverted
    BY <2>3, FinalEnds DEF SettlementReverted, AbandonedReverted, dbVars
  <2>. QED  BY <1>3, <2>1, <2>2, <2>3 DEF Settlement
<1>4. CASE Crash
  BY <1>4, FinalEnds DEF Crash, dbVars
<1>5. ~ \E c \in Held : AbandonedMined(c)
  BY DEF Patient, Prompt, AbandonedMined
<1>. QED
  BY <1>1, <1>2, <1>3, <1>4, <1>5, FinalSender, FinalLife
  DEF Next, Environment, Patient

(* A final proof that is being made or settled is in the memory of its goroutine. *)
FinalInMemory == \A h \in Holders : Finishing(h) => held[h] # {}

LEMMA FinalMemoryStep ==
  ASSUME TypeOK, FinalInMemory, [Next]_vars
  PROVE  FinalInMemory'
<1>. USE DEF Goto, Keep, FinalInMemory, Finishing, dbVars, l1Vars, flags
<1>0. Sender \in Holders /\ Sender \notin Provers /\ Provers \subseteq Holders
  BY SenderAssumption DEF Holders
<1>1. ASSUME NEW T, ProcessEnds(T)
      PROVE  FinalInMemory'
  BY <1>1 DEF ProcessEnds
<1>2. ASSUME NEW p \in Provers, Channel(p)
      PROVE  FinalInMemory'
  <2>0. p \in Holders /\ p # Sender
    BY <1>0
  <2>1. CASE HandOver(p)
    BY <1>0, <2>0, <2>1 DEF HandOver, TypeOK
  <2>2. CASE UnprofitableBatch(p)
    BY <1>1, <2>2 DEF UnprofitableBatch
  <2>3. CASE Alone(p)
    <3>. SUFFICES ASSUME Finishing(p)' PROVE held'[p] # {}
      BY <2>3 DEF Alone
    <3>1. CASE LockProofReady(p)
      BY <2>0, <3>1 DEF LockProofReady, TypeOK
    <3>2. CASE ValidateOwn(p)
      BY <2>0, <3>2 DEF ValidateOwn, TypeOK
    <3>3. CASE FinalProofBuilt(p)
      BY <2>0, <3>3 DEF FinalProofBuilt, TypeOK
    <3>4. CASE HandOver(p) \/ UnprofitableBatch(p)
      BY <2>0, <3>4 DEF HandOver, UnprofitableBatch, ProcessEnds, TypeOK
    <3>. QED
      BY <1>2, <2>0, <3>1, <3>2, <3>3, <3>4
      DEF Channel, TryBuildFinalProof, CheckCanVerify, GetLatestVerifiedBatchNum,
          NothingReady, FinalProofFails, UnlockOwn, TryAggregateProofs,
          NothingToAggregate, LockProofsToAggregate, AggregationDone, AggregationFails,
          TryGenerateBatchProof, NothingToProve, LockBatchToProve, BatchProofDone,
          BatchProofWrongRoot, BatchProofFails, ReadFails, TypeOK
  <2>. QED  BY <1>2, <2>1, <2>2, <2>3, ProverAlone
<1>3. CASE SendFinalProof \/ SettlementMined \/ HandleSettlementFailure
  BY <1>0, <1>3
  DEF SendFinalProof, StartVerification, GetBatchFails, Submit, SubmitFails,
      EndVerification, SettlementTimeout, HandleSettlementFailure, SettlementMined, TypeOK
<1>4. CASE Restart
  BY <1>0, <1>4 DEF Restart
<1>5. CASE AbandonedReverted \/ Crash \/ SettlementReverted
  BY <1>1, <1>3, <1>5 DEF AbandonedReverted, Crash, SettlementReverted
<1>6. CASE \/ UNCHANGED vars \/ (\E c \in Held : AbandonedMined(c))
           \/ AbandonedDropped \/ BatchReady \/ VerifyTimeReached \/ LocksGetOld \/ CleanupLocked
  BY <1>6
  DEF vars, AbandonedMined, AbandonedDropped, BatchReady, VerifyTimeReached, LocksGetOld,
      CleanupLocked
<1>. QED
  BY <1>2, <1>3, <1>4, <1>5, <1>6
  DEF Next, Settlement, NotMinedByAggLayer, Environment

-----------------------------------------------------------------------------
(* The theorems. *)

(* When jobs end before their locks get old, no abandoned transaction is mined and
   the agglayer answers in time, a final proof starts right above the last verified
   batch from the time its row is locked until it is settled. *)
THEOREM FinalProofsExtend ==
  ASSUME Patient
  PROVE  Spec => []FinalProofExtendsVerified
<1>1. Init => FinalInv
  BY LastBatchAssumption
  DEF Init, FinalInv, Above, ClaimsAbove, SettledRowsStay, FinalProofExtendsVerified,
      Holders, Finishing
<1>2. Init => ExclusiveInv
  BY LastBatchAssumption
  DEF Init, ExclusiveInv, RowsDisjoint, ClaimsExclusive, ClaimsLocked, MutexHeldOnce,
      SeenBelow, StaleReadersSafe, Holders
<1>3. TypeOK /\ DownTogether /\ ClaimsApart /\ ExclusiveInv /\ [Next]_vars => ExclusiveInv'
  BY ExclusiveStep DEF Patient
<1>4. TypeOK /\ DownTogether /\ ClaimsApart /\ ExclusiveInv /\ FinalInv /\ [Next]_vars
        => FinalInv'
  BY FinalStep
<1>5. FinalInv => FinalProofExtendsVerified
  BY DEF FinalInv
<1>. QED
  BY TypeCorrect, EndsTogether, ClaimsStayApart, <1>1, <1>2, <1>3, <1>4, <1>5, PTL DEF Spec

(* Under the same assumptions there is one final proof at a time, however many
   provers pass canVerifyProof together: two of them would start at the same batch. *)
THEOREM OneFinalProof ==
  ASSUME Patient
  PROVE  Spec => []SingleFinalProof
<1>1. Init => FinalInMemory
  BY DEF Init, FinalInMemory, Finishing, Holders
<1>2. TypeOK /\ FinalInMemory /\ [Next]_vars => FinalInMemory'
  BY FinalMemoryStep
<1>3. TypeOK /\ FinalInMemory /\ ClaimsExclusive /\ FinalProofExtendsVerified
        => SingleFinalProof
  <2>. SUFFICES ASSUME TypeOK, FinalInMemory, ClaimsExclusive, FinalProofExtendsVerified,
                       NEW g \in Holders, NEW h \in Holders, g # h,
                       Finishing(g), Finishing(h)
                PROVE  FALSE
    BY DEF SingleFinalProof
  <2>1. PICK c \in held[g], d \in held[h] : TRUE
    BY DEF FinalInMemory
  <2>2. c.from = d.from /\ Disjoint(c, d)
    BY DEF FinalProofExtendsVerified, ClaimsExclusive
  <2>3. c \in Held /\ d \in Held
    BY DEF TypeOK
  <2>. QED  BY <2>2, <2>3, LastBatchAssumption DEF Disjoint, Held, Batches
<1>. QED
  BY TypeCorrect, Exclusive, FinalProofsExtend, <1>1, <1>2, <1>3, PTL DEF Spec, Patient, Prompt
=============================================================================
