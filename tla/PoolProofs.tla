----------------------------- MODULE PoolProofs ------------------------------
(* Aggregator implements ProofPool: every step of the pipeline is a step of the pool
   of proofs, or leaves it alone.  The assumptions are those of ExclusiveProofs:
   without them two rows may overlap, and a pool has each range once. *)
EXTENDS ExclusiveProofs

-----------------------------------------------------------------------------
(* Who takes a proof has none in memory, whatever fails. *)

LEMMA EmptyInit == Init => EmptyHanded
  BY DEF Init, EmptyHanded

LEMMA EmptyProver ==
  ASSUME TypeOK, EmptyHanded, NEW p \in Provers, Channel(p)
  PROVE  EmptyHanded'
<1>. USE DEF dbVars, Goto, Keep, EmptyPlaces
<1>0. /\ p \in Holders /\ Sender \in Holders /\ p # Sender
      /\ pc[p] \in EmptyPlaces => held[p] = {}
      /\ DOMAIN pc = Holders /\ DOMAIN held = Holders
  BY SenderAssumption DEF Holders, EmptyHanded, TypeOK
<1>1. CASE HandOver(p)
  <2>1. /\ pc'[Sender] = "received" /\ held'[p] = {}
        /\ \A g \in Holders : g # p /\ g # Sender => pc'[g] = pc[g] /\ held'[g] = held[g]
    BY <1>0, <1>1 DEF HandOver
  <2>. QED  BY <2>1 DEF EmptyHanded
<1>2. CASE UnprofitableBatch(p)
  BY <1>2 DEF UnprofitableBatch, ProcessEnds, EmptyHanded
<1>3. CASE Alone(p)
  <2>. SUFFICES pc'[p] \in EmptyPlaces => held'[p] = {}
    BY <1>3 DEF EmptyHanded, Alone
  <2>1. CASE \/ CheckCanVerify(p) \/ GetLatestVerifiedBatchNum(p) \/ NothingReady(p)
             \/ ValidateOwn(p) \/ FinalProofBuilt(p) \/ NothingToAggregate(p)
             \/ NothingToProve(p) \/ ReadFails(p)
    BY <1>0, <2>1
    DEF CheckCanVerify, GetLatestVerifiedBatchNum, NothingReady, ValidateOwn,
        FinalProofBuilt, NothingToAggregate, NothingToProve, ReadFails
  <2>2. CASE \/ LockProofReady(p) \/ FinalProofFails(p) \/ UnlockOwn(p)
             \/ LockProofsToAggregate(p) \/ AggregationFails(p)
    BY <1>0, <2>2
    DEF LockProofReady, FinalProofFails, UnlockOwn, LockProofsToAggregate, AggregationFails
  <2>3. CASE \/ AggregationDone(p) \/ LockBatchToProve(p)
             \/ BatchProofDone(p) \/ BatchProofWrongRoot(p) \/ BatchProofFails(p)
    BY <1>0, <2>3
    DEF AggregationDone, LockBatchToProve, BatchProofDone, BatchProofWrongRoot,
        BatchProofFails
  <2>4. CASE HandOver(p) \/ UnprofitableBatch(p)
    BY <1>1, <1>2, <2>4 DEF EmptyHanded, Holders
  <2>. QED
    BY <2>1, <2>2, <2>3, <2>4
    DEF Channel, TryBuildFinalProof, TryAggregateProofs, TryGenerateBatchProof
<1>. QED  BY <1>1, <1>2, <1>3, ProverAlone

LEMMA EmptyOther ==
  ASSUME TypeOK, DownTogether, EmptyHanded,
         \/ SendFinalProof \/ Settlement \/ Environment \/ BatchReady
         \/ VerifyTimeReached \/ LocksGetOld \/ CleanupLocked \/ Crash \/ Restart
  PROVE  EmptyHanded'
<1>. USE DEF EmptyPlaces
<1>0. /\ Sender \in Holders /\ DOMAIN pc = Holders /\ DOMAIN held = Holders
  BY DEF Holders, TypeOK
<1>1. CASE SendFinalProof \/ SettlementMined \/ HandleSettlementFailure
  <2>1. \A g \in Holders : g # Sender => pc'[g] = pc[g] /\ held'[g] = held[g]
    BY <1>0, <1>1
    DEF SendFinalProof, StartVerification, GetBatchFails, Submit, SubmitFails,
        EndVerification, SettlementTimeout, SettlementMined, HandleSettlementFailure,
        Goto, Keep
  <2>2. pc'[Sender] = "wait" => held'[Sender] = {}
    BY <1>0, <1>1
    DEF SendFinalProof, StartVerification, GetBatchFails, Submit, SubmitFails,
        EndVerification, SettlementTimeout, SettlementMined, HandleSettlementFailure,
        Goto, Keep
  <2>3. pc'[Sender] \in {"wait", "started", "settling", "mined"}
    BY <1>0, <1>1
    DEF SendFinalProof, StartVerification, GetBatchFails, Submit, SubmitFails,
        EndVerification, SettlementTimeout, SettlementMined, HandleSettlementFailure,
        Goto, Keep
  <2>. QED  BY <2>1, <2>2, <2>3 DEF EmptyHanded
<1>2. CASE \E T : ProcessEnds(T)
  BY <1>2 DEF ProcessEnds, EmptyHanded
<1>3. CASE Restart
  BY <1>3 DEF Restart, DownTogether, EmptyHanded
<1>4. CASE UNCHANGED <<pc, held>>
  BY <1>4 DEF EmptyHanded
<1>. QED
  BY <1>1, <1>2, <1>3, <1>4
  DEF Settlement, NotMinedByAggLayer, SettlementReverted, AbandonedReverted, Environment,
      AbandonedMined, AbandonedDropped, BatchReady, VerifyTimeReached, LocksGetOld,
      CleanupLocked, Crash

LEMMA EmptyAlways == Spec => []EmptyHanded
<1>1. TypeOK /\ DownTogether /\ EmptyHanded /\ [Next]_vars => EmptyHanded'
  <2>1. CASE UNCHANGED vars
    BY <2>1 DEF vars, EmptyHanded
  <2>. QED  BY <2>1, EmptyProver, EmptyOther DEF Next
<1>. QED  BY EmptyInit, TypeCorrect, EndsTogether, <1>1, PTL DEF Spec

(* Whoever aggregates has the two proofs of one candidate. *)

LEMMA PairProver ==
  ASSUME TypeOK, PairHeld, NEW p \in Provers, Channel(p)
  PROVE  PairHeld'
<1>. USE DEF dbVars, Goto, Keep
<1>0. /\ p \in Holders /\ Sender \in Holders /\ DOMAIN pc = Holders /\ DOMAIN held = Holders
  BY DEF Holders, TypeOK
<1>1. CASE LockProofsToAggregate(p)
  <2>1. Alone(p) /\ \A x, y, z \in held'[p] : x = y \/ x = z \/ y = z
    BY <1>0, <1>1, AloneByExcept DEF LockProofsToAggregate
  <2>. QED  BY <2>1 DEF PairHeld, Alone
<1>2. CASE ~ LockProofsToAggregate(p)
  <2>1. \A g \in Holders :
          pc'[g] # "aggregating" \/ (pc'[g] = pc[g] /\ held'[g] = held[g])
    <3>1. CASE HandOver(p)
      BY <1>0, <3>1 DEF HandOver
    <3>2. CASE UnprofitableBatch(p)
      BY <3>2 DEF UnprofitableBatch, ProcessEnds
    <3>3. CASE Alone(p)
      <4>. SUFFICES pc'[p] # "aggregating"
        BY <3>3 DEF Alone
      <4>1. CASE \/ CheckCanVerify(p) \/ GetLatestVerifiedBatchNum(p) \/ NothingReady(p)
                 \/ ValidateOwn(p) \/ FinalProofBuilt(p) \/ NothingToAggregate(p)
                 \/ NothingToProve(p) \/ ReadFails(p)
        BY <1>0, <4>1
        DEF CheckCanVerify, GetLatestVerifiedBatchNum, NothingReady, ValidateOwn,
            FinalProofBuilt, NothingToAggregate, NothingToProve, ReadFails
      <4>2. CASE \/ LockProofReady(p) \/ FinalProofFails(p) \/ UnlockOwn(p)
                 \/ AggregationFails(p) \/ AggregationDone(p) \/ LockBatchToProve(p)
                 \/ BatchProofDone(p) \/ BatchProofWrongRoot(p) \/ BatchProofFails(p)
        BY <1>0, <4>2
        DEF LockProofReady, FinalProofFails, UnlockOwn, AggregationFails, AggregationDone,
            LockBatchToProve, BatchProofDone, BatchProofWrongRoot, BatchProofFails
      <4>3. CASE HandOver(p) \/ UnprofitableBatch(p)
        BY <1>0, <4>3 DEF HandOver, UnprofitableBatch, ProcessEnds
      <4>. QED
        BY <1>2, <4>1, <4>2, <4>3
        DEF Channel, TryBuildFinalProof, TryAggregateProofs, TryGenerateBatchProof
    <3>. QED  BY <3>1, <3>2, <3>3, ProverAlone
  <2>. QED  BY <2>1 DEF PairHeld
<1>. QED  BY <1>1, <1>2

LEMMA PairOther ==
  ASSUME TypeOK, PairHeld,
         \/ SendFinalProof \/ Settlement \/ Environment \/ BatchReady
         \/ VerifyTimeReached \/ LocksGetOld \/ CleanupLocked \/ Crash \/ Restart
  PROVE  PairHeld'
<1>0. Sender \in Holders /\ DOMAIN pc = Holders /\ DOMAIN held = Holders
  BY DEF Holders, TypeOK
<1>1. \A g \in Holders :
        pc'[g] # "aggregating" \/ (pc'[g] = pc[g] /\ held'[g] = held[g])
  <2>1. CASE SendFinalProof \/ SettlementMined \/ HandleSettlementFailure
    BY <1>0, <2>1
    DEF SendFinalProof, StartVerification, GetBatchFails, Submit, SubmitFails,
        EndVerification, SettlementTimeout, SettlementMined, HandleSettlementFailure,
        Goto, Keep
  <2>2. CASE \E T : ProcessEnds(T)
    BY <2>2 DEF ProcessEnds
  <2>3. CASE Restart
    BY <2>3 DEF Restart
  <2>4. CASE UNCHANGED <<pc, held>>
    BY <2>4
  <2>. QED
    BY <2>1, <2>2, <2>3, <2>4
    DEF Settlement, NotMinedByAggLayer, SettlementReverted, AbandonedReverted,
        Environment, AbandonedMined, AbandonedDropped, BatchReady, VerifyTimeReached,
        LocksGetOld, CleanupLocked, Crash
<1>. QED  BY <1>1 DEF PairHeld

LEMMA PairAlways == Spec => []PairHeld
<1>1. Init => PairHeld
  BY DEF Init, PairHeld, Holders
<1>2. TypeOK /\ PairHeld /\ [Next]_vars => PairHeld'
  <2>1. CASE UNCHANGED vars
    BY <2>1 DEF vars, PairHeld
  <2>. QED  BY <2>1, PairProver, PairOther DEF Next
<1>. QED  BY TypeCorrect, <1>1, <1>2, PTL DEF Spec

-----------------------------------------------------------------------------
(* What a row stands for. *)

Proven(r) == r.made \/ ProvenInMemory(r)

RangeOf(r) == [from |-> r.from, to |-> r.to, proven |-> Proven(r)]

KeysUnique(P) == \A r, s \in P : SameKey(r, s) => r = s

LEMMA RowsKeys ==
  ASSUME NEW P \in SUBSET Rows, AllDisjoint(P)
  PROVE  KeysUnique(P)
  BY NotSelfDisjoint DEF AllDisjoint, KeysUnique

(* The row of a claim. *)
LEMMA ClaimRow ==
  ASSUME TypeOK, ExclusiveInv, NEW h \in Holders, pc[h] # "dropped", NEW c \in held[h]
  PROVE  \E r \in proofs : SameKey(r, c)
  BY DEF ExclusiveInv, ClaimsLocked

PoolInv == TypeOK /\ ClaimsApart /\ ExclusiveInv /\ EmptyHanded /\ OnlyGeneratedProofsUsed

(* A proof for the range of x has been generated. *)
KnownProven(x) == (\E r \in proofs : SameKey(r, x) /\ r.made) \/ ProvenInMemory(x)

(* Rows and proofs are left, or forgotten. *)
RowsForgotten ==
  \A s \in proofs' : \E r \in proofs : SameKey(r, s) /\ (s.made => KnownProven(s))

MemoryForgotten ==
  \A h \in Holders : \A c \in held'[h] : c.made => KnownProven(c)

LEMMA ForgottenRanges ==
  ASSUME KeysUnique(proofs), RowsForgotten, MemoryForgotten, NEW s \in proofs'
  PROVE  \E r \in proofs : SameKey(r, s) /\ (Proven(s)' => Proven(r))
<1>1. PICK r \in proofs : SameKey(r, s) /\ (s.made => KnownProven(s))
  BY DEF RowsForgotten
<1>2. ASSUME Proven(s)'
      PROVE  KnownProven(s)
  <2>1. CASE s.made
    BY <1>1, <2>1
  <2>2. CASE ~ s.made
    <3>1. ProvenInMemory(s)'
      BY <1>2, <2>2 DEF Proven
    <3>2. PICK h \in Holders : \E c \in held'[h] : SameKey(c, s) /\ c.made
      BY <3>1 DEF ProvenInMemory
    <3>3. PICK c \in held'[h] : SameKey(c, s) /\ c.made
      BY <3>2
    <3>4. KnownProven(c)
      BY <3>3 DEF MemoryForgotten
    <3>. QED  BY <3>3, <3>4 DEF KnownProven, ProvenInMemory, SameKey
  <2>. QED  BY <2>1, <2>2
<1>3. KnownProven(s) => Proven(r)
  BY <1>1 DEF KnownProven, Proven, ProvenInMemory, SameKey, KeysUnique
<1>. QED  BY <1>1, <1>2, <1>3

(* Ranges may be left out or not be proven any more. *)
LEMMA LoseSome ==
  ASSUME NEW P, NEW Q, KeysUnique(P),
         \A j \in Q : \E i \in P : SameKey(i, j) /\ j \in {i, [i EXCEPT !.proven = FALSE]},
         KeysUnique(Q)
  PROVE  \E S, T \in SUBSET P :
           Q = ((P \ S) \ T) \cup {[i EXCEPT !.proven = FALSE] : i \in T \ S}
<1>. DEFINE S == {i \in P : \A j \in Q : ~ SameKey(i, j)}
            T == {i \in P : i \notin Q}
<1>1. ASSUME NEW j \in Q
      PROVE  j \in ((P \ S) \ T) \cup {[i EXCEPT !.proven = FALSE] : i \in T \ S}
  <2>1. PICK i \in P : SameKey(i, j) /\ j \in {i, [i EXCEPT !.proven = FALSE]}
    OBVIOUS
  <2>2. i \notin S
    BY <2>1
  <2>3. CASE j = i
    BY <2>2, <2>3
  <2>4. CASE j # i
    <3>1. i \notin Q
      BY <2>1, <2>4 DEF KeysUnique
    <3>. QED  BY <2>1, <2>2, <2>4, <3>1
  <2>. QED  BY <2>3, <2>4
<1>2. ASSUME NEW i \in T \ S
      PROVE  [i EXCEPT !.proven = FALSE] \in Q
  <2>1. PICK j \in Q : SameKey(i, j)
    OBVIOUS
  <2>2. PICK k \in P : SameKey(k, j) /\ j \in {k, [k EXCEPT !.proven = FALSE]}
    OBVIOUS
  <2>3. k = i
    BY <2>1, <2>2 DEF KeysUnique, SameKey
  <2>. QED  BY <2>2, <2>3
<1>3. Q = ((P \ S) \ T) \cup {[i EXCEPT !.proven = FALSE] : i \in T \ S}
  BY <1>1, <1>2
<1>. QED  BY <1>3

LEMMA RangeExcept ==
  ASSUME NEW r, NEW b
  PROVE  [RangeOf(r) EXCEPT !.proven = b] = [from |-> r.from, to |-> r.to, proven |-> b]
<1>1. PICK v : v = Proven(r)
  OBVIOUS
<1>2. RangeOf(r) = [from |-> r.from, to |-> r.to, proven |-> v]
  BY <1>1 DEF RangeOf
<1>. QED  BY <1>2

LEMMA ForgottenStep ==
  ASSUME KeysUnique(proofs), KeysUnique(proofs'), RowsForgotten, MemoryForgotten,
         Submitted' \subseteq Submitted, lastVerified' = lastVerified
  PROVE  Pool!Lose
<1>1. poolBar = {RangeOf(r) : r \in proofs} /\ poolBar' = {RangeOf(s)' : s \in proofs'}
  BY DEF poolBar, RangeOf, Proven
<1>2. KeysUnique(poolBar) /\ KeysUnique(poolBar')
  BY <1>1 DEF KeysUnique, SameKey, RangeOf
<1>3. ASSUME NEW j \in poolBar'
      PROVE  \E i \in poolBar : SameKey(i, j) /\ j \in {i, [i EXCEPT !.proven = FALSE]}
  <2>1. PICK s \in proofs' : j = RangeOf(s)'
    BY <1>1
  <2>2. PICK r \in proofs : SameKey(r, s) /\ (Proven(s)' => Proven(r))
    BY ForgottenRanges
  <2>3. SameKey(RangeOf(r), j)
    BY <2>1, <2>2 DEF RangeOf, SameKey
  <2>4. Proven(r) \in BOOLEAN /\ Proven(s)' \in BOOLEAN
    BY DEF Proven
  <2>5. CASE Proven(s)' = Proven(r)
    <3>1. j = RangeOf(r)
      BY <2>1, <2>2, <2>5 DEF RangeOf, SameKey
    <3>. QED  BY <1>1, <2>3, <3>1
  <2>6. CASE Proven(s)' = FALSE
    <3>1. j = [from |-> r.from, to |-> r.to, proven |-> FALSE]
      BY <2>1, <2>2, <2>6 DEF RangeOf, SameKey
    <3>2. [RangeOf(r) EXCEPT !.proven = FALSE]
            = [from |-> r.from, to |-> r.to, proven |-> FALSE]
      BY RangeExcept
    <3>. QED  BY <1>1, <2>3, <3>1, <3>2
  <2>. QED  BY <2>2, <2>4, <2>5, <2>6
<1>4. \E S, T \in SUBSET poolBar :
        poolBar' = ((poolBar \ S) \ T) \cup {[i EXCEPT !.proven = FALSE] : i \in T \ S}
  BY <1>2, <1>3, LoseSome
<1>5. submittedBar' \subseteq submittedBar
  BY DEF submittedBar
<1>. QED  BY <1>4, <1>5 DEF Pool!Lose

-----------------------------------------------------------------------------
(* Steps that forget. *)

LEMMA FewerForgotten ==
  ASSUME proofs' \subseteq proofs
  PROVE  RowsForgotten
  BY DEF RowsForgotten, KnownProven, SameKey

LEMMA UpdateForgotten ==
  ASSUME NEW C, NEW since, proofs' = UpdateGeneratedProof(proofs, C, since),
         \A c \in C : c.made => KnownProven(c)
  PROVE  RowsForgotten
<1>. SUFFICES ASSUME NEW s \in proofs'
              PROVE  \E r \in proofs : SameKey(r, s) /\ (s.made => KnownProven(s))
  BY DEF RowsForgotten
<1>1. CASE s \in proofs
  BY <1>1 DEF KnownProven, SameKey
<1>2. CASE \E c \in C : s = Row(c, since) /\ \E r \in proofs : SameKey(c, r)
  <2>1. PICK c \in C : s = Row(c, since) /\ \E r \in proofs : SameKey(c, r)
    BY <1>2
  <2>2. s.from = c.from /\ s.to = c.to /\ s.made = c.made
    BY <2>1 DEF Row
  <2>3. s.made => KnownProven(s)
    BY <2>2 DEF KnownProven, ProvenInMemory, SameKey
  <2>. QED  BY <2>1, <2>2, <2>3 DEF SameKey
<1>. QED  BY <1>1, <1>2 DEF UpdateGeneratedProof

LEMMA ClaimsKnown ==
  ASSUME NEW h \in Holders, NEW c \in held[h], c.made
  PROVE  KnownProven(c)
  BY DEF KnownProven, ProvenInMemory, SameKey

LEMMA ContentKnown ==
  ASSUME NEW r \in proofs, Content(r).made
  PROVE  KnownProven(Content(r))
  BY DEF KnownProven, Content, Proof, SameKey

LEMMA MemoryKept ==
  ASSUME \A h \in Holders : \A c \in held'[h] :
           \/ \E g \in Holders : c \in held[g]
           \/ \E r \in proofs : c = Content(r)
  PROVE  MemoryForgotten
  BY ClaimsKnown, ContentKnown DEF MemoryForgotten

LEMMA SubmittedKept ==
  ASSUME pc'[Sender] = "settling" => pc[Sender] = "settling" /\ held'[Sender] = held[Sender],
         abandoned' \subseteq Submitted
  PROVE  Submitted' \subseteq Submitted
  BY DEF Submitted, InFlight

LEMMA EndForgotten ==
  ASSUME NEW T \in SUBSET Submitted, ProcessEnds(T)
  PROVE  MemoryForgotten /\ Submitted' \subseteq Submitted
  BY DEF ProcessEnds, MemoryForgotten, Submitted, InFlight, Holders

Forgotten ==
  /\ RowsForgotten
  /\ MemoryForgotten
  /\ Submitted' \subseteq Submitted
  /\ lastVerified' = lastVerified

(* Updates of the proofs a holder has, which it may forget. *)
LEMMA HolderForgets ==
  ASSUME NEW h \in Holders, Alone(h), held'[h] \subseteq held[h],
         \/ proofs' \subseteq proofs
         \/ \E since : proofs' = UpdateGeneratedProof(proofs, held[h], since),
         h = Sender => pc'[h] # "settling",
         abandoned' \subseteq Submitted,
         lastVerified' = lastVerified
  PROVE  Forgotten
<1>1. RowsForgotten
  BY FewerForgotten, UpdateForgotten, ClaimsKnown
<1>2. MemoryForgotten
  BY MemoryKept DEF Alone
<1>3. Submitted' \subseteq Submitted
  BY SubmittedKept DEF Alone, Holders
<1>. QED  BY <1>1, <1>2, <1>3 DEF Forgotten

LEMMA ProverForgets ==
  ASSUME PoolInv, NEW p \in Provers, Channel(p),
         ~ LockBatchToProve(p), ~ BatchProofDone(p), ~ AggregationDone(p)
  PROVE  Forgotten
<1>. USE DEF dbVars, l1Vars, Goto, Keep
<1>0. /\ p \in Holders /\ Sender \in Holders /\ p # Sender
      /\ DOMAIN pc = Holders /\ DOMAIN held = Holders
      /\ abandoned \subseteq Submitted
  BY SenderAssumption DEF Holders, PoolInv, TypeOK, Submitted
<1>1. CASE HandOver(p)
  <2>1. /\ held'[Sender] = held[p] /\ held'[p] = {} /\ pc'[Sender] = "received"
        /\ \A g \in Holders : g # p /\ g # Sender => held'[g] = held[g]
        /\ proofs' = proofs /\ abandoned' = abandoned /\ lastVerified' = lastVerified
    BY <1>0, <1>1 DEF HandOver
  <2>. QED
    BY <1>0, <2>1, FewerForgotten, MemoryKept, SubmittedKept DEF Forgotten
<1>2. CASE UnprofitableBatch(p)
  BY <1>2, FewerForgotten, EndForgotten DEF UnprofitableBatch, Forgotten
<1>3. CASE Alone(p)
  <2>1. CASE \/ CheckCanVerify(p) \/ GetLatestVerifiedBatchNum(p) \/ NothingReady(p)
             \/ FinalProofBuilt(p) \/ NothingToAggregate(p)
             \/ NothingToProve(p) \/ ReadFails(p)
    <3>1. /\ proofs' = proofs /\ held' = held /\ abandoned' = abandoned
          /\ lastVerified' = lastVerified
      BY <2>1
      DEF CheckCanVerify, GetLatestVerifiedBatchNum, NothingReady,
          FinalProofBuilt, NothingToAggregate, NothingToProve, ReadFails
    <3>. QED  BY <1>0, <1>3, <3>1, HolderForgets
  <2>2. CASE \/ ValidateOwn(p) \/ FinalProofFails(p) \/ UnlockOwn(p)
             \/ AggregationFails(p) \/ BatchProofFails(p) \/ BatchProofWrongRoot(p)
    <3>1. /\ held'[p] \subseteq held[p] /\ abandoned' = abandoned
          /\ lastVerified' = lastVerified
      BY <1>0, <2>2
      DEF ValidateOwn, FinalProofFails, UnlockOwn, AggregationFails, BatchProofFails,
          BatchProofWrongRoot
    <3>2. \/ proofs' \subseteq proofs
          \/ proofs' = UpdateGeneratedProof(proofs, held[p], "null")
      BY <2>2
      DEF ValidateOwn, FinalProofFails, UnlockOwn, AggregationFails, BatchProofFails,
          BatchProofWrongRoot, Release, DeleteGeneratedProofs
    <3>. QED  BY <1>0, <1>3, <3>1, <3>2, HolderForgets
  <2>3. CASE LockProofReady(p) \/ LockProofsToAggregate(p)
    <3>1. PICK C : /\ \A c \in C : \E r \in proofs : c = Content(r)
                   /\ proofs' = UpdateGeneratedProof(proofs, C, "recent")
                   /\ held'[p] \in {C, {}}
      <4>1. CASE LockProofReady(p)
        <5>1. PICK r \in GetProofReadyToVerify(proofs, sequences, seen[p]) :
                /\ proofs' = UpdateGeneratedProof(proofs, {Content(r)}, "recent")
                /\ held'[p] \in {{Content(r)}, {}}
          BY <1>0, <4>1 DEF LockProofReady
        <5>. QED  BY <5>1 DEF GetProofReadyToVerify
      <4>2. CASE LockProofsToAggregate(p)
        <5>1. PICK c \in GetProofsToAggregate(proofs, sequences) :
                LET pair == {Content(c[1]), Content(c[2])} IN
                /\ proofs' = UpdateGeneratedProof(proofs, pair, "recent")
                /\ held'[p] \in {pair, {}}
          BY <1>0, <4>2 DEF LockProofsToAggregate
        <5>2. c[1] \in proofs /\ c[2] \in proofs
          BY DEF GetProofsToAggregate, Aggregatable
        <5>. QED  BY <5>1, <5>2
      <4>. QED  BY <2>3, <4>1, <4>2
    <3>2. abandoned' = abandoned /\ lastVerified' = lastVerified
      BY <2>3 DEF LockProofReady, LockProofsToAggregate
    <3>3. RowsForgotten
      BY <3>1, UpdateForgotten, ContentKnown
    <3>4. MemoryForgotten
      BY <1>3, <3>1, MemoryKept DEF Alone
    <3>5. Submitted' \subseteq Submitted
      BY <1>0, <1>3, <3>2, SubmittedKept DEF Alone
    <3>. QED  BY <3>2, <3>3, <3>4, <3>5 DEF Forgotten
  <2>. QED
    BY <1>1, <1>2, <2>1, <2>2, <2>3
    DEF Channel, TryBuildFinalProof, TryAggregateProofs, TryGenerateBatchProof
<1>. QED  BY <1>1, <1>2, <1>3, ProverAlone DEF PoolInv

LEMMA SenderForgets ==
  ASSUME PoolInv, SendFinalProof \/ NotMinedByAggLayer, ~ Submit
  PROVE  Forgotten
<1>. USE DEF dbVars, l1Vars, flags, Goto, Keep
<1>0. /\ Sender \in Holders /\ DOMAIN pc = Holders /\ DOMAIN held = Holders
      /\ abandoned \subseteq Submitted /\ TypeOK
  BY DEF Holders, PoolInv, TypeOK, Submitted
<1>1. CASE HandleSettlementFailure /\ abandoned' \in {abandoned, Submitted}
  <2>1. /\ held'[Sender] = {} /\ pc'[Sender] = "wait" /\ lastVerified' = lastVerified
        /\ Alone(Sender)
    BY <1>0, <1>1, AloneByExcept DEF HandleSettlementFailure
  <2>2. \/ proofs' \subseteq proofs
        \/ proofs' = UpdateGeneratedProof(proofs, held[Sender], "null")
    BY <1>1 DEF HandleSettlementFailure, Release
  <2>. QED  BY <1>0, <1>1, <2>1, <2>2, HolderForgets
<1>2. CASE StartVerification \/ GetBatchFails \/ EndVerification
  <2>1. /\ held'[Sender] \subseteq held[Sender] /\ pc'[Sender] # "settling"
        /\ lastVerified' = lastVerified /\ proofs' = proofs /\ abandoned' = abandoned
    BY <1>0, <1>2 DEF StartVerification, GetBatchFails, EndVerification
  <2>2. Alone(Sender)
    BY <1>0, <1>2, AloneByExcept DEF StartVerification, GetBatchFails, EndVerification
  <2>. QED  BY <1>0, <2>1, <2>2, HolderForgets
<1>. QED
  BY <1>1, <1>2
  DEF SendFinalProof, SubmitFails, SettlementTimeout, NotMinedByAggLayer

LEMMA LifeForgets ==
  ASSUME PoolInv, DownTogether,
         \/ SettlementReverted \/ AbandonedReverted \/ AbandonedDropped
         \/ BatchReady \/ VerifyTimeReached \/ LocksGetOld \/ CleanupLocked \/ Crash \/ Restart
  PROVE  Forgotten
<1>. USE DEF dbVars, l1Vars, flags
<1>0. /\ Sender \in Holders /\ proofs \subseteq Rows /\ abandoned \subseteq Submitted
  BY DEF Holders, PoolInv, TypeOK, Submitted
<1>1. CASE SettlementReverted \/ AbandonedReverted \/ Crash
  <2>1. PICK T \in SUBSET Submitted : ProcessEnds(T)
    <3>1. CASE SettlementReverted
      <4>1. (IF config.stored THEN Submitted ELSE abandoned) \in SUBSET Submitted
        BY <1>0
      <4>. QED  BY <3>1, <4>1 DEF SettlementReverted
    <3>. QED  BY <1>1, <3>1 DEF AbandonedReverted, Crash
  <2>2. proofs' = proofs /\ lastVerified' = lastVerified
    BY <1>1 DEF SettlementReverted, AbandonedReverted, Crash
  <2>. QED  BY <2>1, <2>2, FewerForgotten, EndForgotten DEF Forgotten
<1>2. CASE LocksGetOld
  <2>1. UNCHANGED <<l1Vars, pc, held>>
    BY <1>2 DEF LocksGetOld
  <2>2. RowsForgotten
    <3>. SUFFICES ASSUME NEW s \in proofs'
                  PROVE  \E r \in proofs : SameKey(r, s) /\ (s.made => KnownProven(s))
      BY DEF RowsForgotten
    <3>1. PICK r \in proofs : s = IF CanGetOld(r) THEN [r EXCEPT !.since = "old"] ELSE r
      BY <1>2 DEF LocksGetOld
    <3>2. r.from = s.from /\ r.to = s.to /\ r.made = s.made
      BY <1>0, <3>1 DEF Rows
    <3>. QED  BY <3>2 DEF KnownProven, SameKey
  <2>3. MemoryForgotten /\ Submitted' \subseteq Submitted
    BY <1>0, <2>1, MemoryKept, SubmittedKept
  <2>. QED  BY <2>1, <2>2, <2>3 DEF Forgotten
<1>3. CASE AbandonedDropped \/ BatchReady \/ VerifyTimeReached \/ CleanupLocked
  <2>1. /\ proofs' \subseteq proofs /\ abandoned' \subseteq abandoned
        /\ UNCHANGED <<pc, held, lastVerified>>
    BY <1>3
    DEF AbandonedDropped, BatchReady, VerifyTimeReached, CleanupLocked, CleanupLockedProofs
  <2>. QED
    BY <1>0, <2>1, FewerForgotten, MemoryKept, SubmittedKept DEF Forgotten
<1>4. CASE Restart
  <2>1. /\ proofs' \subseteq proofs /\ abandoned' = abandoned
        /\ held' = held /\ pc'[Sender] = "wait" /\ lastVerified' = lastVerified
    BY <1>0, <1>4
    DEF Restart, DeleteUngeneratedProofs, DeleteBatchesOlderThanBatchNumber
  <2>. QED
    BY <1>0, <2>1, FewerForgotten, MemoryKept, SubmittedKept DEF Forgotten
<1>. QED  BY <1>1, <1>2, <1>3, <1>4

-----------------------------------------------------------------------------
(* Steps of the pool. *)

(* Some rows R are replaced by one, and the others stand for what they stood for. *)
LEMMA ReplaceRows ==
  ASSUME KeysUnique(proofs), NEW R \in SUBSET proofs, NEW n,
         proofs' = (proofs \ R) \cup {n},
         \A s \in proofs \ R : Proven(s)' = Proven(s)
  PROVE  poolBar' = (poolBar \ {RangeOf(r) : r \in R}) \cup {RangeOf(n)'}
<1>1. poolBar = {RangeOf(r) : r \in proofs} /\ poolBar' = {RangeOf(s)' : s \in proofs'}
  BY DEF poolBar, RangeOf, Proven
<1>2. \A r, s \in proofs : RangeOf(r) = RangeOf(s) => r = s
  BY DEF KeysUnique, SameKey, RangeOf
<1>3. \A s \in proofs \ R : RangeOf(s)' = RangeOf(s)
  BY DEF RangeOf
<1>4. poolBar' = {RangeOf(s) : s \in proofs \ R} \cup {RangeOf(n)'}
  BY <1>1, <1>3
<1>5. {RangeOf(s) : s \in proofs \ R} = poolBar \ {RangeOf(r) : r \in R}
  BY <1>1, <1>2
<1>. QED  BY <1>4, <1>5

(* What holders have in memory of other ranges makes no difference. *)
LEMMA ProvenKept ==
  ASSUME NEW p \in Holders, Alone(p), NEW s,
         \A c \in held[p] \cup held'[p] : SameKey(c, s) => ~ c.made
  PROVE  Proven(s)' = Proven(s)
<1>1. ProvenInMemory(s)' <=> ProvenInMemory(s)
  BY DEF ProvenInMemory, Alone
<1>2. ProvenInMemory(s) \in BOOLEAN /\ ProvenInMemory(s)' \in BOOLEAN
  BY DEF ProvenInMemory
<1>. QED  BY <1>1, <1>2 DEF Proven

LEMMA SubmittedSame ==
  ASSUME NEW p \in Provers, Alone(p), abandoned' = abandoned
  PROVE  submittedBar' = submittedBar
  BY SenderAssumption DEF submittedBar, Submitted, InFlight, Alone, Holders

LEMMA ClaimStep ==
  ASSUME PoolInv, NEW p \in Provers, LockBatchToProve(p)
  PROVE  Pool!Claim \/ Forgotten
<1>. USE DEF dbVars, l1Vars, Goto, Keep
<1>0. /\ p \in Holders /\ DOMAIN pc = Holders /\ DOMAIN held = Holders
      /\ pc[p] = "choose" /\ held[p] = {} /\ abandoned' = abandoned
      /\ lastVerified' = lastVerified /\ TypeOK /\ ExclusiveInv
      /\ KeysUnique(proofs) /\ p # Sender /\ abandoned \subseteq Submitted
  BY RowsKeys, SenderAssumption
  DEF Holders, PoolInv, TypeOK, LockBatchToProve, EmptyHanded, EmptyPlaces, ExclusiveInv,
      RowsDisjoint, AllDisjoint, Submitted
<1>1. Alone(p)
  <2>1. Channel(p) /\ ~ HandOver(p) /\ ~ UnprofitableBatch(p)
    BY <1>0 DEF LockBatchToProve, Channel, TryGenerateBatchProof, HandOver, UnprofitableBatch
  <2>. QED  BY <1>0, <2>1, ProverAlone
<1>2. PICK b \in Batches :
        LET c == Proof(b, b, FALSE) IN
        /\ NextToProve(p, b)
        /\ held'[p] \subseteq {c}
        /\ \/ proofs' = AddGeneratedProof(proofs, c)
           \/ proofs' = proofs /\ held'[p] = {}
  BY <1>0 DEF LockBatchToProve
<1>. DEFINE c == Proof(b, b, FALSE)
            n == Row(c, "recent")
<1>3. CASE proofs' = proofs /\ held'[p] = {}
  BY <1>0, <1>1, <1>3, HolderForgets
<1>4. CASE proofs' = AddGeneratedProof(proofs, c)
  <2>1. /\ \A r \in proofs : Disjoint(c, r)
        /\ \A g \in Holders : g # p => \A d \in held[g] : Disjoint(c, d)
    BY <1>0, <1>2, BatchApart
  <2>2. proofs' = (proofs \ {}) \cup {n}
    BY <1>4 DEF AddGeneratedProof
  <2>3. \A s \in proofs : Proven(s)' = Proven(s)
    BY <1>0, <1>1, <1>2, ProvenKept DEF Proof
  <2>4. poolBar' = (poolBar \ {RangeOf(r) : r \in {}}) \cup {RangeOf(n)'}
    BY <1>0, <2>2, <2>3, ReplaceRows
  <2>5. n.from = b /\ n.to = b /\ n.made = FALSE /\ c.from = b /\ c.to = b /\ b \in Nat
    BY LastBatchAssumption DEF Row, Proof, Batches
  <2>6. ~ ProvenInMemory(n)'
    <3>. SUFFICES ASSUME NEW h \in Holders, NEW d \in held'[h], SameKey(d, n), d.made
                  PROVE  FALSE
      BY DEF ProvenInMemory
    <3>1. CASE h = p
      BY <1>2, <3>1 DEF Proof
    <3>2. CASE h # p
      <4>1. d \in held[h]
        BY <1>1, <3>2 DEF Alone
      <4>2. Disjoint(c, d)
        BY <2>1, <3>2, <4>1
      <4>3. d.from = b /\ d.to = b
        BY <2>5 DEF SameKey
      <4>4. b < b
        BY <2>5, <4>2, <4>3 DEF Disjoint
      <4>. QED  BY <2>5, <4>4
    <3>. QED  BY <3>1, <3>2
  <2>7. Proven(n)' = FALSE
    BY <2>5, <2>6 DEF Proven
  <2>8. RangeOf(n)' = [from |-> b, to |-> b, proven |-> FALSE]
    BY <2>5, <2>7 DEF RangeOf
  <2>9. ~ Pool!Covered(b)
    BY <1>2
    DEF NextToProve, CheckProofExistsForBatch, Contains, Pool!Covered, poolBar
  <2>10. poolBar' = poolBar \cup {[from |-> b, to |-> b, proven |-> FALSE]}
    BY <2>4, <2>8
  <2>. QED
    BY <1>0, <1>1, <2>9, <2>10, SubmittedSame DEF Pool!Claim, Pool!Batches, Batches
<1>. QED  BY <1>2, <1>3, <1>4

LEMMA ProveStep ==
  ASSUME PoolInv, NEW p \in Provers, BatchProofDone(p)
  PROVE  Pool!Prove
<1>. USE DEF dbVars, l1Vars, Goto, Keep
<1>0. /\ p \in Holders /\ DOMAIN pc = Holders /\ DOMAIN held = Holders
      /\ pc[p] = "proving" /\ abandoned' = abandoned /\ proofs' = proofs
      /\ lastVerified' = lastVerified /\ TypeOK /\ KeysUnique(proofs)
      /\ \A c, d \in held[p] : c = d
  BY RowsKeys
  DEF Holders, PoolInv, TypeOK, BatchProofDone, ExclusiveInv, RowsDisjoint, AllDisjoint,
      ClaimsApart
<1>1. Alone(p)
  BY <1>0, AloneByExcept DEF BatchProofDone
<1>2. PICK c \in held[p] : held'[p] = {Proof(c.from, c.to, TRUE)}
  BY <1>0 DEF BatchProofDone
<1>3. PICK r \in proofs : SameKey(r, c)
  BY <1>0, ClaimRow DEF PoolInv
<1>4. \A s \in proofs \ {r} : Proven(s)' = Proven(s)
  <2>. SUFFICES ASSUME NEW s \in proofs \ {r} PROVE Proven(s)' = Proven(s)
    OBVIOUS
  <2>1. ~ SameKey(c, s)
    BY <1>0, <1>3 DEF KeysUnique, SameKey
  <2>2. \A d \in held[p] \cup held'[p] : ~ SameKey(d, s)
    BY <1>0, <1>2, <2>1 DEF SameKey, Proof
  <2>. QED  BY <1>0, <1>1, <2>2, ProvenKept
<1>5. poolBar' = (poolBar \ {RangeOf(q) : q \in {r}}) \cup {RangeOf(r)'}
  <2>1. proofs' = (proofs \ {r}) \cup {r}
    BY <1>0
  <2>. QED  BY <1>0, <1>4, <2>1, ReplaceRows
<1>6. Proven(r)' = TRUE
  <2>1. PICK d \in held'[p] : SameKey(d, r) /\ d.made
    BY <1>2, <1>3 DEF Proof, SameKey
  <2>2. ProvenInMemory(r)'
    BY <1>0, <2>1 DEF ProvenInMemory
  <2>. QED  BY <2>2 DEF Proven
<1>7. RangeOf(r)' = [RangeOf(r) EXCEPT !.proven = TRUE]
  BY <1>6, RangeExcept DEF RangeOf
<1>8. RangeOf(r) \in poolBar
  BY DEF poolBar, RangeOf, Proven
<1>9. poolBar' = (poolBar \ {RangeOf(r)}) \cup {[RangeOf(r) EXCEPT !.proven = TRUE]}
  BY <1>5, <1>7
<1>. QED
  BY <1>0, <1>1, <1>8, <1>9, SubmittedSame DEF Pool!Prove

LEMMA SubmitStep ==
  ASSUME PoolInv, SettlesWholeSequences, Submit
  PROVE  Pool!Submit \/ UNCHANGED Pool!vars
<1>. USE DEF dbVars, l1Vars, Goto
<1>0. /\ Sender \in Holders /\ pc[Sender] = "started" /\ pc'[Sender] = "settling"
      /\ UNCHANGED <<proofs, held, abandoned, lastVerified>>
      /\ \A c, d \in held[Sender] : c = d
  BY DEF Holders, PoolInv, TypeOK, Submit, ClaimsApart
<1>1. poolBar' = poolBar
  BY <1>0 DEF poolBar, ProvenInMemory
<1>2. Submitted = abandoned /\ Submitted' = abandoned \cup held[Sender]
  BY <1>0 DEF Submitted, InFlight
<1>3. CASE held[Sender] = {}
  BY <1>0, <1>1, <1>2, <1>3 DEF Pool!vars, submittedBar
<1>4. ASSUME NEW c \in held[Sender]
      PROVE  Pool!Submit
  <2>1. held[Sender] = {c}
    BY <1>0
  <2>2. submittedBar' = submittedBar \cup {[from |-> c.from, to |-> c.to]}
    BY <1>2, <2>1 DEF submittedBar
  <2>3. PICK r \in proofs : SameKey(r, c)
    BY <1>0, ClaimRow DEF PoolInv
  <2>4. c.made
    BY <1>0 DEF PoolInv, OnlyGeneratedProofsUsed
  <2>5. Proven(r)
    BY <1>0, <2>3, <2>4 DEF Proven, ProvenInMemory, SameKey
  <2>6. RangeOf(r) \in poolBar
    BY DEF poolBar, RangeOf, Proven
  <2>7. RangeOf(r).from = c.from /\ RangeOf(r).to = c.to /\ RangeOf(r).proven
    BY <2>3, <2>5 DEF RangeOf, SameKey
  <2>8. Pool!EndsSequence(c.to)
    BY DEF SettlesWholeSequences, Pool!EndsSequence
  <2>. QED
    BY <1>0, <1>1, <2>2, <2>6, <2>7, <2>8 DEF Pool!Submit
<1>. QED  BY <1>3, <1>4

LEMMA VerifyStep ==
  ASSUME PoolInv, SettlementMined
  PROVE  Pool!Verify
<1>. USE DEF dbVars, flags, Goto
<1>0. /\ Sender \in Holders /\ pc[Sender] = "settling" /\ pc'[Sender] = "mined"
      /\ UNCHANGED <<proofs, held, abandoned>>
      /\ \A c, d \in held[Sender] : c = d
  BY DEF Holders, PoolInv, TypeOK, SettlementMined, ClaimsApart
<1>1. PICK c \in held[Sender] : Acceptable(c) /\ lastVerified' = c.to
  BY DEF SettlementMined
<1>. DEFINE i == [from |-> c.from, to |-> c.to]
<1>2. poolBar' = poolBar
  BY <1>0 DEF poolBar, ProvenInMemory
<1>3. Submitted = abandoned \cup {c} /\ Submitted' = abandoned
  BY <1>0 DEF Submitted, InFlight
<1>4. submittedBar = submittedBar' \cup {i}
  BY <1>3 DEF submittedBar
<1>5. i \in submittedBar /\ submittedBar' \in {submittedBar, submittedBar \ {i}}
  BY <1>4
<1>6. i.from <= lastVerified + 1 /\ i.to > lastVerified /\ lastVerified' = i.to
  BY <1>1 DEF Acceptable
<1>. QED  BY <1>2, <1>5, <1>6 DEF Pool!Verify

LEMMA MergeStep ==
  ASSUME PoolInv, PairHeld, NEW p \in Provers, AggregationDone(p)
  PROVE  Pool!Merge
<1>. USE DEF dbVars, l1Vars, Goto, Keep
<1>0. /\ p \in Holders /\ DOMAIN pc = Holders /\ DOMAIN held = Holders
      /\ pc[p] = "aggregating" /\ abandoned' = abandoned
      /\ lastVerified' = lastVerified /\ TypeOK /\ ExclusiveInv
      /\ proofs \in SUBSET Rows /\ held[p] \in SUBSET Held
      /\ AllDisjoint(proofs) /\ KeysUnique(proofs)
  BY RowsKeys
  DEF Holders, PoolInv, TypeOK, AggregationDone, ExclusiveInv, RowsDisjoint, AllDisjoint
<1>1. Alone(p)
  BY <1>0, AloneByExcept DEF AggregationDone
<1>2. PICK x \in held[p], y \in held[p] :
        LET c == Aggregated(x, y) IN
        /\ Adjacent(x, y)
        /\ \/ proofs' = ReplaceByAggregated(proofs, c) /\ held'[p] = {c}
           \/ /\ proofs' = UpdateGeneratedProof(ReplaceByAggregated(proofs, c),
                                                held[p], "null")
              /\ held'[p] = {}
  BY <1>0 DEF AggregationDone
<1>. DEFINE c == Aggregated(x, y)
            n == Row(c, "recent")
<1>3. /\ x.from \in Nat /\ x.to \in Nat /\ y.from \in Nat /\ y.to \in Nat
      /\ x.from <= x.to /\ x.to + 1 = y.from /\ y.from <= y.to
  BY <1>0, <1>2, LastBatchAssumption DEF Held, Batches, Adjacent
<1>4. c.from = x.from /\ c.to = y.to /\ c.made = TRUE
      /\ n.from = x.from /\ n.to = y.to /\ n.made = TRUE
  BY DEF Aggregated, Proof, Row
<1>5. held[p] = {x, y}
  <2>1. x # y
    BY <1>3
  <2>. QED  BY <1>0, <2>1 DEF PairHeld
<1>6. PICK rx \in proofs, ry \in proofs : SameKey(rx, x) /\ SameKey(ry, y)
  BY <1>0, ClaimRow DEF PoolInv
<1>7. \A s \in proofs \ {rx, ry} : Disjoint(c, s)
  <2>. SUFFICES ASSUME NEW s \in proofs \ {rx, ry} PROVE Disjoint(c, s)
    OBVIOUS
  <2>1. Disjoint(x, s) /\ Disjoint(y, s)
    BY <1>0, <1>6 DEF AllDisjoint, Disjoint, SameKey
  <2>2. s.from \in Nat /\ s.to \in Nat /\ s.from <= s.to
    BY <1>0, LastBatchAssumption DEF Rows, Batches
  <2>. QED  BY <1>0, <1>2, <2>1, <2>2, UnionDisjoint
<1>8. ReplaceByAggregated(proofs, c) = (proofs \ {rx, ry}) \cup {n}
  <2>1. Within(rx, c) /\ Within(ry, c)
    BY <1>3, <1>4, <1>6 DEF Within, SameKey
  <2>2. ASSUME NEW s \in proofs \ {rx, ry}
        PROVE  ~ Within(s, c)
    <3>1. s.from \in Nat /\ s.to \in Nat /\ s.from <= s.to
      BY <1>0, LastBatchAssumption DEF Rows, Batches
    <3>2. Disjoint(c, s)
      BY <1>7
    <3>. QED  BY <1>3, <1>4, <3>1, <3>2 DEF Within, Disjoint
  <2>. QED
    BY <2>1, <2>2 DEF ReplaceByAggregated, AddGeneratedProof, DeleteGeneratedProofs
<1>9. ASSUME NEW s \in proofs \ {rx, ry}
      PROVE  ~ SameKey(x, s) /\ ~ SameKey(y, s) /\ ~ SameKey(c, s)
  <2>1. ~ SameKey(x, s) /\ ~ SameKey(y, s)
    BY <1>0, <1>6 DEF KeysUnique, SameKey
  <2>2. Disjoint(c, s)
    BY <1>7
  <2>3. ~ SameKey(c, s)
    BY <1>3, <1>4, <2>2 DEF Disjoint, SameKey
  <2>. QED  BY <2>1, <2>3
<1>10. ~ SameKey(x, n) /\ ~ SameKey(y, n)
  BY <1>3, <1>4 DEF SameKey
<1>11. proofs' = (proofs \ {rx, ry}) \cup {n}
  <2>1. UpdateGeneratedProof((proofs \ {rx, ry}) \cup {n}, held[p], "null")
          = (proofs \ {rx, ry}) \cup {n}
    BY <1>5, <1>9, <1>10 DEF UpdateGeneratedProof
  <2>. QED  BY <1>2, <1>8, <2>1
<1>12. \A s \in proofs \ {rx, ry} : Proven(s)' = Proven(s)
  <2>1. held[p] \cup held'[p] \subseteq {x, y, c}
    BY <1>2, <1>5
  <2>. QED  BY <1>0, <1>1, <1>9, <2>1, ProvenKept
<1>13. poolBar' = (poolBar \ {RangeOf(r) : r \in {rx, ry}}) \cup {RangeOf(n)'}
  BY <1>0, <1>11, <1>12, ReplaceRows
<1>14. Proven(n)' = TRUE /\ Proven(rx) /\ Proven(ry)
  <2>1. x.made /\ y.made
    BY <1>0 DEF PoolInv, OnlyGeneratedProofsUsed
  <2>. QED  BY <1>0, <1>4, <1>6, <2>1 DEF Proven, ProvenInMemory, SameKey
<1>15. RangeOf(n)' = [from |-> RangeOf(rx).from, to |-> RangeOf(ry).to, proven |-> TRUE]
  BY <1>4, <1>6, <1>14 DEF RangeOf, SameKey
<1>16. RangeOf(rx) \in poolBar /\ RangeOf(ry) \in poolBar
  BY DEF poolBar, RangeOf, Proven
<1>17. /\ RangeOf(rx).to + 1 = RangeOf(ry).from
       /\ RangeOf(rx).proven /\ RangeOf(ry).proven
  BY <1>3, <1>6, <1>14 DEF RangeOf, SameKey
<1>18. poolBar' = (poolBar \ {RangeOf(rx), RangeOf(ry)})
                    \cup {[from |-> RangeOf(rx).from, to |-> RangeOf(ry).to, proven |-> TRUE]}
  BY <1>13, <1>15
<1>19. UNCHANGED <<submittedBar, lastVerified>>
  BY <1>0, <1>1, SubmittedSame
<1>. QED
  BY <1>16, <1>17, <1>18, <1>19 DEF Pool!Merge

(* All steps; the keys of the rows stay unique by ExclusiveStep. *)
LEMMA PoolStep ==
  ASSUME Prompt, PoolInv, DownTogether, PairHeld, SettlesWholeSequences,
         KeysUnique(proofs'), [Next]_vars
  PROVE  [Pool!Next]_(Pool!vars)
<1>1. KeysUnique(proofs)
  BY RowsKeys DEF PoolInv, TypeOK, ExclusiveInv, RowsDisjoint, AllDisjoint
<1>2. CASE UNCHANGED vars
  BY <1>2 DEF vars, Pool!vars, poolBar, submittedBar, ProvenInMemory, Submitted,
                 InFlight
<1>3. Forgotten => Pool!Lose
  BY <1>1, ForgottenStep DEF Forgotten
<1>4. ASSUME NEW p \in Provers, Channel(p)
      PROVE  Pool!Next
  BY <1>3, <1>4, ClaimStep, ProveStep, MergeStep, ProverForgets DEF Pool!Next
<1>5. CASE SendFinalProof \/ Settlement
  BY <1>3, <1>5, SubmitStep, VerifyStep, SenderForgets, LifeForgets
  DEF Settlement, Pool!Next
<1>6. CASE \/ Environment \/ BatchReady \/ VerifyTimeReached \/ LocksGetOld
           \/ CleanupLocked \/ Crash \/ Restart
  <2>1. ~ \E c \in Held : AbandonedMined(c)
    BY DEF Prompt, AbandonedMined
  <2>. QED  BY <1>3, <1>6, <2>1, LifeForgets DEF Environment, Pool!Next
<1>. QED  BY <1>2, <1>4, <1>5, <1>6 DEF Next

(* Aggregator implements ProofPool, for any provers, sequences, faults and crashes, as
   long as the rows in use are not cleaned up and no transaction that was given up is
   mined: getAndLockBatchToProve claims a batch nobody works on, tryAggregateProofs
   merges two proven ranges, sendFinalProof submits a proven one that ends with a
   sequence, and everything else changes nothing or forgets. *)
THEOREM PoolImplemented ==
  ASSUME PromptHolders, ~ LateMining
  PROVE  Spec => ImplementsPool
<1>1. Init => Pool!Init
  BY SenderAssumption DEF Init, Pool!Init, poolBar, submittedBar, Submitted, InFlight, Holders
<1>2. Init => ExclusiveInv
  BY ExclusiveInit
<1>3. TypeOK /\ DownTogether /\ ClaimsApart /\ ExclusiveInv /\ [Next]_vars => ExclusiveInv'
  BY ExclusiveStep DEF Prompt
<1>4. TypeOK' /\ ExclusiveInv' => KeysUnique(proofs')
  BY RowsKeys DEF TypeOK, ExclusiveInv, RowsDisjoint, AllDisjoint
<1>5. /\ TypeOK /\ TypeOK' /\ DownTogether /\ ClaimsApart /\ ExclusiveInv /\ ExclusiveInv'
      /\ EmptyHanded /\ PairHeld /\ OnlyGeneratedProofsUsed /\ SettlesWholeSequences
      /\ [Next]_vars
      => [Pool!Next]_(Pool!vars)
  BY <1>4, PoolStep DEF Prompt, PoolInv
<1>. QED
  BY TypeCorrect, EndsTogether, ClaimsStayApart, GeneratedProofsUsed, SequencesFollowed,
     EmptyAlways, PairAlways, <1>1, <1>2, <1>3, <1>5, PTL
  DEF Spec, ImplementsPool, Pool!Spec

=============================================================================
