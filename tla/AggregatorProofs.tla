-------------------------- MODULE AggregatorProofs --------------------------
(* Theorems about Aggregator, for every value of its constants. *)
EXTENDS Aggregator, TLAPS

-----------------------------------------------------------------------------
(* What the operators of ProofStore keep. *)

LEMMA RowTyped ==
  ASSUME NEW c \in Held, NEW since \in Since
  PROVE  Row(c, since) \in Rows
  BY DEF Row, Rows, Held

LEMMA ContentTyped ==
  ASSUME NEW r \in Rows
  PROVE  Content(r) \in Held
  BY DEF Content, Proof, Rows, Held

LEMMA UpdateTyped ==
  ASSUME NEW P \in SUBSET Rows, NEW C \in SUBSET Held, NEW since \in Since
  PROVE  UpdateGeneratedProof(P, C, since) \subseteq Rows
  BY RowTyped DEF UpdateGeneratedProof

LEMMA ReleaseTyped ==
  ASSUME proofs \in SUBSET Rows, NEW C \in SUBSET Held, Release(C)
  PROVE  proofs' \in SUBSET Rows
  BY UpdateTyped DEF Release, Since

LEMMA AddTyped ==
  ASSUME NEW P \in SUBSET Rows, NEW c \in Held
  PROVE  AddGeneratedProof(P, c) \subseteq Rows
  BY RowTyped DEF AddGeneratedProof, Since

LEMMA DeleteTyped ==
  ASSUME NEW P \in SUBSET Rows, NEW c
  PROVE  DeleteGeneratedProofs(P, c) \subseteq Rows
  BY DEF DeleteGeneratedProofs

LEMMA AggregatedTyped ==
  ASSUME NEW x \in Held, NEW y \in Held, Adjacent(x, y)
  PROVE  Aggregated(x, y) \in Held
  BY LastBatchAssumption DEF Aggregated, Adjacent, Proof, Held, Batches

LEMMA SubmittedTyped ==
  ASSUME TypeOK
  PROVE  Submitted \subseteq Held
  BY DEF TypeOK, Submitted, InFlight, Holders

LEMMA AddSequenceTyped ==
  ASSUME sequences \subseteq L1Sequences, NEW s \in L1Sequences
  PROVE  AddSequence(sequences, s) \subseteq L1Sequences
  BY DEF AddSequence

LEMMA GotoTyped ==
  ASSUME TypeOK, NEW h \in Holders, NEW to,
         h \in Provers => to \in ProverPC,
         h = Sender => to \in SenderPC,
         Goto(h, to)
  PROVE  /\ pc' \in [Holders -> ProverPC \cup SenderPC]
         /\ \A p \in Provers : pc'[p] \in ProverPC
         /\ pc'[Sender] \in SenderPC
  BY SenderAssumption DEF TypeOK, Goto, Holders

LEMMA KeepTyped ==
  ASSUME TypeOK, NEW h \in Holders, NEW C \in SUBSET Held, Keep(h, C)
  PROVE  held' \in [Holders -> SUBSET Held]
  BY DEF TypeOK, Keep

LEMMA ForgetTyped ==
  ASSUME TypeOK, NEW p \in Provers, Forget(p)
  PROVE  seen' \in [Provers -> 0 .. LastBatch]
  BY LastBatchAssumption DEF TypeOK, Forget

LEMMA FaultTyped ==
  ASSUME TypeOK, NEW kind, Fault(kind)
  PROVE  faults' \in 0 .. MaxFaults
  BY ConfigAssumption DEF TypeOK, Fault

LEMMA ProcessEndsTyped ==
  ASSUME TypeOK, NEW T \in SUBSET Held, ProcessEnds(T)
  PROVE  /\ pc' \in [Holders -> ProverPC \cup SenderPC]
         /\ \A p \in Provers : pc'[p] \in ProverPC
         /\ pc'[Sender] \in SenderPC
         /\ held' \in [Holders -> SUBSET Held]
         /\ seen' \in [Provers -> 0 .. LastBatch]
         /\ verifyingProof' \in BOOLEAN
         /\ timeReached' \in BOOLEAN
         /\ abandoned' \subseteq Held
         /\ monitored' \subseteq Held
         /\ config' \in Configs
<1>1. pc' = [h \in Holders |-> "down"]
  BY DEF ProcessEnds
<1>2. "down" \in ProverPC /\ "down" \in SenderPC
  BY DEF ProverPC, SenderPC
<1>3. /\ pc' \in [Holders -> ProverPC \cup SenderPC]
      /\ \A p \in Provers : pc'[p] \in ProverPC
      /\ pc'[Sender] \in SenderPC
  BY <1>1, <1>2 DEF Holders
<1>4. held' \in [Holders -> SUBSET Held]
  BY DEF ProcessEnds
<1>5. seen' \in [Provers -> 0 .. LastBatch]
  BY LastBatchAssumption DEF ProcessEnds
<1>6. /\ verifyingProof' \in BOOLEAN
      /\ timeReached' \in BOOLEAN
      /\ abandoned' \subseteq Held
      /\ config' \in Configs
  BY DEF ProcessEnds, TypeOK
<1>7. monitored' \subseteq Held
  <2>1. monitored \subseteq Held /\ InFlight \subseteq Held
    BY DEF TypeOK, InFlight, Holders
  <2>. QED  BY <2>1 DEF ProcessEnds
<1>. QED  BY <1>3, <1>4, <1>5, <1>6, <1>7

-----------------------------------------------------------------------------
(* The values of the variables. *)

LEMMA TypeInit == Init => TypeOK
<1>. SUFFICES ASSUME Init PROVE TypeOK
  OBVIOUS
<1>1. /\ pc \in [Holders -> ProverPC \cup SenderPC]
      /\ \A p \in Provers : pc[p] \in ProverPC
      /\ pc[Sender] \in SenderPC
  BY SenderAssumption DEF Init, Holders, ProverPC, SenderPC
<1>2. /\ held \in [Holders -> SUBSET Held]
      /\ seen \in [Provers -> 0 .. LastBatch]
      /\ lastVerified \in 0 .. LastBatch
      /\ faults \in 0 .. MaxFaults
  BY LastBatchAssumption, ConfigAssumption DEF Init
<1>3. /\ proofs \subseteq Rows
      /\ sequences \subseteq L1Sequences
      /\ ready \subseteq Nat
      /\ abandoned \subseteq Held
      /\ monitored \subseteq Held
  BY DEF Init
<1>4. /\ verifyingProof \in BOOLEAN
      /\ timeReached \in BOOLEAN
      /\ config \in Configs
  BY DEF Init
<1>. QED  BY <1>1, <1>2, <1>3, <1>4 DEF TypeOK

LEMMA TypeBuild ==
  ASSUME TypeOK, NEW p \in Provers, TryBuildFinalProof(p)
  PROVE  TypeOK'
<1>. USE DEF dbVars, l1Vars, flags, NoFault
<1>0. p \in Holders
  BY DEF Holders
<1>1. CASE CheckCanVerify(p)
  <2>1. \E to \in ProverPC : Goto(p, to)
    BY <1>1 DEF CheckCanVerify, ProverPC
  <2>. QED  BY <1>0, <1>1, <2>1, GotoTyped, SenderAssumption DEF CheckCanVerify, TypeOK
<1>2. CASE GetLatestVerifiedBatchNum(p)
  <2>1. \E to \in ProverPC : Goto(p, to)
    BY <1>2 DEF GetLatestVerifiedBatchNum, ProverPC
  <2>2. seen' \in [Provers -> 0 .. LastBatch]
    BY <1>2 DEF GetLatestVerifiedBatchNum, TypeOK
  <2>. QED
    BY <1>0, <1>2, <2>1, <2>2, GotoTyped, SenderAssumption
    DEF GetLatestVerifiedBatchNum, TypeOK
<1>3. CASE NothingReady(p)
  <2>1. \E to \in ProverPC : Goto(p, to)
    BY <1>3 DEF NothingReady, ProverPC
  <2>. QED
    BY <1>0, <1>3, <2>1, GotoTyped, ForgetTyped, SenderAssumption DEF NothingReady, TypeOK
<1>4. CASE LockProofReady(p)
  <2>1. PICK r \in GetProofReadyToVerify(proofs, sequences, seen[p]) :
          /\ proofs' = UpdateGeneratedProof(proofs, {Content(r)}, "recent")
          /\ \/ Goto(p, "buildStored") /\ Keep(p, {Content(r)}) /\ NoFault
             \/ Goto(p, "aggregate") /\ Keep(p, {}) /\ Fault("storage")
    BY <1>4 DEF LockProofReady
  <2>2. Content(r) \in Held
    BY ContentTyped DEF GetProofReadyToVerify, TypeOK
  <2>3. proofs' \subseteq Rows
    BY <2>1, <2>2, UpdateTyped DEF TypeOK, Since
  <2>4. held' \in [Holders -> SUBSET Held]
    BY <1>0, <2>1, <2>2, KeepTyped
  <2>5. \E to \in ProverPC : Goto(p, to)
    BY <2>1 DEF ProverPC
  <2>6. faults' \in 0 .. MaxFaults
    BY <2>1, FaultTyped DEF TypeOK
  <2>7. seen' \in [Provers -> 0 .. LastBatch]
    BY <1>4, ForgetTyped DEF LockProofReady
  <2>. QED
    BY <1>0, <1>4, <2>3, <2>4, <2>5, <2>6, <2>7, GotoTyped, SenderAssumption
    DEF LockProofReady, TypeOK
<1>5. CASE ValidateOwn(p)
  <2>1. \E to \in ProverPC : Goto(p, to)
    BY <1>5 DEF ValidateOwn, ProverPC
  <2>2. proofs' \subseteq Rows
    BY <1>5, DeleteTyped DEF ValidateOwn, TypeOK
  <2>. QED
    BY <1>0, <1>5, <2>1, <2>2, GotoTyped, ForgetTyped, SenderAssumption
    DEF ValidateOwn, TypeOK
<1>6. CASE FinalProofBuilt(p)
  <2>1. \E to \in ProverPC : Goto(p, to)
    BY <1>6 DEF FinalProofBuilt, ProverPC
  <2>. QED  BY <1>0, <1>6, <2>1, GotoTyped, SenderAssumption DEF FinalProofBuilt, TypeOK
<1>7. CASE FinalProofFails(p)
  <2>1. \E to \in ProverPC : Goto(p, to)
    BY <1>7 DEF FinalProofFails, ProverPC
  <2>2. held[p] \in SUBSET Held
    BY <1>0 DEF TypeOK
  <2>3. proofs' \subseteq Rows
    BY <1>7, <2>2, ReleaseTyped DEF FinalProofFails, TypeOK
  <2>4. held' \in [Holders -> SUBSET Held]
    BY <1>0, <1>7, KeepTyped DEF FinalProofFails, TypeOK
  <2>5. faults' \in 0 .. MaxFaults
    BY <1>7, FaultTyped DEF FinalProofFails
  <2>. QED
    BY <1>0, <1>7, <2>1, <2>3, <2>4, <2>5, GotoTyped, SenderAssumption
    DEF FinalProofFails, TypeOK
<1>8. CASE HandOver(p)
  <2>1. PICK to \in {"aggregate", "idle"} :
          pc' = [pc EXCEPT ![Sender] = "received", ![p] = to]
    BY <1>8 DEF HandOver
  <2>2. "aggregate" \in ProverPC /\ "idle" \in ProverPC /\ "received" \in SenderPC
    BY DEF ProverPC, SenderPC
  <2>3. /\ pc' \in [Holders -> ProverPC \cup SenderPC]
        /\ \A q \in Provers : pc'[q] \in ProverPC
        /\ pc'[Sender] \in SenderPC
    BY <2>1, <2>2, SenderAssumption DEF Holders, TypeOK
  <2>4. held' \in [Holders -> SUBSET Held]
    BY <1>0, <1>8 DEF HandOver, TypeOK
  <2>. QED  BY <1>8, <2>3, <2>4 DEF HandOver, TypeOK
<1>9. CASE UnlockOwn(p)
  <2>1. \E to \in ProverPC : Goto(p, to)
    BY <1>9 DEF UnlockOwn, ProverPC
  <2>2. held[p] \in SUBSET Held
    BY <1>0 DEF TypeOK
  <2>3. proofs' \subseteq Rows
    <3>1. proofs \in SUBSET Rows /\ "null" \in Since
      BY DEF TypeOK, Since
    <3>2. UpdateGeneratedProof(proofs, held[p], "null") \subseteq Rows
      BY <2>2, <3>1, UpdateTyped
    <3>. QED  BY <1>9, <3>1, <3>2 DEF UnlockOwn
  <2>4. held' \in [Holders -> SUBSET Held]
    BY <1>0, <1>9, KeepTyped DEF UnlockOwn
  <2>5. faults' \in 0 .. MaxFaults
    BY <1>9, FaultTyped DEF UnlockOwn, TypeOK
  <2>. QED
    BY <1>0, <1>9, <2>1, <2>3, <2>4, <2>5, GotoTyped, SenderAssumption
    DEF UnlockOwn, TypeOK
<1>. QED
  BY <1>1, <1>2, <1>3, <1>4, <1>5, <1>6, <1>7, <1>8, <1>9 DEF TryBuildFinalProof

LEMMA TypeAggregate ==
  ASSUME TypeOK, NEW p \in Provers, TryAggregateProofs(p)
  PROVE  TypeOK'
<1>. USE DEF dbVars, l1Vars, flags, NoFault
<1>0. p \in Holders /\ held[p] \in SUBSET Held /\ proofs \in SUBSET Rows
  BY DEF Holders, TypeOK
<1>1. CASE NothingToAggregate(p)
  <2>1. \E to \in ProverPC : Goto(p, to)
    BY <1>1 DEF NothingToAggregate, ProverPC
  <2>. QED  BY <1>0, <1>1, <2>1, GotoTyped, SenderAssumption DEF NothingToAggregate, TypeOK
<1>2. CASE LockProofsToAggregate(p)
  <2>1. PICK c \in GetProofsToAggregate(proofs, sequences) :
          LET pair == {Content(c[1]), Content(c[2])} IN
          /\ proofs' = UpdateGeneratedProof(proofs, pair, "recent")
          /\ \/ Goto(p, "aggregating") /\ Keep(p, pair) /\ NoFault
             \/ Goto(p, "batch") /\ Keep(p, {}) /\ Fault("storage")
    BY <1>2 DEF LockProofsToAggregate
  <2>2. c \in proofs \X proofs
    BY DEF GetProofsToAggregate, Aggregatable
  <2>3. {Content(c[1]), Content(c[2])} \in SUBSET Held
    BY <1>0, <2>2, ContentTyped
  <2>4. proofs' \subseteq Rows
    BY <1>0, <2>1, <2>3, UpdateTyped DEF Since
  <2>5. held' \in [Holders -> SUBSET Held]
    BY <1>0, <2>1, <2>3, KeepTyped
  <2>6. \E to \in ProverPC : Goto(p, to)
    BY <2>1 DEF ProverPC
  <2>7. faults' \in 0 .. MaxFaults
    BY <2>1, FaultTyped DEF TypeOK
  <2>. QED
    BY <1>0, <1>2, <2>4, <2>5, <2>6, <2>7, GotoTyped, SenderAssumption
    DEF LockProofsToAggregate, TypeOK
<1>3. CASE AggregationDone(p)
  <2>1. PICK x, y \in held[p] :
          LET c == Aggregated(x, y) IN
          /\ Adjacent(x, y)
          /\ \/ /\ proofs' = ReplaceByAggregated(proofs, c)
                /\ Keep(p, {c})
                /\ Goto(p, "own")
                /\ NoFault
             \/ /\ Fault("storage")
                /\ proofs' = UpdateGeneratedProof(ReplaceByAggregated(proofs, c),
                                                  held[p], "null")
                /\ Keep(p, {})
                /\ Goto(p, "batch")
    BY <1>3 DEF AggregationDone
  <2>. DEFINE c == Aggregated(x, y)
  <2>2. c \in Held
    BY <1>0, <2>1, AggregatedTyped
  <2>3. ReplaceByAggregated(proofs, c) \in SUBSET Rows
    BY <1>0, <2>2, DeleteTyped, AddTyped DEF ReplaceByAggregated
  <2>4. UpdateGeneratedProof(ReplaceByAggregated(proofs, c), held[p], "null") \subseteq Rows
    BY <1>0, <2>3, UpdateTyped DEF Since
  <2>5. proofs' \subseteq Rows
    BY <2>1, <2>3, <2>4
  <2>6. held' \in [Holders -> SUBSET Held]
    BY <1>0, <2>1, <2>2, KeepTyped
  <2>7. \E to \in ProverPC : Goto(p, to)
    BY <2>1 DEF ProverPC
  <2>8. faults' \in 0 .. MaxFaults
    BY <2>1, FaultTyped DEF TypeOK
  <2>. QED
    BY <1>0, <1>3, <2>5, <2>6, <2>7, <2>8, GotoTyped, SenderAssumption
    DEF AggregationDone, TypeOK
<1>4. CASE AggregationFails(p)
  <2>1. \E to \in ProverPC : Goto(p, to)
    BY <1>4 DEF AggregationFails, ProverPC
  <2>2. proofs' \subseteq Rows
    BY <1>0, <1>4, ReleaseTyped DEF AggregationFails
  <2>3. held' \in [Holders -> SUBSET Held]
    BY <1>0, <1>4, KeepTyped DEF AggregationFails
  <2>4. faults' \in 0 .. MaxFaults
    BY <1>4, FaultTyped DEF AggregationFails
  <2>. QED
    BY <1>0, <1>4, <2>1, <2>2, <2>3, <2>4, GotoTyped, SenderAssumption
    DEF AggregationFails, TypeOK
<1>. QED  BY <1>1, <1>2, <1>3, <1>4 DEF TryAggregateProofs

LEMMA TypeGenerate ==
  ASSUME TypeOK, NEW p \in Provers, TryGenerateBatchProof(p)
  PROVE  TypeOK'
<1>. USE DEF dbVars, l1Vars, flags, NoFault
<1>0. p \in Holders /\ held[p] \in SUBSET Held /\ proofs \in SUBSET Rows
  BY DEF Holders, TypeOK
<1>1. CASE NothingToProve(p)
  <2>1. \E to \in ProverPC : Goto(p, to)
    BY <1>1 DEF NothingToProve, ProverPC
  <2>. QED
    BY <1>0, <1>1, <2>1, GotoTyped, ForgetTyped, SenderAssumption DEF NothingToProve, TypeOK
<1>2. CASE LockBatchToProve(p)
  <2>1. PICK b \in ready \cap Batches, s \in L1Sequences :
          /\ sequences' = AddSequence(sequences, s)
          /\ \/ /\ proofs' = AddGeneratedProof(proofs, Proof(b, b, FALSE))
                /\ Keep(p, {Proof(b, b, FALSE)})
                /\ Goto(p, "proving")
                /\ NoFault
             \/ /\ proofs' \in {proofs, AddGeneratedProof(proofs, Proof(b, b, FALSE))}
                /\ Keep(p, {})
                /\ Goto(p, "idle")
                /\ Fault("storage")
    BY <1>2 DEF LockBatchToProve
  <2>2. Proof(b, b, FALSE) \in Held
    BY LastBatchAssumption DEF Proof, Held, Batches
  <2>3. AddGeneratedProof(proofs, Proof(b, b, FALSE)) \subseteq Rows
    BY <1>0, <2>2, AddTyped
  <2>4. proofs' \subseteq Rows
    BY <1>0, <2>1, <2>3
  <2>5. held' \in [Holders -> SUBSET Held]
    BY <1>0, <2>1, <2>2, KeepTyped
  <2>6. \E to \in ProverPC : Goto(p, to)
    BY <2>1 DEF ProverPC
  <2>7. faults' \in 0 .. MaxFaults
    BY <2>1, FaultTyped DEF TypeOK
  <2>8. sequences' \subseteq L1Sequences
    BY <2>1, AddSequenceTyped DEF TypeOK
  <2>9. seen' \in [Provers -> 0 .. LastBatch]
    BY <1>2, ForgetTyped DEF LockBatchToProve
  <2>. QED
    BY <1>0, <1>2, <2>4, <2>5, <2>6, <2>7, <2>8, <2>9, GotoTyped, SenderAssumption
    DEF LockBatchToProve, TypeOK
<1>3. CASE UnprofitableBatch(p)
  <2>1. PICK s \in L1Sequences : sequences' = AddSequence(sequences, s)
    BY <1>3 DEF UnprofitableBatch
  <2>2. sequences' \subseteq L1Sequences
    BY <2>1, AddSequenceTyped DEF TypeOK
  <2>3. Submitted \in SUBSET Held /\ ProcessEnds(Submitted)
    BY <1>3, SubmittedTyped DEF UnprofitableBatch
  <2>. QED
    BY <1>3, <2>2, <2>3, ProcessEndsTyped DEF UnprofitableBatch, TypeOK
<1>4. CASE BatchProofDone(p)
  <2>1. PICK c \in held[p] : Keep(p, {Proof(c.from, c.to, TRUE)})
    BY <1>4 DEF BatchProofDone
  <2>2. Proof(c.from, c.to, TRUE) \in Held
    BY <1>0 DEF Proof, Held
  <2>3. held' \in [Holders -> SUBSET Held]
    BY <1>0, <2>1, <2>2, KeepTyped
  <2>4. \E to \in ProverPC : Goto(p, to)
    BY <1>4 DEF BatchProofDone, ProverPC
  <2>. QED
    BY <1>0, <1>4, <2>3, <2>4, GotoTyped, SenderAssumption DEF BatchProofDone, TypeOK
<1>5. CASE BatchProofWrongRoot(p)
  <2>1. \E to \in ProverPC : Goto(p, to)
    BY <1>5 DEF BatchProofWrongRoot, ProverPC
  <2>2. held' \in [Holders -> SUBSET Held]
    BY <1>0, <1>5, KeepTyped DEF BatchProofWrongRoot
  <2>. QED
    BY <1>0, <1>5, <2>1, <2>2, GotoTyped, SenderAssumption DEF BatchProofWrongRoot, TypeOK
<1>6. CASE BatchProofFails(p)
  <2>1. \E to \in ProverPC : Goto(p, to)
    BY <1>6 DEF BatchProofFails, ProverPC
  <2>2. proofs' \subseteq Rows
    BY <1>0, <1>6, DeleteTyped DEF BatchProofFails
  <2>3. held' \in [Holders -> SUBSET Held]
    BY <1>0, <1>6, KeepTyped DEF BatchProofFails
  <2>4. faults' \in 0 .. MaxFaults
    BY <1>6, FaultTyped DEF BatchProofFails
  <2>. QED
    BY <1>0, <1>6, <2>1, <2>2, <2>3, <2>4, GotoTyped, SenderAssumption
    DEF BatchProofFails, TypeOK
<1>. QED
  BY <1>1, <1>2, <1>3, <1>4, <1>5, <1>6 DEF TryGenerateBatchProof

LEMMA TypeReadFails ==
  ASSUME TypeOK, NEW p \in Provers, ReadFails(p)
  PROVE  TypeOK'
<1>. USE DEF dbVars, l1Vars, flags
<1>1. \E to \in ProverPC : Goto(p, to)
  BY DEF ReadFails, ProverPC
<1>2. faults' \in 0 .. MaxFaults
  BY FaultTyped DEF ReadFails
<1>3. seen' \in [Provers -> 0 .. LastBatch]
  BY ForgetTyped DEF ReadFails
<1>. QED
  BY <1>1, <1>2, <1>3, GotoTyped, SenderAssumption DEF ReadFails, TypeOK, Holders

LEMMA FailureTyped ==
  ASSUME TypeOK, HandleSettlementFailure,
         abandoned' \in SUBSET Held, monitored' \in SUBSET Held,
         faults' \in 0 .. MaxFaults
  PROVE  TypeOK'
<1>1. Sender \in Holders /\ held[Sender] \in SUBSET Held /\ proofs \in SUBSET Rows
  BY DEF TypeOK, Holders
<1>2. proofs' \subseteq Rows
  BY <1>1, ReleaseTyped DEF HandleSettlementFailure
<1>3. held' \in [Holders -> SUBSET Held]
  BY <1>1, KeepTyped DEF HandleSettlementFailure
<1>4. "wait" \in SenderPC /\ Goto(Sender, "wait")
  BY DEF HandleSettlementFailure, SenderPC
<1>. QED
  BY <1>1, <1>2, <1>3, <1>4, GotoTyped, SenderAssumption
  DEF HandleSettlementFailure, TypeOK

LEMMA TypeSend ==
  ASSUME TypeOK, SendFinalProof
  PROVE  TypeOK'
<1>. USE DEF dbVars, l1Vars, flags, NoFault
<1>0. Sender \in Holders
  BY DEF Holders
<1>1. CASE StartVerification
  <2>1. "started" \in SenderPC /\ Goto(Sender, "started")
    BY <1>1 DEF StartVerification, SenderPC
  <2>. QED
    BY <1>0, <1>1, <2>1, GotoTyped, SenderAssumption DEF StartVerification, TypeOK
<1>2. CASE GetBatchFails
  <2>1. "wait" \in SenderPC /\ Goto(Sender, "wait")
    BY <1>2 DEF GetBatchFails, SenderPC
  <2>2. held' \in [Holders -> SUBSET Held]
    BY <1>0, <1>2, KeepTyped DEF GetBatchFails
  <2>3. faults' \in 0 .. MaxFaults
    BY <1>2, FaultTyped DEF GetBatchFails
  <2>. QED
    BY <1>0, <1>2, <2>1, <2>2, <2>3, GotoTyped, SenderAssumption DEF GetBatchFails, TypeOK
<1>3. CASE Submit
  <2>1. "settling" \in SenderPC /\ Goto(Sender, "settling")
    BY <1>3 DEF Submit, SenderPC
  <2>. QED  BY <1>0, <1>3, <2>1, GotoTyped, SenderAssumption DEF Submit, TypeOK
<1>4. CASE SubmitFails
  <2>1. faults' \in 0 .. MaxFaults
    BY <1>4, FaultTyped DEF SubmitFails
  <2>. QED  BY <1>4, <2>1, FailureTyped DEF SubmitFails, TypeOK
<1>5. CASE EndVerification
  <2>1. "wait" \in SenderPC /\ Goto(Sender, "wait")
    BY <1>5 DEF EndVerification, SenderPC
  <2>2. held' \in [Holders -> SUBSET Held]
    BY <1>0, <1>5, KeepTyped DEF EndVerification
  <2>. QED
    BY <1>0, <1>5, <2>1, <2>2, GotoTyped, SenderAssumption DEF EndVerification, TypeOK
<1>6. CASE SettlementTimeout
  <2>1. faults' \in 0 .. MaxFaults
    BY <1>6, FaultTyped DEF SettlementTimeout
  <2>. QED
    BY <1>6, <2>1, FailureTyped, SubmittedTyped DEF SettlementTimeout, TypeOK
<1>. QED
  BY <1>1, <1>2, <1>3, <1>4, <1>5, <1>6 DEF SendFinalProof

LEMMA TypeL1 ==
  ASSUME TypeOK, Settlement \/ Environment
  PROVE  TypeOK'
<1>. USE DEF dbVars, l1Vars, flags, NoFault
<1>0. /\ Sender \in Holders /\ held[Sender] \in SUBSET Held /\ abandoned \in SUBSET Held
      /\ \A c \in Held : c.to \in 0 .. LastBatch
  BY LastBatchAssumption DEF Holders, TypeOK, Held, Batches
<1>1. CASE SettlementMined
  <2>1. "mined" \in SenderPC /\ Goto(Sender, "mined")
    BY <1>1 DEF SettlementMined, SenderPC
  <2>. QED
    BY <1>0, <1>1, <2>1, GotoTyped, SenderAssumption DEF SettlementMined, TypeOK
<1>2. CASE NotMinedByAggLayer
  BY <1>0, <1>2, FailureTyped DEF NotMinedByAggLayer, TypeOK
<1>3. CASE SettlementReverted
  <2>. DEFINE T == IF config.stored THEN Submitted ELSE abandoned
  <2>1. ProcessEnds(T) /\ T \in SUBSET Held
    BY <1>0, <1>3, SubmittedTyped DEF SettlementReverted
  <2>2. UNCHANGED <<proofs, sequences, ready, lastVerified, faults>>
    BY <1>3 DEF SettlementReverted
  <2>. QED  BY <2>1, <2>2, ProcessEndsTyped DEF TypeOK
<1>4. CASE AbandonedReverted
  BY <1>4, SubmittedTyped, ProcessEndsTyped DEF AbandonedReverted, TypeOK
<1>6. ASSUME NEW c \in Held, AbandonedMined(c)
      PROVE  TypeOK'
  BY <1>0, <1>6 DEF AbandonedMined, TypeOK
<1>5. CASE AbandonedDropped
  BY <1>5 DEF AbandonedDropped, TypeOK
<1>. QED
  BY <1>1, <1>2, <1>3, <1>4, <1>5, <1>6 DEF Settlement, Environment

LEMMA TypeLife ==
  ASSUME TypeOK,
         \/ BatchReady \/ VerifyTimeReached \/ LocksGetOld \/ CleanupLocked
         \/ Crash \/ Restart
  PROVE  TypeOK'
<1>. USE DEF dbVars, l1Vars, flags, NoFault
<1>1. CASE BatchReady
  BY <1>1 DEF BatchReady, TypeOK, Batches
<1>2. CASE VerifyTimeReached
  BY <1>2 DEF VerifyTimeReached, TypeOK
<1>3. CASE LocksGetOld
  <2>1. \A r \in Rows : [r EXCEPT !.since = "old"] \in Rows
    BY DEF Rows, Since
  <2>2. proofs' \subseteq Rows
    BY <1>3, <2>1 DEF LocksGetOld, TypeOK
  <2>. QED  BY <1>3, <2>2 DEF LocksGetOld, TypeOK
<1>4. CASE CleanupLocked
  BY <1>4 DEF CleanupLocked, CleanupLockedProofs, TypeOK
<1>5. CASE Crash
  <2>1. Submitted \in SUBSET Held /\ faults' \in 0 .. MaxFaults
    BY <1>5, SubmittedTyped, FaultTyped DEF Crash
  <2>. QED  BY <1>5, <2>1, ProcessEndsTyped DEF Crash, TypeOK
<1>6. CASE Restart
  <2>1. /\ proofs' \subseteq Rows
        /\ sequences' \subseteq L1Sequences
    BY <1>6 DEF Restart, TypeOK, DeleteUngeneratedProofs, DeleteBatchesOlderThanBatchNumber
  <2>2. ready' \subseteq Nat
    <3>1. lastVerified \in Nat /\ ready \subseteq Nat
      BY LastBatchAssumption DEF TypeOK
    <3>2. ready' = {b \in ready : b >= lastVerified} \cup {lastVerified}
      BY <1>6 DEF Restart
    <3>. QED  BY <3>1, <3>2
  <2>3. "wait" \in SenderPC /\ "idle" \in ProverPC
    BY DEF SenderPC, ProverPC
  <2>4. /\ pc' \in [Holders -> ProverPC \cup SenderPC]
        /\ \A p \in Provers : pc'[p] \in ProverPC
        /\ pc'[Sender] \in SenderPC
    BY <1>6, <2>3, SenderAssumption DEF Restart, Holders
  <2>. QED  BY <1>6, <2>1, <2>2, <2>4 DEF Restart, TypeOK
<1>. QED
  BY <1>1, <1>2, <1>3, <1>4, <1>5, <1>6

LEMMA TypeStep == TypeOK /\ [Next]_vars => TypeOK'
<1>. SUFFICES ASSUME TypeOK, [Next]_vars PROVE TypeOK'
  OBVIOUS
<1>1. CASE UNCHANGED vars
  BY <1>1 DEF vars, TypeOK
<1>2. ASSUME NEW p \in Provers, Channel(p) PROVE TypeOK'
  BY <1>2, TypeBuild, TypeAggregate, TypeGenerate, TypeReadFails DEF Channel
<1>. QED
  BY <1>1, <1>2, TypeSend, TypeL1, TypeLife DEF Next

(* Every variable keeps to its values, and no proof, aggregated or not, is ever
   for an empty range of batches. *)
THEOREM TypeCorrect == Spec => []TypeOK
<1>1. TypeOK /\ [Next]_vars => TypeOK'
  BY TypeStep
<1>. QED  BY TypeInit, <1>1, PTL DEF Spec

-----------------------------------------------------------------------------
(* Whose state a step changes. *)

(* Nobody but h moves, or gains or loses proofs in memory. *)
Alone(h) == \A g \in Holders : g # h => pc'[g] = pc[g] /\ held'[g] = held[g]

LEMMA AloneByExcept ==
  ASSUME TypeOK, NEW h \in Holders,
         \E to : pc' = [pc EXCEPT ![h] = to],
         held' = held \/ \E C : held' = [held EXCEPT ![h] = C]
  PROVE  Alone(h)
  BY DEF TypeOK, Alone

LEMMA ProverAlone ==
  ASSUME TypeOK, NEW p \in Provers, Channel(p)
  PROVE  HandOver(p) \/ UnprofitableBatch(p) \/ Alone(p)
<1>. USE DEF Goto, Keep
<1>0. p \in Holders
  BY DEF Holders
<1>1. CASE \/ CheckCanVerify(p) \/ GetLatestVerifiedBatchNum(p) \/ NothingReady(p)
           \/ ValidateOwn(p) \/ FinalProofBuilt(p) \/ NothingToAggregate(p)
           \/ NothingToProve(p) \/ ReadFails(p)
  <2>1. held' = held
    BY <1>1 DEF CheckCanVerify, GetLatestVerifiedBatchNum, NothingReady, ValidateOwn,
                FinalProofBuilt, NothingToAggregate, NothingToProve, ReadFails
  <2>2. \E to : pc' = [pc EXCEPT ![p] = to]
    BY <1>1 DEF CheckCanVerify, GetLatestVerifiedBatchNum, NothingReady, ValidateOwn,
                FinalProofBuilt, NothingToAggregate, NothingToProve, ReadFails
  <2>. QED  BY <1>0, <2>1, <2>2, AloneByExcept
<1>2. CASE \/ LockProofReady(p) \/ FinalProofFails(p) \/ UnlockOwn(p)
           \/ LockProofsToAggregate(p) \/ AggregationDone(p) \/ AggregationFails(p)
  <2>1. held' = held \/ \E C : held' = [held EXCEPT ![p] = C]
    BY <1>2 DEF LockProofReady, FinalProofFails, UnlockOwn, LockProofsToAggregate,
                AggregationDone, AggregationFails
  <2>2. \E to : pc' = [pc EXCEPT ![p] = to]
    BY <1>2 DEF LockProofReady, FinalProofFails, UnlockOwn, LockProofsToAggregate,
                AggregationDone, AggregationFails
  <2>. QED  BY <1>0, <2>1, <2>2, AloneByExcept
<1>3. CASE \/ LockBatchToProve(p) \/ BatchProofDone(p) \/ BatchProofWrongRoot(p)
           \/ BatchProofFails(p)
  <2>1. \E C : held' = [held EXCEPT ![p] = C]
    BY <1>3 DEF LockBatchToProve, BatchProofDone, BatchProofWrongRoot, BatchProofFails
  <2>2. \E to : pc' = [pc EXCEPT ![p] = to]
    BY <1>3 DEF LockBatchToProve, BatchProofDone, BatchProofWrongRoot, BatchProofFails
  <2>. QED  BY <1>0, <2>1, <2>2, AloneByExcept
<1>. QED
  BY <1>1, <1>2, <1>3
  DEF Channel, TryBuildFinalProof, TryAggregateProofs, TryGenerateBatchProof

-----------------------------------------------------------------------------
(* While the process is down nothing is in memory. *)

DownTogether ==
  pc[Sender] = "down" => \A h \in Holders : pc[h] = "down" /\ held[h] = {}

(* A step of a prover either ends the process or finds it running. *)
LEMMA DownProver ==
  ASSUME TypeOK, DownTogether, NEW p \in Provers, Channel(p)
  PROVE  DownTogether'
<1>0. p \in Holders /\ Sender \in Holders /\ p # Sender
  BY SenderAssumption DEF Holders
<1>1. CASE UnprofitableBatch(p)
  BY <1>1 DEF UnprofitableBatch, ProcessEnds, DownTogether
<1>2. CASE TryBuildFinalProof(p)
  <2>1. pc[p] # "down"
    BY <1>2 DEF TryBuildFinalProof, CheckCanVerify, GetLatestVerifiedBatchNum,
                NothingReady, LockProofReady, ValidateOwn, FinalProofBuilt,
                FinalProofFails, HandOver, UnlockOwn
  <2>2. pc'[Sender] = pc[Sender] \/ pc'[Sender] = "received"
    BY <1>0, <1>2
    DEF TryBuildFinalProof, CheckCanVerify, GetLatestVerifiedBatchNum,
        NothingReady, LockProofReady, ValidateOwn, FinalProofBuilt,
        FinalProofFails, HandOver, UnlockOwn, Goto, TypeOK
  <2>. QED  BY <1>0, <2>1, <2>2 DEF DownTogether
<1>3. CASE \/ TryAggregateProofs(p) \/ NothingToProve(p) \/ LockBatchToProve(p)
           \/ BatchProofDone(p) \/ BatchProofWrongRoot(p) \/ BatchProofFails(p)
           \/ ReadFails(p)
  <2>1. pc[p] # "down"
    BY <1>3 DEF TryAggregateProofs, NothingToAggregate, LockProofsToAggregate,
                AggregationDone, AggregationFails, NothingToProve, LockBatchToProve,
                BatchProofDone, BatchProofWrongRoot, BatchProofFails, ReadFails
  <2>2. \E to \in ProverPC : Goto(p, to)
    BY <1>3 DEF TryAggregateProofs, NothingToAggregate, LockProofsToAggregate,
                AggregationDone, AggregationFails, NothingToProve, LockBatchToProve,
                BatchProofDone, BatchProofWrongRoot, BatchProofFails, ReadFails, ProverPC
  <2>3. pc'[Sender] = pc[Sender]
    BY <1>0, <2>2 DEF Goto, TypeOK
  <2>. QED  BY <1>0, <2>1, <2>3 DEF DownTogether
<1>. QED  BY <1>1, <1>2, <1>3 DEF Channel, TryGenerateBatchProof

LEMMA DownOther ==
  ASSUME TypeOK, DownTogether,
         \/ SendFinalProof \/ Settlement \/ Environment \/ BatchReady
         \/ VerifyTimeReached \/ LocksGetOld \/ CleanupLocked \/ Crash \/ Restart
  PROVE  DownTogether'
<1>0. Sender \in Holders
  BY DEF Holders
<1>1. CASE UNCHANGED <<pc, held>>
  BY <1>1 DEF DownTogether
<1>2. CASE \E T : ProcessEnds(T)
  BY <1>2 DEF ProcessEnds, DownTogether
<1>3. CASE SendFinalProof \/ SettlementMined \/ HandleSettlementFailure \/ Restart
  <2>1. pc'[Sender] # "down"
    BY <1>0, <1>3
    DEF SendFinalProof, StartVerification, GetBatchFails, Submit, SubmitFails,
        EndVerification, SettlementTimeout, SettlementMined, HandleSettlementFailure,
        Restart, Goto, TypeOK
  <2>. QED  BY <2>1 DEF DownTogether
<1>. QED
  BY <1>1, <1>2, <1>3
  DEF Settlement, NotMinedByAggLayer, SettlementReverted, AbandonedReverted, Environment,
      AbandonedMined, AbandonedDropped, BatchReady, VerifyTimeReached, LocksGetOld,
      CleanupLocked, Crash

(* The goroutines end and start together, and the process forgets its proofs. *)
LEMMA EndsTogether == Spec => []DownTogether
<1>1. Init => DownTogether
  BY DEF Init, DownTogether, Holders
<1>2. TypeOK /\ DownTogether /\ [Next]_vars => DownTogether'
  <2>. SUFFICES ASSUME TypeOK, DownTogether, [Next]_vars PROVE DownTogether'
    OBVIOUS
  <2>1. CASE UNCHANGED vars
    BY <2>1 DEF vars, DownTogether
  <2>. QED  BY <2>1, DownProver, DownOther DEF Next
<1>. QED  BY TypeCorrect, <1>1, <1>2, PTL DEF Spec

-----------------------------------------------------------------------------
(* A holder works on one proof, or aggregates a pair of distinct ones. *)

ClaimsApart ==
  \A h \in Holders : \A c, d \in held[h] :
    c = d \/ (pc[h] = "aggregating" /\ Disjoint(c, d))

LEMMA ApartProver ==
  ASSUME TypeOK, ClaimsApart, NEW p \in Provers, Channel(p)
  PROVE  ClaimsApart'
<1>. USE DEF Goto, Keep
<1>0. /\ p \in Holders /\ Sender \in Holders /\ p # Sender
      /\ \A c, d \in held[p] : c = d \/ (pc[p] = "aggregating" /\ Disjoint(c, d))
  BY SenderAssumption DEF Holders, ClaimsApart
<1>1. CASE HandOver(p)
  <2>1. pc[p] # "aggregating" /\ held'[p] = {} /\ held'[Sender] = held[p]
    BY <1>0, <1>1 DEF HandOver, TypeOK
  <2>2. \A g \in Holders : g # p /\ g # Sender => pc'[g] = pc[g] /\ held'[g] = held[g]
    BY <1>1 DEF HandOver, TypeOK
  <2>. QED  BY <1>0, <2>1, <2>2 DEF ClaimsApart
<1>2. CASE UnprofitableBatch(p)
  BY <1>2 DEF UnprofitableBatch, ProcessEnds, ClaimsApart
<1>. SUFFICES ASSUME Alone(p)
              PROVE  \A c, d \in held'[p] :
                       c = d \/ (pc'[p] = "aggregating" /\ Disjoint(c, d))
  BY <1>1, <1>2, ProverAlone DEF ClaimsApart, Alone
<1>3. CASE held'[p] = {} \/ (held'[p] = held[p] /\ pc[p] # "aggregating")
  BY <1>0, <1>3
<1>4. CASE \E c : held' = [held EXCEPT ![p] = {c}]
  BY <1>0, <1>4 DEF TypeOK
<1>5. CASE LockProofsToAggregate(p)
  <2>1. PICK c \in GetProofsToAggregate(proofs, sequences) :
          LET pair == {Content(c[1]), Content(c[2])} IN
          \/ pc' = [pc EXCEPT ![p] = "aggregating"] /\ held' = [held EXCEPT ![p] = pair]
          \/ held' = [held EXCEPT ![p] = {}]
    BY <1>5 DEF LockProofsToAggregate
  <2>2. c \in proofs \X proofs /\ Adjacent(c[1], c[2])
    BY DEF GetProofsToAggregate, Aggregatable
  <2>3. Disjoint(Content(c[1]), Content(c[2])) /\ Disjoint(Content(c[2]), Content(c[1]))
    BY <2>2, LastBatchAssumption
    DEF Adjacent, Disjoint, Content, Proof, TypeOK, Rows, Batches
  <2>. QED  BY <1>0, <2>1, <2>3 DEF TypeOK
<1>6. CASE \/ CheckCanVerify(p) \/ GetLatestVerifiedBatchNum(p) \/ NothingReady(p)
           \/ ValidateOwn(p) \/ FinalProofBuilt(p) \/ FinalProofFails(p)
           \/ NothingToAggregate(p) \/ NothingToProve(p) \/ ReadFails(p)
  <2>1. pc[p] # "aggregating" /\ (held' = held \/ held' = [held EXCEPT ![p] = {}])
    BY <1>6 DEF CheckCanVerify, GetLatestVerifiedBatchNum, NothingReady, ValidateOwn,
                FinalProofBuilt, FinalProofFails, NothingToAggregate, NothingToProve,
                ReadFails
  <2>. QED  BY <1>0, <1>3, <2>1 DEF TypeOK
<1>7. CASE \/ LockProofReady(p) \/ UnlockOwn(p) \/ AggregationDone(p)
           \/ AggregationFails(p) \/ LockBatchToProve(p) \/ BatchProofDone(p)
           \/ BatchProofWrongRoot(p) \/ BatchProofFails(p)
  <2>1. \/ \E c : held' = [held EXCEPT ![p] = {c}]
        \/ held' = [held EXCEPT ![p] = {}]
    BY <1>7 DEF LockProofReady, UnlockOwn, AggregationDone, AggregationFails,
                LockBatchToProve, BatchProofDone, BatchProofWrongRoot, BatchProofFails
  <2>. QED  BY <1>0, <1>3, <1>4, <2>1 DEF TypeOK
<1>. QED
  BY <1>0, <1>1, <1>2, <1>5, <1>6, <1>7
  DEF ClaimsApart, Channel, TryBuildFinalProof, TryAggregateProofs, TryGenerateBatchProof

LEMMA ApartOther ==
  ASSUME TypeOK, ClaimsApart, DownTogether,
         \/ SendFinalProof \/ Settlement \/ Environment \/ BatchReady
         \/ VerifyTimeReached \/ LocksGetOld \/ CleanupLocked \/ Crash \/ Restart
  PROVE  ClaimsApart'
<1>0. Sender \in Holders /\ pc[Sender] # "aggregating"
  BY DEF Holders, TypeOK, SenderPC
<1>1. CASE UNCHANGED <<pc, held>>
  BY <1>1 DEF ClaimsApart
<1>2. CASE \E T : ProcessEnds(T)
  BY <1>2 DEF ProcessEnds, ClaimsApart
<1>3. CASE SendFinalProof \/ SettlementMined \/ HandleSettlementFailure
  <2>1. /\ \E to : pc' = [pc EXCEPT ![Sender] = to]
        /\ held' = held \/ held' = [held EXCEPT ![Sender] = {}]
    BY <1>3
    DEF SendFinalProof, StartVerification, GetBatchFails, Submit, SubmitFails,
        EndVerification, SettlementTimeout, SettlementMined, HandleSettlementFailure,
        Goto, Keep
  <2>. QED  BY <1>0, <2>1 DEF ClaimsApart, TypeOK
<1>4. CASE Restart
  BY <1>4 DEF Restart, DownTogether, ClaimsApart
<1>. QED
  BY <1>1, <1>2, <1>3, <1>4
  DEF Settlement, NotMinedByAggLayer, SettlementReverted, AbandonedReverted, Environment,
      AbandonedMined, AbandonedDropped, BatchReady, VerifyTimeReached, LocksGetOld,
      CleanupLocked, Crash

(* Only tryAggregateProofs works on two proofs, and these have no batch in common. *)
THEOREM ClaimsStayApart == Spec => []ClaimsApart
<1>1. Init => ClaimsApart
  BY DEF Init, ClaimsApart
<1>2. TypeOK /\ DownTogether /\ ClaimsApart /\ [Next]_vars => ClaimsApart'
  <2>. SUFFICES ASSUME TypeOK, DownTogether, ClaimsApart, [Next]_vars PROVE ClaimsApart'
    OBVIOUS
  <2>1. CASE UNCHANGED vars
    BY <2>1 DEF vars, ClaimsApart
  <2>. QED  BY <2>1, ApartProver, ApartOther DEF Next
<1>. QED  BY TypeCorrect, EndsTogether, <1>1, <1>2, PTL DEF Spec

-----------------------------------------------------------------------------
(* Only generated proofs are used, whatever fails: a row is unlocked by the
   holder of its proof only, and a claim for which no proof was generated is
   never unlocked.  Inductive as it stands, given the types. *)

LEMMA UpdateGenerated ==
  ASSUME NEW P, NEW C, NEW since,
         \A r \in P : r.since = "null" => r.made,
         since = "null" => \A c \in C : c.made
  PROVE  \A r \in UpdateGeneratedProof(P, C, since) : r.since = "null" => r.made
  BY DEF UpdateGeneratedProof, Row

LEMMA AddGenerated ==
  ASSUME NEW P, NEW c, \A r \in P : r.since = "null" => r.made
  PROVE  \A r \in AddGeneratedProof(P, c) : r.since = "null" => r.made
  BY DEF AddGeneratedProof, Row

LEMMA GeneratedInit == Init => OnlyGeneratedProofsUsed
  BY DEF Init, OnlyGeneratedProofsUsed

LEMMA GeneratedProver ==
  ASSUME TypeOK, OnlyGeneratedProofsUsed, NEW p \in Provers, Channel(p)
  PROVE  OnlyGeneratedProofsUsed'
<1>. USE DEF dbVars, Goto, Keep
<1>0. /\ p \in Holders /\ Sender \in Holders /\ p # Sender
      /\ pc[Sender] # "proving"
      /\ \A r \in proofs : r.since = "null" => r.made
      /\ pc[p] # "proving" => \A c \in held[p] : c.made
  BY SenderAssumption DEF Holders, TypeOK, SenderPC, OnlyGeneratedProofsUsed
<1>1. CASE HandOver(p)
  <2>1. /\ proofs' = proofs
        /\ held' = [held EXCEPT ![Sender] = held[p], ![p] = {}]
        /\ pc[p] # "proving"
    BY <1>1 DEF HandOver
  <2>2. \A g \in Holders : g # p /\ g # Sender => pc'[g] = pc[g] /\ held'[g] = held[g]
    BY <1>1, <2>1 DEF HandOver, TypeOK
  <2>3. held'[p] = {} /\ held'[Sender] = held[p]
    BY <1>0, <2>1 DEF TypeOK
  <2>. QED  BY <1>0, <2>1, <2>2, <2>3 DEF OnlyGeneratedProofsUsed
<1>2. CASE UnprofitableBatch(p)
  BY <1>2, <1>0 DEF UnprofitableBatch, ProcessEnds, OnlyGeneratedProofsUsed
<1>. SUFFICES ASSUME Alone(p) PROVE OnlyGeneratedProofsUsed'
  BY <1>1, <1>2, ProverAlone
<1>3. CASE CheckCanVerify(p) \/ GetLatestVerifiedBatchNum(p) \/ NothingReady(p)
           \/ FinalProofBuilt(p) \/ NothingToAggregate(p) \/ NothingToProve(p) \/ ReadFails(p)
  <2>1. UNCHANGED <<proofs, held>> /\ pc[p] # "proving"
    BY <1>3 DEF CheckCanVerify, GetLatestVerifiedBatchNum, NothingReady,
                FinalProofBuilt, NothingToAggregate, NothingToProve, ReadFails
  <2>. QED  BY <1>0, <2>1 DEF Alone, OnlyGeneratedProofsUsed
<1>4. CASE LockProofReady(p)
  <2>1. PICK r \in GetProofReadyToVerify(proofs, sequences, seen[p]) :
          /\ proofs' = UpdateGeneratedProof(proofs, {Content(r)}, "recent")
          /\ held' = [held EXCEPT ![p] = {Content(r)}] \/ held' = [held EXCEPT ![p] = {}]
    BY <1>4 DEF LockProofReady
  <2>2. Content(r).made
    BY <1>0 DEF GetProofReadyToVerify, Content, Proof
  <2>3. \A s \in proofs' : s.since = "null" => s.made
    BY <1>0, <2>1, UpdateGenerated
  <2>5. \A d \in held'[p] : d.made
    BY <1>0, <2>1, <2>2 DEF TypeOK
  <2>. QED  BY <1>0, <2>3, <2>5 DEF Alone, OnlyGeneratedProofsUsed
<1>5. CASE ValidateOwn(p)
  <2>1. \A r \in proofs' : r \in proofs
    BY <1>5 DEF ValidateOwn, DeleteGeneratedProofs
  <2>. QED  BY <1>0, <1>5, <2>1 DEF Alone, ValidateOwn, OnlyGeneratedProofsUsed
<1>6. CASE FinalProofFails(p) \/ UnlockOwn(p) \/ AggregationFails(p)
  <2>1. /\ pc[p] # "proving"
        /\ proofs' = proofs \/ proofs' = UpdateGeneratedProof(proofs, held[p], "null")
        /\ held' = held \/ held' = [held EXCEPT ![p] = {}]
    BY <1>6 DEF FinalProofFails, UnlockOwn, AggregationFails, Release
  <2>2. \A s \in proofs' : s.since = "null" => s.made
    BY <1>0, <2>1, UpdateGenerated
  <2>4. \A c \in held'[p] : c.made
    BY <1>0, <2>1 DEF TypeOK
  <2>. QED  BY <1>0, <2>2, <2>4 DEF Alone, OnlyGeneratedProofsUsed
<1>7. CASE LockProofsToAggregate(p)
  <2>1. PICK c \in GetProofsToAggregate(proofs, sequences) :
          LET pair == {Content(c[1]), Content(c[2])} IN
          /\ proofs' = UpdateGeneratedProof(proofs, pair, "recent")
          /\ held' = [held EXCEPT ![p] = pair] \/ held' = [held EXCEPT ![p] = {}]
    BY <1>7 DEF LockProofsToAggregate
  <2>2. \A d \in {Content(c[1]), Content(c[2])} : d.made
    BY <1>0 DEF GetProofsToAggregate, Aggregatable, Content, Proof
  <2>3. \A s \in proofs' : s.since = "null" => s.made
    BY <1>0, <2>1, UpdateGenerated
  <2>5. \A d \in held'[p] : d.made
    BY <1>0, <2>1, <2>2 DEF TypeOK
  <2>. QED  BY <1>0, <2>3, <2>5 DEF Alone, OnlyGeneratedProofsUsed
<1>8. CASE AggregationDone(p)
  <2>1. PICK x, y \in held[p] :
          LET c == Aggregated(x, y) IN
          /\ pc[p] # "proving"
          /\ \/ /\ proofs' = ReplaceByAggregated(proofs, c)
                /\ held' = [held EXCEPT ![p] = {c}]
             \/ /\ proofs' = UpdateGeneratedProof(ReplaceByAggregated(proofs, c),
                                                  held[p], "null")
                /\ held' = [held EXCEPT ![p] = {}]
    BY <1>8 DEF AggregationDone
  <2>2. \A r \in ReplaceByAggregated(proofs, Aggregated(x, y)) :
          r.since = "null" => r.made
    BY <1>0, AddGenerated DEF ReplaceByAggregated, DeleteGeneratedProofs
  <2>3. \A r \in UpdateGeneratedProof(ReplaceByAggregated(proofs, Aggregated(x, y)),
                                      held[p], "null") :
          r.since = "null" => r.made
    BY <1>0, <2>1, <2>2, UpdateGenerated
  <2>5. \A d \in held'[p] : d.made
    BY <1>0, <2>1 DEF Aggregated, Proof, TypeOK
  <2>. QED  BY <1>0, <2>1, <2>2, <2>3, <2>5 DEF Alone, OnlyGeneratedProofsUsed
<1>9. CASE LockBatchToProve(p)
  <2>1. PICK b \in Batches :
          /\ \/ proofs' = AddGeneratedProof(proofs, Proof(b, b, FALSE))
             \/ proofs' = proofs
          /\ \/ pc' = [pc EXCEPT ![p] = "proving"]
             \/ held' = [held EXCEPT ![p] = {}]
    BY <1>9 DEF LockBatchToProve
  <2>2. \A s \in proofs' : s.since = "null" => s.made
    <3>1. \A s \in AddGeneratedProof(proofs, Proof(b, b, FALSE)) : s.since = "null" => s.made
      BY <1>0, AddGenerated
    <3>. QED  BY <1>0, <2>1, <3>1
  <2>. QED  BY <1>0, <2>1, <2>2 DEF Alone, OnlyGeneratedProofsUsed, TypeOK
<1>10. CASE BatchProofDone(p) \/ BatchProofWrongRoot(p) \/ BatchProofFails(p)
  <2>1. /\ proofs' \subseteq proofs
        /\ \/ \E c \in held[p] : held' = [held EXCEPT ![p] = {Proof(c.from, c.to, TRUE)}]
           \/ held' = [held EXCEPT ![p] = {}]
    BY <1>10
    DEF BatchProofDone, BatchProofWrongRoot, BatchProofFails, DeleteGeneratedProofs
  <2>3. \A d \in held'[p] : d.made
    BY <1>0, <2>1 DEF Proof, TypeOK
  <2>. QED  BY <1>0, <2>1, <2>3 DEF Alone, OnlyGeneratedProofsUsed
<1>. QED
  BY <1>1, <1>2, <1>3, <1>4, <1>5, <1>6, <1>7, <1>8, <1>9, <1>10
  DEF Channel, TryBuildFinalProof, TryAggregateProofs, TryGenerateBatchProof

LEMMA GeneratedOther ==
  ASSUME TypeOK, OnlyGeneratedProofsUsed, DownTogether,
         \/ SendFinalProof \/ Settlement \/ Environment \/ BatchReady
         \/ VerifyTimeReached \/ LocksGetOld \/ CleanupLocked \/ Crash \/ Restart
  PROVE  OnlyGeneratedProofsUsed'
<1>. USE DEF dbVars, l1Vars, flags, Goto, Keep
<1>0. /\ Sender \in Holders
      /\ pc[Sender] # "proving"
      /\ \A r \in proofs : r.since = "null" => r.made
      /\ \A c \in held[Sender] : c.made
  BY SenderAssumption DEF Holders, TypeOK, SenderPC, OnlyGeneratedProofsUsed
<1>1. CASE HandleSettlementFailure
  <2>1. /\ proofs' = proofs \/ proofs' = UpdateGeneratedProof(proofs, held[Sender], "null")
        /\ held' = [held EXCEPT ![Sender] = {}]
        /\ pc' = [pc EXCEPT ![Sender] = "wait"]
    BY <1>1 DEF HandleSettlementFailure, Release
  <2>2. \A s \in proofs' : s.since = "null" => s.made
    BY <1>0, <2>1, UpdateGenerated
  <2>. QED  BY <1>0, <2>1, <2>2 DEF OnlyGeneratedProofsUsed, TypeOK
<1>2. CASE proofs' = proofs /\ held' = [h \in Holders |-> {}]
  BY <1>0, <1>2 DEF OnlyGeneratedProofsUsed
<1>3. CASE StartVerification \/ Submit \/ SettlementMined
  BY <1>0, <1>3 DEF StartVerification, Submit, SettlementMined, OnlyGeneratedProofsUsed, TypeOK
<1>4. CASE GetBatchFails \/ EndVerification
  BY <1>0, <1>4 DEF GetBatchFails, EndVerification, OnlyGeneratedProofsUsed, TypeOK
<1>5. CASE UNCHANGED <<proofs, pc, held>>
  BY <1>5 DEF OnlyGeneratedProofsUsed
<1>6. CASE LocksGetOld
  <2>1. \A s \in proofs' : s.since = "null" => s \in proofs
    BY <1>6 DEF LocksGetOld, TypeOK, Rows
  <2>. QED  BY <1>0, <1>6, <2>1 DEF LocksGetOld, OnlyGeneratedProofsUsed
<1>7. CASE CleanupLocked
  BY <1>0, <1>7 DEF CleanupLocked, CleanupLockedProofs, OnlyGeneratedProofsUsed
<1>8. CASE Restart
  <2>1. proofs' \subseteq proofs
    BY <1>8 DEF Restart, DeleteUngeneratedProofs, DeleteBatchesOlderThanBatchNumber
  <2>. QED  BY <1>0, <1>8, <2>1 DEF Restart, OnlyGeneratedProofsUsed, DownTogether
<1>. QED
  BY <1>1, <1>2, <1>3, <1>4, <1>5, <1>6, <1>7, <1>8
  DEF SendFinalProof, SubmitFails, SettlementTimeout, Settlement, NotMinedByAggLayer,
      SettlementReverted, AbandonedReverted, Environment, AbandonedMined,
      AbandonedDropped, BatchReady, VerifyTimeReached, Crash, ProcessEnds

(* The aggregated, final and settled proofs are made of generated proofs only,
   under every fault and with locks of any age. *)
THEOREM GeneratedProofsUsed == Spec => []OnlyGeneratedProofsUsed
<1>1. TypeOK /\ DownTogether /\ OnlyGeneratedProofsUsed /\ [Next]_vars
        => OnlyGeneratedProofsUsed'
  <2>. SUFFICES ASSUME TypeOK, DownTogether, OnlyGeneratedProofsUsed, [Next]_vars
                PROVE  OnlyGeneratedProofsUsed'
    OBVIOUS
  <2>1. CASE UNCHANGED vars
    BY <2>1 DEF vars, OnlyGeneratedProofsUsed
  <2>. QED  BY <2>1, GeneratedProver, GeneratedOther DEF Next
<1>. QED  BY GeneratedInit, TypeCorrect, EndsTogether, <1>1, PTL DEF Spec

-----------------------------------------------------------------------------
(* Proofs follow the sequences of L1: a row lies inside one sequence or is made
   of whole ones, and a final proof is made of whole ones.  To be inductive this
   needs what was checked when two proofs were locked, which is not read again
   when their aggregation is stored. *)

Whole(x) ==
  /\ \E s \in L1Sequences : s.from = x.from
  /\ \E t \in L1Sequences : t.to = x.to

Fits(x) == (\E s \in L1Sequences : Within(x, s)) \/ Whole(x)

Fit(x, y) == SameSequence(L1Sequences, x, y) \/ (Whole(x) /\ Whole(y))

RowsFit(P) == \A r \in P : Fits(r)

PairFits(h) ==
  pc[h] = "aggregating" => \A x, y \in held[h] : Adjacent(x, y) => Fit(x, y)

FinalPC == {"buildStored", "buildOwn", "sendStored", "sendOwn"}

FinalWhole(h) == pc[h] \in FinalPC => \A c \in held[h] : Whole(c)

SequencesInv ==
  /\ RowsFit(proofs)
  /\ SettlesWholeSequences
  /\ \A p \in Provers : PairFits(p) /\ FinalWhole(p)

LEMMA CompleteWhole ==
  ASSUME TypeOK, NEW x, CheckProofContainsCompleteSequences(sequences, x)
  PROVE  Whole(x)
  BY DEF CheckProofContainsCompleteSequences, Whole, TypeOK

(* The rows stand for the ranges they stood for, or fewer. *)
LEMMA SameRangesFit ==
  ASSUME NEW P, NEW Q, RowsFit(P), \A r \in Q : \E s \in P : SameKey(r, s)
  PROVE  RowsFit(Q)
  BY DEF RowsFit, Fits, Whole, Within, SameKey

LEMMA UpdateRanges ==
  ASSUME NEW P, NEW C, NEW since
  PROVE  \A r \in UpdateGeneratedProof(P, C, since) : \E s \in P : SameKey(r, s)
  BY DEF UpdateGeneratedProof, SameKey, Row

LEMMA UpdateFits ==
  ASSUME NEW P, NEW C, NEW since, RowsFit(P)
  PROVE  RowsFit(UpdateGeneratedProof(P, C, since))
  BY UpdateRanges, SameRangesFit

LEMMA AddFits ==
  ASSUME NEW P, NEW c, RowsFit(P), Fits(c)
  PROVE  RowsFit(AddGeneratedProof(P, c))
  BY DEF RowsFit, AddGeneratedProof, Fits, Whole, Within, Row

LEMMA FewerFit ==
  ASSUME NEW P, NEW Q, RowsFit(P), Q \subseteq P
  PROVE  RowsFit(Q)
  BY DEF RowsFit

LEMMA AggregatedFits ==
  ASSUME NEW x, NEW y, Fit(x, y)
  PROVE  Fits(Aggregated(x, y))
  BY DEF Fit, Fits, Whole, SameSequence, Within, Aggregated, Proof

LEMMA SequencesProver ==
  ASSUME TypeOK, ClaimsApart, SequencesInv, NEW p \in Provers, Channel(p)
  PROVE  SequencesInv'
<1>. USE DEF dbVars, l1Vars, Goto, Keep
<1>0. /\ p \in Holders /\ Sender \in Holders /\ p # Sender
      /\ RowsFit(proofs) /\ PairFits(p) /\ FinalWhole(p)
  BY SenderAssumption DEF Holders, SequencesInv
<1>1. CASE HandOver(p)
  <2>1. /\ proofs' = proofs /\ abandoned' = abandoned
        /\ held' = [held EXCEPT ![Sender] = held[p], ![p] = {}]
        /\ pc[p] \in FinalPC
    BY <1>1 DEF HandOver, FinalPC
  <2>2. \A g \in Holders : g # p /\ g # Sender => pc'[g] = pc[g] /\ held'[g] = held[g]
    BY <1>1, <2>1 DEF HandOver, TypeOK
  <2>3. held'[p] = {} /\ held'[Sender] = held[p]
    BY <1>0, <2>1 DEF TypeOK
  <2>4. \A c \in held[p] : Whole(c)
    BY <1>0, <2>1 DEF FinalWhole
  <2>5. SettlesWholeSequences'
    BY <2>1, <2>3, <2>4 DEF SettlesWholeSequences, SequencesInv, Whole
  <2>6. ASSUME NEW q \in Provers PROVE (PairFits(q) /\ FinalWhole(q))'
    BY <1>0, <2>2, <2>3, SenderAssumption DEF PairFits, FinalWhole, SequencesInv, Holders
  <2>. QED  BY <1>0, <2>1, <2>5, <2>6 DEF SequencesInv
<1>2. CASE UnprofitableBatch(p)
  <2>1. /\ held' = [h \in Holders |-> {}]
        /\ abandoned' = Submitted
        /\ proofs' = proofs
    BY <1>2 DEF UnprofitableBatch, ProcessEnds
  <2>2. SettlesWholeSequences'
    BY <1>0, <2>1 DEF SettlesWholeSequences, SequencesInv, Submitted, InFlight
  <2>. QED
    BY <1>0, <2>1, <2>2 DEF SequencesInv, PairFits, FinalWhole, Holders
<1>. SUFFICES ASSUME Alone(p),
                     (/\ RowsFit(proofs') /\ abandoned' = abandoned
                      /\ PairFits(p)' /\ FinalWhole(p)') => SequencesInv'
              PROVE  SequencesInv'
  <2>1. ASSUME Alone(p), RowsFit(proofs'), abandoned' = abandoned,
               PairFits(p)', FinalWhole(p)'
        PROVE  SequencesInv'
    <3>1. SettlesWholeSequences'
      BY <1>0, <2>1 DEF SettlesWholeSequences, SequencesInv, Alone
    <3>2. ASSUME NEW q \in Provers PROVE (PairFits(q) /\ FinalWhole(q))'
      BY <2>1 DEF PairFits, FinalWhole, SequencesInv, Alone, Holders
    <3>. QED  BY <2>1, <3>1, <3>2 DEF SequencesInv
  <2>. QED  BY <1>1, <1>2, <2>1, ProverAlone
<1>3. CASE \/ CheckCanVerify(p) \/ GetLatestVerifiedBatchNum(p) \/ NothingReady(p)
           \/ FinalProofBuilt(p) \/ NothingToAggregate(p) \/ NothingToProve(p)
           \/ ReadFails(p)
  <2>1. UNCHANGED <<proofs, held, abandoned>>
    BY <1>3 DEF CheckCanVerify, GetLatestVerifiedBatchNum, NothingReady,
                FinalProofBuilt, NothingToAggregate, NothingToProve, ReadFails
  <2>2. pc'[p] # "aggregating" /\ (pc'[p] \in FinalPC => pc[p] \in FinalPC)
    BY <1>0, <1>3
    DEF CheckCanVerify, GetLatestVerifiedBatchNum, NothingReady, FinalProofBuilt,
        NothingToAggregate, NothingToProve, ReadFails, FinalPC, TypeOK
  <2>. QED  BY <1>0, <2>1, <2>2 DEF PairFits, FinalWhole
<1>4. CASE LockProofReady(p)
  <2>1. PICK r \in GetProofReadyToVerify(proofs, sequences, seen[p]) :
          /\ proofs' = UpdateGeneratedProof(proofs, {Content(r)}, "recent")
          /\ held' = [held EXCEPT ![p] = {Content(r)}] \/ held' = [held EXCEPT ![p] = {}]
          /\ pc'[p] # "aggregating"
    BY <1>0, <1>4 DEF LockProofReady, TypeOK
  <2>2. Whole(r)
    BY CompleteWhole DEF GetProofReadyToVerify
  <2>3. Whole(Content(r))
    BY <2>2 DEF Whole, Content, Proof
  <2>4. \A c \in held'[p] : Whole(c)
    BY <1>0, <2>1, <2>3 DEF TypeOK
  <2>5. RowsFit(proofs')
    BY <1>0, <2>1, UpdateFits
  <2>. QED  BY <1>4, <2>1, <2>4, <2>5 DEF LockProofReady, PairFits, FinalWhole
<1>5. CASE ValidateOwn(p)
  <2>1. /\ proofs' \subseteq proofs /\ held' = held
        /\ pc'[p] # "aggregating"
    BY <1>0, <1>5 DEF ValidateOwn, DeleteGeneratedProofs, TypeOK
  <2>2. FinalWhole(p)'
    <3>1. PICK c \in held[p] :
            pc'[p] \in FinalPC => CheckProofContainsCompleteSequences(sequences, c)
      BY <1>0, <1>5 DEF ValidateOwn, FinalPC, TypeOK
    <3>2. \A d \in held[p] : d = c
      BY <1>0, <1>5 DEF ValidateOwn, ClaimsApart
    <3>. QED  BY <2>1, <3>1, <3>2, CompleteWhole DEF FinalWhole
  <2>3. RowsFit(proofs')
    BY <1>0, <2>1, FewerFit
  <2>. QED  BY <1>5, <2>1, <2>2, <2>3 DEF ValidateOwn, PairFits
<1>6. CASE FinalProofFails(p) \/ UnlockOwn(p) \/ AggregationFails(p)
  <2>1. /\ proofs' = proofs \/ proofs' = UpdateGeneratedProof(proofs, held[p], "null")
        /\ abandoned' = abandoned
    BY <1>6 DEF FinalProofFails, UnlockOwn, AggregationFails, Release
  <2>2. pc'[p] # "aggregating" /\ pc'[p] \notin FinalPC
    BY <1>0, <1>6 DEF FinalProofFails, UnlockOwn, AggregationFails, FinalPC, TypeOK
  <2>3. RowsFit(proofs')
    BY <1>0, <2>1, UpdateFits
  <2>. QED  BY <2>1, <2>2, <2>3 DEF PairFits, FinalWhole
<1>7. CASE LockProofsToAggregate(p)
  <2>1. PICK c \in GetProofsToAggregate(proofs, sequences) :
          LET pair == {Content(c[1]), Content(c[2])} IN
          /\ proofs' = UpdateGeneratedProof(proofs, pair, "recent")
          /\ held' = [held EXCEPT ![p] = pair] \/ held' = [held EXCEPT ![p] = {}]
          /\ pc'[p] \notin FinalPC
    BY <1>0, <1>7 DEF LockProofsToAggregate, FinalPC, TypeOK
  <2>. DEFINE x == Content(c[1])
              y == Content(c[2])
  <2>2. c \in proofs \X proofs /\ Adjacent(x, y)
    BY DEF GetProofsToAggregate, Aggregatable, Adjacent, Content, Proof
  <2>3. Fit(x, y)
    <3>1. \/ SameSequence(sequences, c[1], c[2])
          \/ /\ CheckProofContainsCompleteSequences(sequences, c[1])
             /\ CheckProofContainsCompleteSequences(sequences, c[2])
      BY DEF GetProofsToAggregate, Aggregatable
    <3>2. SameSequence(L1Sequences, c[1], c[2]) \/ (Whole(c[1]) /\ Whole(c[2]))
      BY <3>1, CompleteWhole DEF SameSequence, TypeOK
    <3>. QED  BY <3>2 DEF Fit, SameSequence, Whole, Within, Content, Proof
  <2>4. x \in Held /\ y \in Held
    BY <2>2, ContentTyped DEF TypeOK
  <2>5. PairFits(p)'
    <3>1. \A u, v \in {x, y} : Adjacent(u, v) => u = x /\ v = y
      BY <2>2, <2>4, LastBatchAssumption DEF Adjacent, Held, Batches
    <3>2. held'[p] = {x, y} \/ held'[p] = {}
      BY <1>0, <2>1 DEF TypeOK
    <3>. QED  BY <2>3, <3>1, <3>2 DEF PairFits
  <2>6. RowsFit(proofs')
    BY <1>0, <2>1, UpdateFits
  <2>. QED  BY <1>7, <2>1, <2>5, <2>6 DEF LockProofsToAggregate, FinalWhole
<1>8. CASE AggregationDone(p)
  <2>1. PICK x, y \in held[p] :
          LET c == Aggregated(x, y) IN
          /\ Adjacent(x, y) /\ pc[p] = "aggregating"
          /\ \/ proofs' = ReplaceByAggregated(proofs, c)
             \/ proofs' = UpdateGeneratedProof(ReplaceByAggregated(proofs, c),
                                               held[p], "null")
    BY <1>8 DEF AggregationDone
  <2>2. pc'[p] # "aggregating" /\ pc'[p] \notin FinalPC
    BY <1>0, <1>8 DEF AggregationDone, FinalPC, TypeOK
  <2>3. Fits(Aggregated(x, y))
    BY <1>0, <2>1, AggregatedFits DEF PairFits
  <2>4. RowsFit(DeleteGeneratedProofs(proofs, Aggregated(x, y)))
    BY <1>0, FewerFit DEF DeleteGeneratedProofs
  <2>5. RowsFit(ReplaceByAggregated(proofs, Aggregated(x, y)))
    BY <2>3, <2>4, AddFits DEF ReplaceByAggregated
  <2>6. RowsFit(proofs')
    BY <2>1, <2>5, UpdateFits
  <2>. QED  BY <1>8, <2>2, <2>6 DEF AggregationDone, PairFits, FinalWhole
<1>9. CASE LockBatchToProve(p)
  <2>1. PICK b \in Batches, s \in L1Sequences :
          /\ Contains(s, b)
          /\ \/ proofs' = AddGeneratedProof(proofs, Proof(b, b, FALSE))
             \/ proofs' = proofs
    BY <1>9 DEF LockBatchToProve
  <2>2. pc'[p] # "aggregating" /\ pc'[p] \notin FinalPC
    BY <1>0, <1>9 DEF LockBatchToProve, FinalPC, TypeOK
  <2>3. Fits(Proof(b, b, FALSE))
    BY <2>1 DEF Fits, Within, Contains, Proof
  <2>4. RowsFit(proofs')
    BY <1>0, <2>1, <2>3, AddFits
  <2>. QED  BY <1>9, <2>2, <2>4 DEF LockBatchToProve, PairFits, FinalWhole
<1>10. CASE BatchProofDone(p) \/ BatchProofWrongRoot(p) \/ BatchProofFails(p)
  <2>1. proofs' \subseteq proofs /\ abandoned' = abandoned
    BY <1>10
    DEF BatchProofDone, BatchProofWrongRoot, BatchProofFails, DeleteGeneratedProofs
  <2>2. pc'[p] # "aggregating" /\ pc'[p] \notin FinalPC
    BY <1>0, <1>10
    DEF BatchProofDone, BatchProofWrongRoot, BatchProofFails, FinalPC, TypeOK
  <2>3. RowsFit(proofs')
    BY <1>0, <2>1, FewerFit
  <2>. QED  BY <2>1, <2>2, <2>3 DEF PairFits, FinalWhole
<1>. QED
  BY <1>3, <1>4, <1>5, <1>6, <1>7, <1>8, <1>9, <1>10, <1>1, <1>2
  DEF Channel, TryBuildFinalProof, TryAggregateProofs, TryGenerateBatchProof

LEMMA SequencesOther ==
  ASSUME TypeOK, SequencesInv, DownTogether,
         \/ SendFinalProof \/ Settlement \/ Environment \/ BatchReady
         \/ VerifyTimeReached \/ LocksGetOld \/ CleanupLocked \/ Crash \/ Restart
  PROVE  SequencesInv'
<1>. USE DEF dbVars, l1Vars, flags, Goto, Keep
<1>0. /\ Sender \in Holders /\ Sender \notin Provers
      /\ RowsFit(proofs) /\ SettlesWholeSequences
  BY SenderAssumption DEF Holders, SequencesInv
<1>1. CASE /\ UNCHANGED <<proofs, pc, held>>
           /\ abandoned' \subseteq abandoned
  BY <1>1 DEF SequencesInv, SettlesWholeSequences, PairFits, FinalWhole
<1>2. CASE \E T : /\ ProcessEnds(T) /\ T \subseteq abandoned \cup held[Sender]
                  /\ proofs' = proofs
  <2>1. /\ \A h \in Holders : held'[h] = {}
        /\ abandoned' \subseteq abandoned \cup held[Sender]
        /\ proofs' = proofs
    BY <1>2 DEF ProcessEnds
  <2>2. SettlesWholeSequences'
    BY <1>0, <2>1 DEF SettlesWholeSequences
  <2>. QED  BY <1>0, <2>1, <2>2 DEF SequencesInv, PairFits, FinalWhole, Holders
<1>3. CASE SendFinalProof \/ SettlementMined \/ (HandleSettlementFailure /\ UNCHANGED abandoned)
  <2>1. /\ \E to : pc' = [pc EXCEPT ![Sender] = to]
        /\ held' = held \/ held' = [held EXCEPT ![Sender] = {}]
        /\ proofs' = proofs \/ proofs' = UpdateGeneratedProof(proofs, held[Sender], "null")
        /\ abandoned' \subseteq abandoned \cup held[Sender]
    BY <1>3
    DEF SendFinalProof, StartVerification, GetBatchFails, Submit, SubmitFails,
        EndVerification, SettlementTimeout, SettlementMined, HandleSettlementFailure,
        Release, Submitted, InFlight
  <2>2. \A p \in Provers : pc'[p] = pc[p] /\ held'[p] = held[p]
    BY <1>0, <2>1 DEF TypeOK, Holders
  <2>3. RowsFit(proofs')
    BY <1>0, <2>1, UpdateFits
  <2>4. SettlesWholeSequences'
    BY <1>0, <2>1 DEF SettlesWholeSequences, TypeOK
  <2>. QED  BY <2>2, <2>3, <2>4 DEF SequencesInv, PairFits, FinalWhole
<1>4. CASE LocksGetOld
  <2>1. \A r \in proofs' : \E s \in proofs : SameKey(r, s)
    BY <1>4 DEF LocksGetOld, SameKey, TypeOK, Rows
  <2>2. RowsFit(proofs')
    BY <1>0, <2>1, SameRangesFit
  <2>. QED
    BY <1>4, <2>2
    DEF LocksGetOld, SequencesInv, SettlesWholeSequences, PairFits, FinalWhole
<1>5. CASE CleanupLocked
  <2>1. RowsFit(proofs')
    BY <1>0, <1>5, FewerFit DEF CleanupLocked, CleanupLockedProofs
  <2>. QED
    BY <1>5, <2>1
    DEF CleanupLocked, SequencesInv, SettlesWholeSequences, PairFits, FinalWhole
<1>6. CASE Restart
  <2>1. RowsFit(proofs')
    BY <1>0, <1>6, FewerFit
    DEF Restart, DeleteUngeneratedProofs, DeleteBatchesOlderThanBatchNumber
  <2>. QED
    BY <1>0, <1>6, <2>1
    DEF Restart, DownTogether, SequencesInv, SettlesWholeSequences, PairFits, FinalWhole,
        Holders
<1>. QED
  BY <1>1, <1>2, <1>3, <1>4, <1>5, <1>6
  DEF Settlement, NotMinedByAggLayer, SettlementReverted, AbandonedReverted, Environment,
      AbandonedMined, AbandonedDropped, BatchReady, VerifyTimeReached, Crash, Submitted,
      InFlight

(* Whatever fails, and however late transactions are mined: every stored proof is
   for a part of one sequence or for whole sequences, and every proof that is
   sent to L1 for whole sequences. *)
THEOREM SequencesFollowed == Spec => [](RowsFollowSequences /\ SettlesWholeSequences)
<1>1. Init => SequencesInv
  BY DEF Init, SequencesInv, RowsFit, SettlesWholeSequences, PairFits, FinalWhole, Holders
<1>2. TypeOK /\ DownTogether /\ ClaimsApart /\ SequencesInv /\ [Next]_vars => SequencesInv'
  <2>. SUFFICES ASSUME TypeOK, DownTogether, ClaimsApart, SequencesInv, [Next]_vars
                PROVE  SequencesInv'
    OBVIOUS
  <2>1. CASE UNCHANGED vars
    BY <2>1 DEF vars, SequencesInv, SettlesWholeSequences, PairFits, FinalWhole
  <2>. QED  BY <2>1, SequencesProver, SequencesOther DEF Next
<1>3. SequencesInv => RowsFollowSequences /\ SettlesWholeSequences
  BY DEF SequencesInv, RowsFit, Fits, Whole, RowsFollowSequences
<1>. QED
  BY TypeCorrect, EndsTogether, ClaimsStayApart, <1>1, <1>2, <1>3, PTL DEF Spec

-----------------------------------------------------------------------------
(* Locks do not leak: a locked row above the last verified batch is one that somebody
   works on.  It rests on the storage: when a statement fails, or its reply gets lost,
   the code leaves rows locked to the clean-up goroutine.  It needs no assumption on how
   fast jobs are, nor on transactions that are late. *)

EmptyPlaces ==
  {"idle", "readStored", "findReady", "aggregate", "batch", "choose", "stuck", "wait"}

(* Nobody overwrites a proof in memory. *)
EmptyHanded == \A h \in Holders : pc[h] \in EmptyPlaces => held[h] = {}

(* sendFinalProof forgets a proof without unlocking it once it is settled. *)
ForgotVerified ==
  pc[Sender] = "mined" => \A c \in held[Sender] : c.to <= lastVerified

(* Two proofs are aggregated, not more. *)
PairHeld ==
  \A h \in Holders : pc[h] = "aggregating" =>
    \A x, y, z \in held[h] : x = y \/ x = z \/ y = z

(* Only single batches are proven. *)
SingleHeld ==
  \A h \in Holders : pc[h] = "proving" => \A c \in held[h] : c.from = c.to

LockInv == LocksHaveHolder /\ EmptyHanded /\ ForgotVerified /\ PairHeld /\ SingleHeld

-----------------------------------------------------------------------------
(* Rows. *)

(* A locked row of Q was locked in P, and is none of C. *)
LockedBefore(P, Q, C) ==
  \A r \in Q : r.since # "null" =>
    \E q \in P : SameKey(q, r) /\ q.since # "null" /\ \A c \in C : ~ SameKey(c, q)

LEMMA UnlockLeaves ==
  ASSUME NEW P, NEW C
  PROVE  LockedBefore(P, UpdateGeneratedProof(P, C, "null"), C)
  BY DEF LockedBefore, UpdateGeneratedProof, Row, SameKey

LEMMA ReleaseLeaves ==
  ASSUME "storage" \notin Faults, NEW C, Release(C)
  PROVE  LockedBefore(proofs, proofs', C)
  BY UnlockLeaves DEF Release

LEMMA LockLocks ==
  ASSUME NEW P, NEW C, NEW r \in UpdateGeneratedProof(P, C, "recent")
  PROVE  r \in P \/ \E c \in C : SameKey(c, r)
  BY DEF UpdateGeneratedProof, Row, SameKey

LEMMA WithinItself ==
  ASSUME NEW r \in Rows, NEW c \in Held, SameKey(c, r)
  PROVE  Within(r, c)
  BY LastBatchAssumption DEF Rows, Held, Batches, SameKey, Within

LEMMA DeleteLeaves ==
  ASSUME NEW P \in SUBSET Rows, NEW c \in Held
  PROVE  LockedBefore(P, DeleteGeneratedProofs(P, c), {c})
<1>1. \A r \in DeleteGeneratedProofs(P, c) : r \in P /\ ~ SameKey(c, r)
  BY WithinItself DEF DeleteGeneratedProofs
<1>. QED  BY <1>1 DEF LockedBefore, SameKey

-----------------------------------------------------------------------------
(* What a step of one holder has to see to. *)

(* A row is locked for h, or was locked by somebody else. *)
LockedFor(h) ==
  \A r \in proofs' : r.since # "null" =>
    \/ \E c \in held'[h] : SameKey(c, r)
    \/ \E q \in proofs : SameKey(q, r) /\ q.since # "null" /\ \A c \in held[h] : ~ SameKey(c, q)
    \/ ~ (r.to > lastVerified)
    \/ LeftLocked(r)'

LEMMA HolderStep ==
  ASSUME TypeOK, LockInv, NEW h \in Holders, Alone(h),
         pc[h] \notin {"stuck", "down"},
         lastVerified' = lastVerified,
         LockedFor(h),
         pc'[h] \in EmptyPlaces => held'[h] = {},
         pc'[h] # "mined",
         pc'[h] = "aggregating" => \A x, y, z \in held'[h] : x = y \/ x = z \/ y = z,
         pc'[h] = "proving" => \A c \in held'[h] : c.from = c.to
  PROVE  LockInv'
<1>1. EmptyHanded'
  BY DEF LockInv, EmptyHanded, Alone
<1>2. ForgotVerified'
  BY DEF LockInv, ForgotVerified, Alone, Holders
<1>3. PairHeld'
  BY DEF LockInv, PairHeld, Alone
<1>4. SingleHeld'
  BY DEF LockInv, SingleHeld, Alone
<1>. SUFFICES ASSUME NEW r \in proofs', r.since # "null", r.to > lastVerified,
                     pc'[Sender] # "down"
              PROVE  InMemory(r)' \/ LeftLocked(r)'
  BY <1>1, <1>2, <1>3, <1>4 DEF LockInv, LocksHaveHolder
<1>5. CASE \E c \in held'[h] : SameKey(c, r)
  BY <1>5 DEF InMemory
<1>6. ASSUME NEW q \in proofs, SameKey(q, r), q.since # "null",
             \A c \in held[h] : ~ SameKey(c, q)
      PROVE  InMemory(r)' \/ LeftLocked(r)'
  <2>1. pc[Sender] # "down"
    BY DEF Alone, Holders
  <2>2. InMemory(q) \/ LeftLocked(q)
    BY <1>6, <2>1 DEF LockInv, LocksHaveHolder, SameKey
  <2>3. CASE InMemory(q)
    <3>1. PICK g \in Holders : \E c \in held[g] : SameKey(c, q)
      BY <2>3 DEF InMemory
    <3>2. held'[g] = held[g]
      BY <1>6, <3>1 DEF Alone
    <3>. QED  BY <1>6, <3>1, <3>2 DEF InMemory, SameKey
  <2>4. CASE LeftLocked(q)
    BY <1>6, <2>4 DEF LeftLocked, SameKey, Alone, Holders
  <2>. QED  BY <2>2, <2>3, <2>4
<1>. QED  BY <1>5, <1>6 DEF LockedFor

(* Nothing happens to the rows, or to what h has in memory. *)
LEMMA NothingLocked ==
  ASSUME NEW h \in Holders, proofs' = proofs, \A c \in held[h] : \E d \in held'[h] : SameKey(d, c)
  PROVE  LockedFor(h)
  BY DEF LockedFor, SameKey

LEMMA LeavesLocked ==
  ASSUME NEW h \in Holders, LockedBefore(proofs, proofs', held[h])
  PROVE  LockedFor(h)
  BY DEF LockedFor, LockedBefore

(* A holder with nothing in memory locks the rows it goes on with. *)
LEMMA TakesLocked ==
  ASSUME NEW h \in Holders, held[h] = {},
         \A r \in proofs' : r \in proofs \/ \E c \in held'[h] : SameKey(c, r)
  PROVE  LockedFor(h)
  BY DEF LockedFor, SameKey

-----------------------------------------------------------------------------
(* The actions. *)

LEMMA LockProver ==
  ASSUME "storage" \notin Faults, TypeOK, ClaimsApart, LockInv,
         NEW p \in Provers, Channel(p), ~ HandOver(p), ~ UnprofitableBatch(p)
  PROVE  LockInv'
<1>. USE DEF dbVars, l1Vars, flags, Goto, Keep, EmptyPlaces
<1>0. /\ p \in Holders /\ held[p] \in SUBSET Held /\ proofs \in SUBSET Rows
      /\ pc[p] \in EmptyPlaces => held[p] = {}
      /\ \A c, d \in held[p] : c = d \/ pc[p] = "aggregating"
      /\ pc \in [Holders -> ProverPC \cup SenderPC] /\ DOMAIN held = Holders
      /\ held \in [Holders -> SUBSET Held]
      /\ ~ Fault("storage")
      /\ Alone(p)
  BY ProverAlone DEF Holders, TypeOK, LockInv, EmptyHanded, ClaimsApart, Fault
<1>1. CASE \/ CheckCanVerify(p) \/ GetLatestVerifiedBatchNum(p) \/ NothingReady(p)
           \/ FinalProofBuilt(p) \/ NothingToAggregate(p) \/ NothingToProve(p)
  <2>1. /\ proofs' = proofs /\ held' = held /\ lastVerified' = lastVerified
        /\ pc[p] \notin {"stuck", "down"}
        /\ pc'[p] \notin {"mined", "aggregating", "proving"}
        /\ pc'[p] \in EmptyPlaces => pc[p] \in EmptyPlaces
    BY <1>0, <1>1 DEF CheckCanVerify, GetLatestVerifiedBatchNum, NothingReady,
                      FinalProofBuilt, NothingToAggregate, NothingToProve
  <2>2. LockedFor(p)
    BY <1>0, <2>1, NothingLocked DEF SameKey
  <2>. QED  BY <1>0, <2>1, <2>2, HolderStep
<1>2. CASE LockProofReady(p)
  <2>1. PICK r \in GetProofReadyToVerify(proofs, sequences, seen[p]) :
          /\ proofs' = UpdateGeneratedProof(proofs, {Content(r)}, "recent")
          /\ held'[p] = {Content(r)}
    BY <1>0, <1>2 DEF LockProofReady
  <2>2. /\ lastVerified' = lastVerified /\ pc[p] = "findReady" /\ pc'[p] = "buildStored"
    BY <1>0, <1>2 DEF LockProofReady
  <2>3. LockedFor(p)
    BY <1>0, <2>1, <2>2, LockLocks, TakesLocked
  <2>. QED  BY <1>0, <2>2, <2>3, HolderStep
<1>3. CASE LockProofsToAggregate(p)
  <2>1. PICK c \in GetProofsToAggregate(proofs, sequences) :
          /\ proofs' = UpdateGeneratedProof(proofs, {Content(c[1]), Content(c[2])}, "recent")
          /\ held'[p] = {Content(c[1]), Content(c[2])}
    BY <1>0, <1>3 DEF LockProofsToAggregate
  <2>2. /\ lastVerified' = lastVerified /\ pc[p] = "aggregate" /\ pc'[p] = "aggregating"
    BY <1>0, <1>3 DEF LockProofsToAggregate
  <2>3. LockedFor(p)
    BY <1>0, <2>1, <2>2, LockLocks, TakesLocked
  <2>4. \A x, y, z \in held'[p] : x = y \/ x = z \/ y = z
    BY <2>1
  <2>. QED  BY <1>0, <2>2, <2>3, <2>4, HolderStep
<1>4. CASE LockBatchToProve(p)
  <2>1. PICK b \in Batches :
          /\ proofs' = AddGeneratedProof(proofs, Proof(b, b, FALSE))
          /\ held'[p] = {Proof(b, b, FALSE)}
    BY <1>0, <1>4 DEF LockBatchToProve
  <2>2. /\ lastVerified' = lastVerified /\ pc[p] = "choose" /\ pc'[p] = "proving"
    BY <1>0, <1>4 DEF LockBatchToProve
  <2>3. \A r \in proofs' : r \in proofs \/ \E c \in held'[p] : SameKey(c, r)
    BY <2>1 DEF AddGeneratedProof, Row, SameKey, Proof
  <2>4. LockedFor(p)
    BY <1>0, <2>2, <2>3, TakesLocked
  <2>5. \A c \in held'[p] : c.from = c.to
    BY <2>1 DEF Proof
  <2>. QED  BY <1>0, <2>2, <2>4, <2>5, HolderStep
<1>5. CASE ValidateOwn(p)
  <2>1. PICK c \in held[p] : proofs' = proofs \/ proofs' = DeleteGeneratedProofs(proofs, c)
    BY <1>5 DEF ValidateOwn
  <2>2. /\ lastVerified' = lastVerified /\ held' = held
        /\ pc[p] = "validate" /\ pc'[p] \in {"dropped", "buildOwn", "unlock"}
    BY <1>0, <1>5 DEF ValidateOwn
  <2>3. held[p] = {c}
    BY <1>0, <2>2
  <2>4. LockedFor(p)
    BY <1>0, <2>1, <2>2, <2>3, NothingLocked, DeleteLeaves, LeavesLocked DEF SameKey
  <2>. QED  BY <1>0, <2>2, <2>4, HolderStep
<1>6. CASE FinalProofFails(p) \/ UnlockOwn(p) \/ AggregationFails(p)
  <2>1. /\ lastVerified' = lastVerified /\ pc[p] \notin {"stuck", "down"}
        /\ pc'[p] \notin {"mined", "aggregating", "proving"}
        /\ pc'[p] \in EmptyPlaces => held'[p] = {}
    BY <1>0, <1>6 DEF FinalProofFails, UnlockOwn, AggregationFails
  <2>2. \/ Release(held[p])
        \/ proofs' = UpdateGeneratedProof(proofs, held[p], "null")
        \/ proofs' = proofs /\ held' = held
    BY <1>0, <1>6 DEF FinalProofFails, UnlockOwn, AggregationFails
  <2>3. LockedFor(p)
    <3>1. CASE Release(held[p])
      BY <1>0, <3>1, ReleaseLeaves, LeavesLocked
    <3>2. CASE proofs' = UpdateGeneratedProof(proofs, held[p], "null")
      BY <1>0, <3>2, UnlockLeaves, LeavesLocked
    <3>3. CASE proofs' = proofs /\ held' = held
      BY <1>0, <3>3, NothingLocked DEF SameKey
    <3>. QED  BY <2>2, <3>1, <3>2, <3>3
  <2>. QED  BY <1>0, <2>1, <2>3, HolderStep
<1>7. CASE AggregationDone(p)
  <2>1. PICK x \in held[p], y \in held[p] :
          /\ Adjacent(x, y)
          /\ proofs' = ReplaceByAggregated(proofs, Aggregated(x, y))
          /\ held'[p] = {Aggregated(x, y)}
    BY <1>0, <1>7 DEF AggregationDone
  <2>2. /\ lastVerified' = lastVerified /\ pc[p] = "aggregating" /\ pc'[p] = "own"
    BY <1>0, <1>7 DEF AggregationDone
  <2>. DEFINE a == Aggregated(x, y)
  <2>3. \A r \in proofs : ~ Within(r, a) => ~ SameKey(x, r) /\ ~ SameKey(y, r)
    BY <1>0, <2>1, LastBatchAssumption
    DEF Held, Rows, Batches, SameKey, Within, Adjacent, Aggregated, Proof
  <2>4. \A z \in held[p] : z = x \/ z = y
    <3>1. x # y
      BY <1>0, <2>1, LastBatchAssumption DEF Held, Batches, Adjacent
    <3>. QED  BY <1>0, <2>1, <2>2, <3>1 DEF LockInv, PairHeld
  <2>5. \A r \in proofs' : \/ r = Row(a, "recent")
                           \/ r \in proofs /\ ~ Within(r, a)
    BY <2>1 DEF ReplaceByAggregated, AddGeneratedProof, DeleteGeneratedProofs
  <2>6. LockedFor(p)
    BY <2>1, <2>3, <2>4, <2>5 DEF LockedFor, Row, SameKey
  <2>. QED  BY <1>0, <2>2, <2>6, HolderStep
<1>8. CASE BatchProofDone(p)
  <2>1. PICK c \in held[p] : held'[p] = {Proof(c.from, c.to, TRUE)}
    BY <1>0, <1>8 DEF BatchProofDone
  <2>2. /\ lastVerified' = lastVerified /\ proofs' = proofs
        /\ pc[p] = "proving" /\ pc'[p] = "own"
    BY <1>0, <1>8 DEF BatchProofDone
  <2>3. LockedFor(p)
    <3>1. held[p] = {c}
      BY <1>0, <2>1, <2>2
    <3>2. SameKey(Proof(c.from, c.to, TRUE), c)
      BY DEF SameKey, Proof
    <3>. QED  BY <1>0, <2>1, <2>2, <3>1, <3>2, NothingLocked
  <2>. QED  BY <1>0, <2>2, <2>3, HolderStep
<1>9. CASE BatchProofWrongRoot(p)
  <2>1. /\ lastVerified' = lastVerified /\ pc[p] = "proving" /\ pc'[p] = "stuck"
        /\ held'[p] = {} /\ proofs' = proofs
    BY <1>0, <1>9 DEF BatchProofWrongRoot
  <2>2. PICK c \in held[p] : c.from \in WrongRoot
    BY <1>9 DEF BatchProofWrongRoot
  <2>3. c.from = c.to /\ \A d \in held[p] : d = c
    BY <1>0, <2>1 DEF LockInv, SingleHeld
  <2>4. LockedFor(p)
    BY <2>1, <2>2, <2>3 DEF LockedFor, LeftLocked, SameKey
  <2>. QED  BY <1>0, <2>1, <2>4, HolderStep
<1>10. CASE BatchProofFails(p)
  <2>1. PICK c \in held[p] : proofs' = DeleteGeneratedProofs(proofs, c)
    BY <1>10 DEF BatchProofFails
  <2>2. /\ lastVerified' = lastVerified /\ held'[p] = {}
        /\ pc[p] = "proving" /\ pc'[p] = "idle"
    BY <1>0, <1>10 DEF BatchProofFails
  <2>3. held[p] = {c}
    BY <1>0, <2>2
  <2>4. LockedFor(p)
    BY <1>0, <2>1, <2>3, DeleteLeaves, LeavesLocked
  <2>. QED  BY <1>0, <2>2, <2>4, HolderStep
<1>. QED
  BY <1>0, <1>1, <1>2, <1>3, <1>4, <1>5, <1>6, <1>7, <1>8, <1>9, <1>10
  DEF Channel, TryBuildFinalProof, TryAggregateProofs, TryGenerateBatchProof, ReadFails

(* The proof is in memory on both sides of the channel. *)
LEMMA LockHandOver ==
  ASSUME TypeOK, LockInv, NEW p \in Provers, HandOver(p)
  PROVE  LockInv'
<1>. USE DEF dbVars, l1Vars, flags
<1>1. /\ p \in Holders /\ Sender \in Holders /\ p # Sender
      /\ held[Sender] = {} /\ held'[Sender] = held[p] /\ held'[p] = {}
      /\ pc'[Sender] = "received" /\ pc[Sender] = "wait"
      /\ pc[p] \in {"sendStored", "sendOwn"} /\ pc'[p] \in {"aggregate", "idle"}
      /\ proofs' = proofs /\ lastVerified' = lastVerified
      /\ \A g \in Holders : g # p /\ g # Sender => pc'[g] = pc[g] /\ held'[g] = held[g]
  BY SenderAssumption
  DEF HandOver, TypeOK, Holders, LockInv, EmptyHanded, EmptyPlaces
<1>2. EmptyHanded' /\ ForgotVerified' /\ PairHeld' /\ SingleHeld'
  BY <1>1 DEF LockInv, EmptyHanded, EmptyPlaces, ForgotVerified, PairHeld, SingleHeld
<1>3. \A r : InMemory(r) => InMemory(r)'
  BY <1>1 DEF InMemory
<1>4. \A q \in Provers : pc[q] = "stuck" => pc'[q] = "stuck"
  BY <1>1, SenderAssumption DEF Holders
<1>. QED  BY <1>1, <1>2, <1>3, <1>4 DEF LockInv, LocksHaveHolder, LeftLocked

LEMMA LockEnd ==
  ASSUME NEW T, ProcessEnds(T)
  PROVE  LockInv'
  BY SenderAssumption
  DEF ProcessEnds, LockInv, LocksHaveHolder, EmptyHanded, ForgotVerified, PairHeld,
      SingleHeld, Holders

LEMMA LockFailure ==
  ASSUME "storage" \notin Faults, TypeOK, LockInv, HandleSettlementFailure,
         pc[Sender] \notin {"stuck", "down"}
  PROVE  LockInv'
<1>1. Sender \in Holders
  BY DEF Holders
<1>2. /\ held'[Sender] = {} /\ pc'[Sender] = "wait" /\ lastVerified' = lastVerified
      /\ Alone(Sender)
  BY <1>1, AloneByExcept DEF HandleSettlementFailure, Keep, Goto, TypeOK
<1>3. LockedFor(Sender)
  BY <1>1, ReleaseLeaves, LeavesLocked DEF HandleSettlementFailure
<1>. QED  BY <1>1, <1>2, <1>3, HolderStep

LEMMA LockSender ==
  ASSUME "storage" \notin Faults, TypeOK, ClaimsApart, LockInv,
         SendFinalProof \/ Settlement
  PROVE  LockInv'
<1>. USE DEF dbVars, l1Vars, flags, Goto, Keep
<1>0. /\ Sender \in Holders /\ held[Sender] \in SUBSET Held /\ lastVerified \in Nat
      /\ ~ Fault("storage")
  BY LastBatchAssumption DEF Holders, TypeOK, Fault
<1>1. CASE StartVerification \/ Submit
  <2>1. /\ proofs' = proofs /\ held' = held /\ lastVerified' = lastVerified
        /\ pc[Sender] \in {"received", "started"} /\ pc'[Sender] \in {"started", "settling"}
    BY <1>0, <1>1 DEF StartVerification, Submit, TypeOK
  <2>2. LockedFor(Sender)
    BY <1>0, <2>1, NothingLocked DEF SameKey
  <2>3. Alone(Sender)
    BY <1>0, <1>1, AloneByExcept DEF StartVerification, Submit
  <2>. QED  BY <1>0, <2>1, <2>2, <2>3, HolderStep DEF EmptyPlaces
<1>2. CASE EndVerification
  <2>1. /\ proofs' = proofs /\ held'[Sender] = {} /\ lastVerified' = lastVerified
        /\ pc[Sender] = "mined" /\ pc'[Sender] = "wait"
    BY <1>0, <1>2 DEF EndVerification, TypeOK
  <2>2. \A c \in held[Sender] : ~ (c.to > lastVerified)
    BY <1>0, <2>1, LastBatchAssumption DEF LockInv, ForgotVerified, Held, Batches
  <2>3. LockedFor(Sender)
    BY <2>1, <2>2 DEF LockedFor, SameKey
  <2>4. Alone(Sender)
    BY <1>0, <1>2, AloneByExcept DEF EndVerification
  <2>. QED  BY <1>0, <2>1, <2>3, <2>4, HolderStep
<1>3. CASE SettlementMined
  <2>1. PICK c \in held[Sender] : c.to > lastVerified /\ lastVerified' = c.to
    BY <1>3 DEF SettlementMined, Acceptable
  <2>2. /\ pc[Sender] = "settling" /\ proofs' = proofs /\ held' = held
        /\ pc'[Sender] = "mined" /\ \A p \in Provers : pc'[p] = pc[p]
    BY <1>0, <1>3, SenderAssumption DEF SettlementMined, TypeOK
  <2>3. \A d \in held[Sender] : d = c
    BY <1>0, <2>1, <2>2 DEF ClaimsApart
  <2>4. c.to \in Nat
    BY <1>0, <2>1, LastBatchAssumption DEF Held, Batches
  <2>5. EmptyHanded' /\ PairHeld' /\ SingleHeld'
    BY <1>0, <2>2, SenderAssumption
    DEF LockInv, EmptyHanded, EmptyPlaces, PairHeld, SingleHeld, Holders
  <2>6. ForgotVerified'
    BY <2>1, <2>2, <2>3, <2>4 DEF ForgotVerified
  <2>7. \A r \in proofs : r.to > lastVerified' => r.to > lastVerified
    BY <1>0, <2>1, <2>4, LastBatchAssumption DEF TypeOK, Rows, Batches
  <2>. QED
    BY <2>2, <2>5, <2>6, <2>7 DEF LockInv, LocksHaveHolder, InMemory, LeftLocked
<1>4. CASE SubmitFails \/ SettlementTimeout \/ NotMinedByAggLayer
  BY <1>4, LockFailure DEF SubmitFails, SettlementTimeout, NotMinedByAggLayer
<1>5. CASE SettlementReverted \/ AbandonedReverted
  BY <1>5, LockEnd DEF SettlementReverted, AbandonedReverted
<1>. QED
  BY <1>0, <1>1, <1>2, <1>3, <1>4, <1>5 DEF SendFinalProof, Settlement, GetBatchFails

LEMMA LockOther ==
  ASSUME TypeOK, DownTogether, LockInv,
         \/ Environment \/ BatchReady \/ VerifyTimeReached \/ LocksGetOld
         \/ CleanupLocked \/ Crash \/ Restart
  PROVE  LockInv'
<1>. USE DEF dbVars, l1Vars, flags
<1>1. CASE Crash
  BY <1>1, LockEnd DEF Crash
<1>2. CASE Restart
  BY <1>2, SenderAssumption
  DEF Restart, DownTogether, DeleteUngeneratedProofs, Holders,
      LockInv, LocksHaveHolder, EmptyHanded, ForgotVerified, PairHeld, SingleHeld
<1>3. CASE \E c \in Held : AbandonedMined(c)
  <2>1. PICK c \in abandoned : AbandonedMined(c)
    BY <1>3 DEF AbandonedMined
  <2>7. c.to > lastVerified /\ lastVerified' = c.to
    BY <2>1 DEF AbandonedMined, Acceptable
  <2>2. lastVerified \in Nat /\ lastVerified' \in Nat
    BY <2>7, LastBatchAssumption DEF TypeOK, Held, Batches
  <2>3. proofs' = proofs /\ held' = held /\ pc' = pc
    BY <2>1 DEF AbandonedMined
  <2>4. \A r \in proofs : r.to > lastVerified' => r.to > lastVerified
    BY <2>7, <2>2, LastBatchAssumption DEF TypeOK, Rows, Batches
  <2>5. EmptyHanded' /\ PairHeld' /\ SingleHeld'
    BY <2>3 DEF LockInv, EmptyHanded, PairHeld, SingleHeld
  <2>6. ForgotVerified'
    <3>1. held[Sender] \subseteq Held
      BY DEF TypeOK, Holders
    <3>. QED
      BY <2>7, <2>2, <2>3, <3>1, LastBatchAssumption
      DEF LockInv, ForgotVerified, Held, Batches
  <2>. QED
    BY <2>3, <2>4, <2>5, <2>6 DEF LockInv, LocksHaveHolder, InMemory, LeftLocked
<1>4. CASE \/ AbandonedDropped \/ BatchReady \/ VerifyTimeReached \/ LocksGetOld
           \/ CleanupLocked
  <2>1. pc' = pc /\ held' = held /\ lastVerified' = lastVerified
    BY <1>4 DEF AbandonedDropped, BatchReady, VerifyTimeReached, LocksGetOld, CleanupLocked
  <2>2. \A r \in proofs' : r.since # "null" =>
          \E q \in proofs : SameKey(q, r) /\ q.since # "null"
    <3>1. CASE LocksGetOld
      <4>. SUFFICES ASSUME NEW r \in proofs', r.since # "null"
                    PROVE  \E q \in proofs : SameKey(q, r) /\ q.since # "null"
        OBVIOUS
      <4>1. PICK q \in proofs :
              r = IF CanGetOld(q) THEN [q EXCEPT !.since = "old"] ELSE q
        BY <3>1 DEF LocksGetOld
      <4>2. q \in Rows
        BY DEF TypeOK
      <4>3. r.from = q.from /\ r.to = q.to
        BY <4>1, <4>2 DEF Rows
      <4>4. q.since # "null"
        BY <4>1, <4>2 DEF Rows, CanGetOld
      <4>. QED  BY <4>3, <4>4 DEF SameKey
    <3>2. CASE CleanupLocked
      BY <3>2 DEF CleanupLocked, CleanupLockedProofs, SameKey
    <3>3. CASE proofs' = proofs
      BY <3>3 DEF SameKey
    <3>. QED
      BY <1>4, <3>1, <3>2, <3>3 DEF AbandonedDropped, BatchReady, VerifyTimeReached
  <2>. QED
    BY <2>1, <2>2
    DEF LockInv, LocksHaveHolder, EmptyHanded, ForgotVerified, PairHeld, SingleHeld,
        InMemory, LeftLocked, SameKey
<1>. QED  BY <1>1, <1>2, <1>3, <1>4 DEF Environment

-----------------------------------------------------------------------------

(* As long as the storage answers, and whatever else fails: a locked row above the
   last verified batch belongs to a goroutine that works on it. *)
THEOREM LocksHeld ==
  ASSUME "storage" \notin Faults
  PROVE  Spec => []LocksHaveHolder
<1>1. Init => LockInv
  BY SenderAssumption
  DEF Init, LockInv, LocksHaveHolder, EmptyHanded, ForgotVerified, PairHeld, SingleHeld,
      Holders
<1>2. TypeOK /\ DownTogether /\ ClaimsApart /\ LockInv /\ [Next]_vars => LockInv'
  <2>. SUFFICES ASSUME TypeOK, DownTogether, ClaimsApart, LockInv, [Next]_vars
                PROVE  LockInv'
    OBVIOUS
  <2>1. CASE UNCHANGED vars
    BY <2>1
    DEF vars, LockInv, LocksHaveHolder, EmptyHanded, ForgotVerified, PairHeld, SingleHeld,
        InMemory, LeftLocked
  <2>2. ASSUME NEW p \in Provers, Channel(p)
        PROVE  LockInv'
    BY <2>2, LockProver, LockHandOver, LockEnd DEF UnprofitableBatch
  <2>. QED  BY <2>1, <2>2, LockSender, LockOther DEF Next
<1>3. LockInv => LocksHaveHolder
  BY DEF LockInv
<1>. QED
  BY TypeCorrect, EndsTogether, ClaimsStayApart, <1>1, <1>2, <1>3, PTL DEF Spec
=============================================================================
