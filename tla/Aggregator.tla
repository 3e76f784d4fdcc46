----------------------------- MODULE Aggregator -----------------------------
(***************************************************************************)
(* The proving pipeline of aggregator/aggregator.go.                       *)
(*                                                                         *)
(* Each connected prover is served by a goroutine (Channel) that loops:    *)
(* build the final proof of a stored proof, else aggregate two stored      *)
(* proofs, else prove a new batch.  A fresh proof is first offered for     *)
(* verification by its own goroutine, and stored unlocked otherwise.  One  *)
(* more goroutine (sendFinalProof) settles final proofs on L1, another one *)
(* (cleanupLockedProofs) deletes rows that stayed locked for too long.     *)
(* They share the proof table, whose column generating_since is the lock   *)
(* of a row, and the two variables read by canVerifyProof.                 *)
(*                                                                         *)
(* Reading the last verified batch from L1 is a step of its own, so that   *)
(* the number may be stale when it is used.  The statements of a section   *)
(* under stateDBMutex are one action: the writers that do not take the     *)
(* mutex change rows they have locked, which such a section leaves alone.  *)
(***************************************************************************)
EXTENDS ProofStore, FiniteSets

CONSTANTS
  Provers,        \* the connected provers
  Sender,         \* the sendFinalProof goroutine
  LastBatch,      \* bound on the number of batches
  L1Sequences,    \* the sequences of batches on L1, as intervals
  Configs,        \* the configurations the process may be started with
  Faults,         \* the kinds of faults that may happen
  MaxFaults,      \* bound on the number of faults
  PromptHolders,  \* does every job end before its row's lock gets old?
  LateMining,     \* may a transaction nobody waits for still be mined?
  WrongRoot       \* batches whose proof fails the state root sanity check

Holders == Provers \cup {Sender}
Batches == 1 .. LastBatch
FaultKinds == {"prover", "storage", "settle", "timeout", "crash"}

ASSUME SenderAssumption == Sender \notin Provers
ASSUME LastBatchAssumption == LastBatch \in Nat
ASSUME SequencesAssumption ==
  /\ L1Sequences \subseteq {s \in [from : Batches, to : Batches] : s.from <= s.to}
  /\ \A b \in Batches : \E s \in L1Sequences : Contains(s, b)
  /\ \A s, t \in L1Sequences : s = t \/ Disjoint(s, t)
ASSUME ConfigAssumption ==
  /\ Configs \subseteq [backend : {"agglayer", "l1"}, profitable : BOOLEAN, stored : BOOLEAN]
  /\ Faults \subseteq FaultKinds
  /\ MaxFaults \in Nat
  /\ PromptHolders \in BOOLEAN
  /\ LateMining \in BOOLEAN
  /\ (\E c \in Configs : c.stored) => LateMining
  /\ WrongRoot \subseteq Batches

VARIABLES
  proofs,         \* the rows of aggregator.proof
  sequences,      \* the rows of aggregator.sequence
  ready,          \* batches stored together with their witness
  lastVerified,   \* last verified batch of the rollup contract
  pc,             \* where each holder is
  held,           \* the proofs each holder has in memory
  seen,           \* the last verified batch as each prover read it (0: not read)
  verifyingProof, \* a.verifyingProof
  timeReached,    \* is a.timeSendFinalProof in the past?
  abandoned,      \* settlement transactions nobody waits for any more
  monitored,      \* those of earlier lives in the ethTxManager's store, failed ones too
  config,         \* cfg.SettlementBackend, what IsProfitable answers, and whether the
                  \* ethTxManager's store outlives the process (StoragePath)
  faults          \* number of faults so far

vars == <<proofs, sequences, ready, lastVerified, pc, held, seen,
          verifyingProof, timeReached, abandoned, monitored, config, faults>>
dbVars == <<proofs, sequences, ready>>
l1Vars == <<lastVerified, abandoned, monitored>>
flags  == <<verifyingProof, timeReached, config>>

(* "idle", "aggregate" and "batch" are the entries of tryBuildFinalProof(nil),
   tryAggregateProofs and tryGenerateBatchProof; "own" is the entry of
   tryBuildFinalProof with a fresh proof. *)
ProverPC ==
  {"idle", "readStored", "findReady", "aggregate", "aggregating", "batch",
   "choose", "proving", "stuck", "own", "readOwn", "validate", "buildStored",
   "buildOwn", "sendStored", "sendOwn", "unlock", "dropped", "down"}
SenderPC == {"wait", "received", "started", "settling", "mined", "down"}

Held == {c \in [from : Batches, to : Batches, made : BOOLEAN] : c.from <= c.to}
Rows == {r \in [from : Batches, to : Batches, made : BOOLEAN, since : Since] :
           r.from <= r.to}

(* The values the tables and the variables range over; in particular each range
   of batches of a proof, aggregated ones included, is one. *)
TypeOK ==
  /\ proofs \subseteq Rows
  /\ sequences \subseteq L1Sequences
  /\ ready \subseteq Nat
  /\ lastVerified \in 0 .. LastBatch
  /\ pc \in [Holders -> ProverPC \cup SenderPC]
  /\ \A p \in Provers : pc[p] \in ProverPC
  /\ pc[Sender] \in SenderPC
  /\ held \in [Holders -> SUBSET Held]
  /\ seen \in [Provers -> 0 .. LastBatch]
  /\ verifyingProof \in BOOLEAN
  /\ timeReached \in BOOLEAN
  /\ abandoned \subseteq Held
  /\ monitored \subseteq Held
  /\ config \in Configs
  /\ faults \in 0 .. MaxFaults

Init ==
  /\ proofs = {}
  /\ sequences = {}
  /\ ready = {0}
  /\ lastVerified = 0
  /\ pc = [h \in Holders |-> IF h = Sender THEN "wait" ELSE "idle"]
  /\ held = [h \in Holders |-> {}]
  /\ seen = [p \in Provers |-> 0]
  /\ verifyingProof = FALSE
  /\ timeReached = FALSE
  /\ abandoned = {}
  /\ monitored = {}
  /\ config \in Configs
  /\ faults = 0

-----------------------------------------------------------------------------
(* Auxiliary operators of the actions. *)

Fault(kind) ==
  /\ kind \in Faults
  /\ faults < MaxFaults
  /\ faults' = faults + 1

NoFault == faults' = faults

(* The transaction sendFinalProof waits for, and all that may be mined. *)
InFlight == IF pc[Sender] = "settling" THEN held[Sender] ELSE {}

Submitted == abandoned \cup InFlight

(* The ethTxManager settles, and keeps its transactions on disk: those that fail
   as well, as handleMonitoredTxResult never returns for one of them. *)
KeepsTxs == config.backend = "l1" /\ config.stored

Goto(h, to) == pc' = [pc EXCEPT ![h] = to]

(* Holder h ends up with the proofs C in memory. *)
Keep(h, C) == held' = [held EXCEPT ![h] = C]

Forget(p) == seen' = [seen EXCEPT ![p] = 0]

(* stateDBMutex: getAndLockBatchToProve holds it while it reads L1. *)
MutexFree == \A p \in Provers : pc[p] # "choose"

(* An UPDATE that unlocks the rows of C on an error path; its own failure is
   only logged, and leaves the rows locked. *)
Release(C) ==
  \/ proofs' = UpdateGeneratedProof(proofs, C, "null")
  \/ "storage" \in Faults /\ proofs' = proofs

(* The process ends; nobody waits any more for the transactions of T. *)
ProcessEnds(T) ==
  /\ pc' = [h \in Holders |-> "down"]
  /\ held' = [h \in Holders |-> {}]
  /\ seen' = [p \in Provers |-> 0]
  /\ verifyingProof' = FALSE
  /\ timeReached' = FALSE
  /\ abandoned' = T
  /\ monitored' = IF KeepsTxs THEN monitored \cup InFlight ELSE monitored
  /\ UNCHANGED config

CanVerifyProof == timeReached /\ ~ verifyingProof

-----------------------------------------------------------------------------
(* tryBuildFinalProof *)

(* canVerifyProof, for a stored proof or for the prover's own one. *)
CheckCanVerify(p) ==
  /\ \/ pc[p] = "idle" /\ Goto(p, IF CanVerifyProof THEN "readStored" ELSE "aggregate")
     \/ pc[p] = "own"  /\ Goto(p, IF CanVerifyProof THEN "readOwn" ELSE "unlock")
  /\ NoFault
  /\ UNCHANGED <<dbVars, l1Vars, flags, held, seen>>

(* etherman.GetLatestVerifiedBatchNum, in tryBuildFinalProof or, with the mutex
   taken, in getAndLockBatchToProve. *)
GetLatestVerifiedBatchNum(p) ==
  /\ \/ pc[p] = "readStored" /\ Goto(p, "findReady")
     \/ pc[p] = "readOwn" /\ Goto(p, "validate")
     \/ pc[p] = "batch" /\ MutexFree /\ Goto(p, "choose")
  /\ seen' = [seen EXCEPT ![p] = lastVerified]
  /\ NoFault
  /\ UNCHANGED <<dbVars, l1Vars, flags, held>>

NothingReady(p) ==
  /\ pc[p] = "findReady"
  /\ MutexFree
  /\ GetProofReadyToVerify(proofs, sequences, seen[p]) = {}
  /\ Goto(p, "aggregate")
  /\ Forget(p)
  /\ NoFault
  /\ UNCHANGED <<dbVars, l1Vars, flags, held>>

(* getAndLockProofReadyToVerify; the reply to the UPDATE may get lost, and the
   row then stays locked although nobody works on it. *)
LockProofReady(p) ==
  /\ pc[p] = "findReady"
  /\ MutexFree
  /\ \E r \in GetProofReadyToVerify(proofs, sequences, seen[p]) :
       /\ proofs' = UpdateGeneratedProof(proofs, {Content(r)}, "recent")
       /\ \/ Goto(p, "buildStored") /\ Keep(p, {Content(r)}) /\ NoFault
          \/ Goto(p, "aggregate") /\ Keep(p, {}) /\ Fault("storage")
  /\ Forget(p)
  /\ UNCHANGED <<sequences, ready, l1Vars, flags>>

(* validateEligibleFinalProof *)
ValidateOwn(p) ==
  /\ pc[p] = "validate"
  /\ \E c \in held[p] :
       \/ /\ c.to <= seen[p]
          /\ proofs' = DeleteGeneratedProofs(proofs, c)
          /\ Goto(p, "dropped")
       \/ /\ Contains(c, seen[p] + 1)
          /\ Goto(p, IF CheckProofContainsCompleteSequences(sequences, c)
                       THEN "buildOwn" ELSE "unlock")
          /\ proofs' = proofs
       \/ /\ c.from > seen[p] + 1
          /\ Goto(p, "unlock")
          /\ proofs' = proofs
  /\ Forget(p)
  /\ NoFault
  /\ UNCHANGED <<sequences, ready, l1Vars, flags, held>>

(* buildFinalProof succeeds: the goroutine goes on to send the proof. *)
FinalProofBuilt(p) ==
  /\ \/ pc[p] = "buildStored" /\ Goto(p, "sendStored")
     \/ pc[p] = "buildOwn" /\ Goto(p, "sendOwn")
  /\ NoFault
  /\ UNCHANGED <<dbVars, l1Vars, flags, held, seen>>

FinalProofFails(p) ==
  /\ Fault("prover")
  /\ \/ /\ pc[p] = "buildStored"
        /\ Release(held[p])
        /\ Keep(p, {})
        /\ Goto(p, "aggregate")
     \/ /\ pc[p] = "buildOwn"
        /\ Goto(p, "unlock")
        /\ UNCHANGED <<proofs, held>>
  /\ UNCHANGED <<sequences, ready, l1Vars, flags, seen>>

(* Mutation: the prover goes on as if the final proof had not been built. *)
HandOverKeeping(p) ==
  /\ pc[Sender] = "wait"
  /\ \/ /\ pc[p] = "sendStored"
        /\ pc' = [pc EXCEPT ![Sender] = "received", ![p] = "aggregate"]
        /\ held' = [held EXCEPT ![Sender] = held[p], ![p] = {}]
     \/ /\ pc[p] = "sendOwn"
        /\ pc' = [pc EXCEPT ![Sender] = "received", ![p] = "unlock"]
        /\ held' = [held EXCEPT ![Sender] = held[p]]
  /\ NoFault
  /\ UNCHANGED <<dbVars, l1Vars, flags, seen>>

(* The unbuffered channel a.finalProof: both goroutines take part. *)
HandOver(p) ==
  /\ pc[Sender] = "wait"
  /\ \/ /\ pc[p] = "sendStored"
        /\ pc' = [pc EXCEPT ![Sender] = "received", ![p] = "aggregate"]
     \/ /\ pc[p] = "sendOwn"
        /\ pc' = [pc EXCEPT ![Sender] = "received", ![p] = "idle"]
  /\ held' = [held EXCEPT ![Sender] = held[p], ![p] = {}]
  /\ NoFault
  /\ UNCHANGED <<dbVars, l1Vars, flags, seen>>

(* The final proof has not been built: the fresh proof is stored unlocked (no
   effect when validateEligibleFinalProof deleted the row).  If the UPDATE
   fails, tryAggregateProofs reports that no proof was generated. *)
UnlockOwn(p) ==
  /\ pc[p] \in {"unlock", "dropped"}
  /\ \/ /\ proofs' = UpdateGeneratedProof(proofs, held[p], "null")
        /\ Goto(p, "idle")
        /\ NoFault
     \/ /\ Fault("storage")
        /\ \E c \in held[p] : Goto(p, IF c.from < c.to THEN "batch" ELSE "idle")
        /\ proofs' = proofs
  /\ Keep(p, {})
  /\ UNCHANGED <<sequences, ready, l1Vars, flags, seen>>

-----------------------------------------------------------------------------
(* tryAggregateProofs *)

NothingToAggregate(p) ==
  /\ pc[p] = "aggregate"
  /\ MutexFree
  /\ GetProofsToAggregate(proofs, sequences) = {}
  /\ Goto(p, "batch")
  /\ NoFault
  /\ UNCHANGED <<dbVars, l1Vars, flags, held, seen>>

(* getAndLockProofsToAggregate; the reply to the COMMIT may get lost. *)
LockProofsToAggregate(p) ==
  /\ pc[p] = "aggregate"
  /\ MutexFree
  /\ \E c \in GetProofsToAggregate(proofs, sequences) :
       LET pair == {Content(c[1]), Content(c[2])} IN
       /\ proofs' = UpdateGeneratedProof(proofs, pair, "recent")
       /\ \/ Goto(p, "aggregating") /\ Keep(p, pair) /\ NoFault
          \/ Goto(p, "batch") /\ Keep(p, {}) /\ Fault("storage")
  /\ UNCHANGED <<sequences, ready, l1Vars, flags, seen>>

(* Mutation: the bounds are taken from the wrong proofs. *)
AggregatedSwapped(x, y) == Proof(y.from, x.to, TRUE)

Aggregated(x, y) == Proof(x.from, y.to, TRUE)

ReplaceByAggregated(P, c) ==
  AddGeneratedProof(DeleteGeneratedProofs(P, c), c)

(* The prover answers and one transaction replaces the two rows.  When the
   reply to the COMMIT gets lost, the unlocking of the pair finds no rows. *)
AggregationDone(p) ==
  /\ pc[p] = "aggregating"
  /\ \E x, y \in held[p] :
       LET c == Aggregated(x, y) IN
       /\ Adjacent(x, y)
       /\ \/ /\ proofs' = ReplaceByAggregated(proofs, c)
             /\ Keep(p, {c})
             /\ Goto(p, "own")
             /\ NoFault
          \/ /\ Fault("storage")
             /\ proofs' = UpdateGeneratedProof(ReplaceByAggregated(proofs, c),
                                               held[p], "null")
             /\ Keep(p, {})
             /\ Goto(p, "batch")
  /\ UNCHANGED <<sequences, ready, l1Vars, flags, seen>>

(* The prover or the transaction fails: unlockProofsToAggregate. *)
AggregationFails(p) ==
  /\ pc[p] = "aggregating"
  /\ Fault("prover") \/ Fault("storage")
  /\ Release(held[p])
  /\ Keep(p, {})
  /\ Goto(p, "batch")
  /\ UNCHANGED <<sequences, ready, l1Vars, flags, seen>>

-----------------------------------------------------------------------------
(* tryGenerateBatchProof *)

(* The first batch above the last verified one that is in no proof. *)
NextToProve(p, b) ==
  /\ b > seen[p]
  /\ ~ CheckProofExistsForBatch(proofs, b)
  /\ \A c \in seen[p] + 1 .. b - 1 : CheckProofExistsForBatch(proofs, c)

NothingToProve(p) ==
  /\ pc[p] = "choose"
  /\ ~ \E b \in ready \cap Batches : NextToProve(p, b)
  /\ Goto(p, "idle")
  /\ Forget(p)
  /\ NoFault
  /\ UNCHANGED <<dbVars, l1Vars, flags, held>>

(* getAndLockBatchToProve.  A fault leaves the sequence stored, with or without
   the row of the batch. *)
LockBatchToProve(p) ==
  /\ pc[p] = "choose"
  /\ config.profitable
  /\ \E b \in ready \cap Batches, s \in L1Sequences :
       /\ NextToProve(p, b)
       /\ Contains(s, b)
       /\ sequences' = AddSequence(sequences, s)
       /\ \/ /\ proofs' = AddGeneratedProof(proofs, Proof(b, b, FALSE))
             /\ Keep(p, {Proof(b, b, FALSE)})
             /\ Goto(p, "proving")
             /\ NoFault
          \/ /\ proofs' \in {proofs, AddGeneratedProof(proofs, Proof(b, b, FALSE))}
             /\ Keep(p, {})
             /\ Goto(p, "idle")
             /\ Fault("storage")
  /\ Forget(p)
  /\ UNCHANGED <<ready, l1Vars, flags>>

(* A batch that is not profitable: getAndLockBatchToProve returns no batch and
   no error, and tryGenerateBatchProof dereferences the missing batch. *)
UnprofitableBatch(p) ==
  /\ pc[p] = "choose"
  /\ ~ config.profitable
  /\ \E b \in ready \cap Batches, s \in L1Sequences :
       NextToProve(p, b) /\ Contains(s, b) /\ sequences' = AddSequence(sequences, s)
  /\ ProcessEnds(Submitted)
  /\ NoFault
  /\ UNCHANGED <<proofs, ready, lastVerified>>

BatchProofDone(p) ==
  /\ pc[p] = "proving"
  /\ \E c \in held[p] :
       c.from \notin WrongRoot /\ Keep(p, {Proof(c.from, c.to, TRUE)})
  /\ Goto(p, "own")
  /\ NoFault
  /\ UNCHANGED <<dbVars, l1Vars, flags, seen>>

(* The state root sanity check fails: the goroutine loops for ever, and never
   touches the table again. *)
BatchProofWrongRoot(p) ==
  /\ pc[p] = "proving"
  /\ \E c \in held[p] : c.from \in WrongRoot
  /\ Keep(p, {})
  /\ Goto(p, "stuck")
  /\ NoFault
  /\ UNCHANGED <<dbVars, l1Vars, flags, seen>>

(* Building the input or the prover fails: the row is deleted. *)
BatchProofFails(p) ==
  /\ pc[p] = "proving"
  /\ Fault("prover")
  /\ \E c \in held[p] : \/ proofs' = DeleteGeneratedProofs(proofs, c)
                        \/ "storage" \in Faults /\ proofs' = proofs
  /\ Keep(p, {})
  /\ Goto(p, "idle")
  /\ UNCHANGED <<sequences, ready, l1Vars, flags, seen>>

(* A read of L1 or of the database fails, or a statement that has no effect. *)
ReadFails(p) ==
  /\ Fault("storage")
  /\ \/ pc[p] \in {"readStored", "findReady"} /\ Goto(p, "aggregate")
     \/ pc[p] = "aggregate" /\ Goto(p, "batch")
     \/ pc[p] \in {"batch", "choose"} /\ Goto(p, "idle")
     \/ pc[p] \in {"readOwn", "validate"} /\ Goto(p, "unlock")
  /\ Forget(p)
  /\ UNCHANGED <<dbVars, l1Vars, flags, held>>

-----------------------------------------------------------------------------
(* sendFinalProof *)

StartVerification ==
  /\ pc[Sender] = "received"
  /\ verifyingProof' = TRUE
  /\ Goto(Sender, "started")
  /\ NoFault
  /\ UNCHANGED <<dbVars, l1Vars, timeReached, config, held, seen>>

(* GetBatch fails: the proof is dropped, and its row stays locked. *)
GetBatchFails ==
  /\ pc[Sender] = "started"
  /\ Fault("storage")
  /\ verifyingProof' = FALSE
  /\ Keep(Sender, {})
  /\ Goto(Sender, "wait")
  /\ UNCHANGED <<dbVars, l1Vars, timeReached, config, seen>>

(* The transaction is handed to the ethTxManager or to the agglayer. *)
Submit ==
  /\ pc[Sender] = "started"
  /\ Goto(Sender, "settling")
  /\ NoFault
  /\ UNCHANGED <<dbVars, l1Vars, flags, held, seen>>

(* Mutation: the proof is not unlocked. *)
FailureWithoutUnlock ==
  /\ Keep(Sender, {})
  /\ verifyingProof' = FALSE
  /\ Goto(Sender, "wait")
  /\ UNCHANGED <<dbVars, lastVerified, timeReached, config, seen>>

(* Mutation: verifyingProof is not reset. *)
FailureWithoutEnd ==
  /\ Release(held[Sender])
  /\ Keep(Sender, {})
  /\ Goto(Sender, "wait")
  /\ UNCHANGED <<sequences, ready, lastVerified, flags, seen>>

(* handleFailureToAddVerifyBatchToBeMonitored *)
HandleSettlementFailure ==
  /\ Release(held[Sender])
  /\ Keep(Sender, {})
  /\ verifyingProof' = FALSE
  /\ Goto(Sender, "wait")
  /\ UNCHANGED <<sequences, ready, lastVerified, timeReached, config, seen>>

SubmitFails ==
  /\ pc[Sender] = "started"
  /\ Fault("settle")
  /\ HandleSettlementFailure
  /\ UNCHANGED <<abandoned, monitored>>

(* What the rollup contract requires of a verification of the batches of c. *)
Acceptable(c) ==
  /\ c.from <= lastVerified + 1
  /\ c.to > lastVerified
  /\ \E s \in L1Sequences : s.to = c.to

SettlementMined ==
  /\ pc[Sender] = "settling"
  /\ \E c \in held[Sender] : Acceptable(c) /\ lastVerified' = c.to
  /\ Goto(Sender, "mined")
  /\ NoFault
  /\ UNCHANGED <<dbVars, flags, held, abandoned, monitored, seen>>

(* ProcessPendingMonitoredTxs returns when no transaction it knows is pending or
   failed.  The row of the settled proof stays locked until it is cleaned up. *)
EndVerification ==
  /\ pc[Sender] = "mined"
  /\ KeepsTxs => monitored = {}
  /\ verifyingProof' = FALSE
  /\ timeReached' = FALSE
  /\ Keep(Sender, {})
  /\ Goto(Sender, "wait")
  /\ NoFault
  /\ UNCHANGED <<dbVars, l1Vars, config, seen>>

(* The agglayer never reports a transaction the contract would revert as done. *)
NotMinedByAggLayer ==
  /\ config.backend = "agglayer"
  /\ pc[Sender] = "settling"
  /\ ~ \E c \in held[Sender] : Acceptable(c)
  /\ NoFault
  /\ HandleSettlementFailure
  /\ UNCHANGED <<abandoned, monitored>>

(* A transaction to L1 that is reverted: handleMonitoredTxResult ends the process.
   It leaves the ethTxManager only if its store goes with the process. *)
SettlementReverted ==
  /\ config.backend = "l1"
  /\ pc[Sender] = "settling"
  /\ ~ \E c \in held[Sender] : Acceptable(c)
  /\ NoFault
  /\ ProcessEnds(IF config.stored THEN Submitted ELSE abandoned)
  /\ UNCHANGED <<dbVars, lastVerified>>

(* The ethTxManager reports each failed transaction it has, those of earlier lives
   of the process and those that ended one included, whenever it is waited for. *)
AbandonedReverted ==
  /\ KeepsTxs
  /\ pc[Sender] \in {"settling", "mined"}
  /\ \E c \in monitored : ~ Acceptable(c)
  /\ NoFault
  /\ ProcessEnds(Submitted)
  /\ UNCHANGED <<dbVars, lastVerified>>

(* AggLayerTxTimeout passes, or the status query fails: the proof is unlocked,
   although its transaction may have been mined or may be mined later. *)
SettlementTimeout ==
  /\ config.backend = "agglayer"
  /\ pc[Sender] \in {"settling", "mined"}
  /\ Fault("timeout")
  /\ abandoned' = Submitted
  /\ HandleSettlementFailure
  /\ UNCHANGED monitored

-----------------------------------------------------------------------------
(* The environment, the clean-up goroutine, and the life of the process. *)

(* A second transaction for the same batches, if the ethTxManager has one, fails. *)
AbandonedMined(c) ==
  /\ LateMining
  /\ c \in abandoned
  /\ Acceptable(c)
  /\ lastVerified' = c.to
  /\ abandoned' = abandoned \ {c}
  /\ monitored' \in {monitored, monitored \ {c}}
  /\ NoFault
  /\ UNCHANGED <<dbVars, flags, pc, held, seen>>

(* What the ethTxManager has stored it sends again, whatever the backend is. *)
AbandonedDropped ==
  /\ \E c \in abandoned \ monitored : abandoned' = abandoned \ {c}
  /\ NoFault
  /\ UNCHANGED <<dbVars, flags, pc, held, lastVerified, monitored, seen>>

(* The data stream handler and the witness workers complete a batch. *)
BatchReady ==
  /\ pc[Sender] # "down"
  /\ \E b \in Batches \ ready : b > lastVerified /\ ready' = ready \cup {b}
  /\ NoFault
  /\ UNCHANGED <<proofs, sequences, l1Vars, flags, pc, held, seen>>

(* timeSendFinalProof passes. *)
VerifyTimeReached ==
  /\ pc[Sender] # "down"
  /\ ~ timeReached
  /\ timeReached' = TRUE
  /\ NoFault
  /\ UNCHANGED <<dbVars, l1Vars, verifyingProof, config, pc, held, seen>>

InMemory(r) == \E h \in Holders : \E c \in held[h] : SameKey(c, r)

(* Holders are prompt when jobs, and the section under the mutex, which the
   settled job may overlap, end before the lock gets old. *)
CanGetOld(r) ==
  /\ r.since = "recent"
  /\ PromptHolders => ~ InMemory(r) /\ MutexFree

(* GeneratingProofCleanupThreshold passes for the rows locked so far. *)
LocksGetOld ==
  /\ \E r \in proofs : CanGetOld(r)
  /\ proofs' = {IF CanGetOld(r) THEN [r EXCEPT !.since = "old"] ELSE r : r \in proofs}
  /\ NoFault
  /\ UNCHANGED <<sequences, ready, l1Vars, flags, pc, held, seen>>

CleanupLocked ==
  /\ pc[Sender] # "down"
  /\ \E r \in proofs : r.since = "old"
  /\ proofs' = CleanupLockedProofs(proofs)
  /\ NoFault
  /\ UNCHANGED <<sequences, ready, l1Vars, flags, pc, held, seen>>

Crash ==
  /\ pc[Sender] # "down"
  /\ Fault("crash")
  /\ ProcessEnds(Submitted)
  /\ UNCHANGED <<dbVars, lastVerified>>

(* Start: batches below the last verified one go, with their proofs and
   sequences; locked proofs go; the last verified batch is stored.  The
   configuration is read again. *)
Restart ==
  /\ pc[Sender] = "down"
  /\ proofs' = DeleteUngeneratedProofs(
                 DeleteBatchesOlderThanBatchNumber(proofs, lastVerified))
  /\ sequences' = DeleteBatchesOlderThanBatchNumber(sequences, lastVerified)
  /\ ready' = {b \in ready : b >= lastVerified} \cup {lastVerified}
  /\ pc' = [h \in Holders |-> IF h = Sender THEN "wait" ELSE "idle"]
  /\ NoFault
  /\ config' \in Configs
  /\ UNCHANGED <<l1Vars, verifyingProof, timeReached, held, seen>>

-----------------------------------------------------------------------------

TryBuildFinalProof(p) ==
  \/ CheckCanVerify(p) \/ GetLatestVerifiedBatchNum(p) \/ NothingReady(p) \/ LockProofReady(p)
  \/ ValidateOwn(p) \/ FinalProofBuilt(p) \/ FinalProofFails(p) \/ HandOver(p) \/ UnlockOwn(p)

TryAggregateProofs(p) ==
  \/ NothingToAggregate(p) \/ LockProofsToAggregate(p)
  \/ AggregationDone(p) \/ AggregationFails(p)

TryGenerateBatchProof(p) ==
  \/ NothingToProve(p) \/ LockBatchToProve(p) \/ UnprofitableBatch(p)
  \/ BatchProofDone(p) \/ BatchProofWrongRoot(p) \/ BatchProofFails(p)

Channel(p) ==
  \/ TryBuildFinalProof(p)
  \/ TryAggregateProofs(p)
  \/ TryGenerateBatchProof(p)
  \/ ReadFails(p)

SendFinalProof ==
  \/ StartVerification \/ GetBatchFails \/ Submit \/ SubmitFails
  \/ EndVerification \/ SettlementTimeout

Settlement ==
  SettlementMined \/ NotMinedByAggLayer \/ SettlementReverted \/ AbandonedReverted

Environment == (\E c \in Held : AbandonedMined(c)) \/ AbandonedDropped

(* go a.ethTxManager.Start(): pending transactions go on after a restart. *)
EthTxManager ==
  /\ pc[Sender] # "down"
  /\ config.stored
  /\ \E c \in monitored : AbandonedMined(c)

Next ==
  \/ \E p \in Provers : Channel(p)
  \/ SendFinalProof
  \/ Settlement
  \/ Environment
  \/ BatchReady
  \/ VerifyTimeReached
  \/ LocksGetOld
  \/ CleanupLocked
  \/ Crash
  \/ Restart

Fairness ==
  /\ \A p \in Provers : WF_vars(Channel(p))
  /\ WF_vars(SendFinalProof)
  /\ WF_vars(Settlement)
  /\ SF_vars(EthTxManager)
  /\ WF_vars(BatchReady)
  /\ WF_vars(VerifyTimeReached)
  /\ SF_vars(LocksGetOld)
  /\ WF_vars(CleanupLocked)
  /\ WF_vars(Restart)

Spec == Init /\ [][Next]_vars

FairSpec == Spec /\ Fairness

-----------------------------------------------------------------------------
(* Properties.  The comment of each names what in the code could break it. *)

(* A batch is in at most one row of aggregator.proof.  Nothing in the schema
   says so: it rests on CheckProofExistsForBatch before an insertion and on the
   row locks held while two proofs are replaced by their aggregation. *)
RowsDisjoint ==
  \A r, s \in proofs : r = s \/ Disjoint(r, s)

(* No two goroutines work on the same batch: "Avoid other prover to process the
   same batch" (getAndLockBatchToProve), across proving, aggregating, building
   the final proof and settling, hand-over to sendFinalProof included. *)
ClaimsExclusive ==
  \A g, h \in Holders : g # h =>
    \A c \in held[g], d \in held[h] : Disjoint(c, d)

(* A proof some goroutine works on is locked in the table, so nobody else can
   pick it; the exception is a proof validateEligibleFinalProof deleted because
   its batches were verified meanwhile: no row overlaps it any more. *)
ClaimsLocked ==
  \A h \in Holders : \A c \in held[h] :
    IF pc[h] = "dropped"
      THEN c.to <= lastVerified /\ \A r \in proofs : Disjoint(r, c)
      ELSE \E r \in proofs : SameKey(r, c) /\ r.since = "recent"

(* Only generated proofs are unlocked, aggregated, offered for the final proof
   or settled.  The guard "proof IS NOT NULL" of the aggregation query cannot
   ensure it, because a missing proof is stored as the empty string. *)
OnlyGeneratedProofsUsed ==
  /\ \A r \in proofs : r.since = "null" => r.made
  /\ \A h \in Holders : pc[h] # "proving" => \A c \in held[h] : c.made

(* A proof lies inside one sequence of L1 or is made of whole sequences, however
   proofs were aggregated: otherwise it could never be settled. *)
RowsFollowSequences ==
  \A r \in proofs :
    \/ \E s \in L1Sequences : Within(r, s)
    \/ /\ \E s \in L1Sequences : s.from = r.from
       /\ \E t \in L1Sequences : t.to = r.to

(* What is sent to L1 is made of whole sequences, also when the proof is the
   prover's own one, and when its transaction is mined late. *)
SettlesWholeSequences ==
  \A c \in abandoned \cup held[Sender] :
    /\ \E s \in L1Sequences : s.from = c.from
    /\ \E t \in L1Sequences : t.to = c.to

Finishing(h) ==
  pc[h] \in {"buildStored", "buildOwn", "sendStored", "sendOwn",
             "received", "started", "settling"}

(* At most one final proof is on its way to L1, although verifyingProof is set
   only after sendFinalProof has received one: several provers may pass
   canVerifyProof together, and the row locks have to keep them apart. *)
SingleFinalProof ==
  \A g, h \in Holders : Finishing(g) /\ Finishing(h) => g = h

(* That final proof starts right above the last verified batch, although the
   number was read long before the transaction is sent. *)
FinalProofExtendsVerified ==
  \A h \in Holders : Finishing(h) =>
    \A c \in held[h] : c.from = lastVerified + 1

(* The row of a batch whose proof failed the state root sanity check: its prover
   waits for ever, and leaves the row to the clean-up. *)
LeftLocked(r) ==
  /\ r.from = r.to
  /\ r.from \in WrongRoot
  /\ \E p \in Provers : pc[p] = "stuck"

(* No lock leaks: while the process runs, a locked row above the last verified
   batch is being worked on.  Every error path has to unlock or delete what it
   locked (the deferred functions of the three try... operations). *)
LocksHaveHolder ==
  \A r \in proofs :
    r.since # "null" /\ r.to > lastVerified =>
      \/ pc[Sender] = "down"
      \/ InMemory(r)
      \/ LeftLocked(r)

(* An unlocked proof never gets lost: it leaves the table only on a restart
   after its first batch was verified and overtaken.  Aggregating other proofs,
   failing provers and the clean-up may not delete it. *)
UnlockedProofsKept ==
  [][\A r \in proofs : r.since = "null" =>
       \/ \E s \in proofs' : SameKey(r, s) /\ s.made
       \/ pc[Sender] = "down" /\ r.from < lastVerified]_vars

(* A proof that starts at or below the last verified batch is never selected for
   settlement: it waits for later batches to be aggregated with. *)
WaitsForMore ==
  \E r \in proofs :
    /\ r.since = "null"
    /\ r.from <= lastVerified
    /\ r.to = LastBatch

(* Every sequence is verified in the end, in spite of failures, timeouts, crashes,
   transactions mined after the aggregator has given them up, and failed ones that
   end the process at every settlement; unless one that was mined late ends inside a
   stored proof, which then has to wait for the batches that follow. *)
SequencesVerified == <>[](lastVerified = LastBatch \/ WaitsForMore)

(* The profitability checker decides whether the aggregator validates a batch
   (config.go); whatever it answers, the process goes on. *)
ProcessSurvives == pc[Sender] # "down"

(* The abstract specification, with what a row stands for: a range of batches,
   proven once a proof is stored in the row or its holder has one in memory. *)
ProvenInMemory(r) ==
  \E h \in Holders : \E c \in held[h] : SameKey(c, r) /\ c.made

poolBar ==
  {[from |-> r.from, to |-> r.to, proven |-> r.made \/ ProvenInMemory(r)] : r \in proofs}

submittedBar == {[from |-> c.from, to |-> c.to] : c \in Submitted}

Pool == INSTANCE ProofPool
          WITH pool <- poolBar, submitted <- submittedBar, verified <- lastVerified

(* The pipeline implements the pool of proofs. *)
ImplementsPool == Pool!Spec
=============================================================================
