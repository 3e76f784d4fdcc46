----------------------------- MODULE DataStream -----------------------------
(***************************************************************************)
(* How batches get into the table aggregator.batch: the handler of the     *)
(* data stream (handleReceivedDataStream), the workers that retrieve       *)
(* witnesses (retrieveWitness), the handler of reorganisations of L1       *)
(* (handleReorg) and the start of the process (Start).                     *)
(*                                                                         *)
(* The stream carries, for each batch, an entry BATCH_START, one entry per *)
(* L2 block, and an entry BATCH_END.  The transactions of a block are part *)
(* of the block.  What L1 knows of a batch (its data, the L1 info root and *)
(* the timestamp of its sequence) is a version number, which a             *)
(* reorganisation changes.  AccInputHash hashes the one of the batch       *)
(* before together with a batch's data: it stands for the sequence of all  *)
(* that was hashed.                                                        *)
(*                                                                         *)
(* The handler's error returns end the process: the stream client, which   *)
(* is external, stops it when its callback fails.  The pipeline            *)
(* (module Aggregator) is reduced to what it reads and writes here.        *)
(***************************************************************************)
EXTENDS Naturals, Sequences

CONSTANTS
  Workers,      \* the witness workers, cfg.MaxWitnessRetrievalWorkers of them
  NumBatches,   \* bound on the number of batches
  Blocks,       \* the numbers of the L2 blocks of each batch
  MaxReorgs,    \* bound on the number of reorganisations of L1
  MaxFaults,    \* bound on the number of crashes and of failing statements
  NoWitness     \* the batches the witness server never answers for

Numbers == 1 .. NumBatches

ASSUME WorkersAssumption == Workers # {}
ASSUME BoundsAssumption ==
  NumBatches \in Nat /\ MaxReorgs \in Nat /\ MaxFaults \in Nat
ASSUME WitnessAssumption == NoWitness \subseteq Numbers
ASSUME BlocksAssumption == Blocks \in [Numbers -> Seq(Nat \ {0})]

VARIABLES
  version,    \* the version of each batch on L1
  virtual,    \* the last virtual batch of L1
  verified,   \* the last verified batch of L1
  batches,    \* aggregator.batch: a function of the numbers of the stored batches
  proofs,     \* aggregator.proof: [from, to, of], of what the proof is
  next,       \* the next entry of the stream, [batch, entry]
  current,    \* currentStreamBatch(Raw) and currentStreamL2Block: [batch, raw, open]
  handler,    \* where the stream handler is
  job,        \* the dbBatch it is about to store
  worker,     \* the copy of a batch each witness worker works on
  reorg,      \* progress of a reorganisation: "none", "detected", "halting", "halted"
  reorgs,     \* number of reorganisations so far
  faults      \* number of faults so far

vars == <<version, virtual, verified, batches, proofs, next, current, handler,
          job, worker, reorg, reorgs, faults>>
l1 == <<version, virtual, verified>>
stream == <<next, current, handler, job>>

(* What is hashed for a batch, and AccInputHash as L1 computes it. *)
Item(n, v, blocks) == [batch |-> n, version |-> v, blocks |-> blocks]
OnL1(n) == Item(n, version[n], Blocks[n])
AccInputHashOnL1(n) == [m \in 1 .. n |-> OnL1(m)]

NoBatch == [batch |-> 0]
Free == NoBatch
NoJob == NoBatch
Empty == [batch |-> 0, raw |-> <<>>, open |-> 0]

(* A row: what the batch is, its AccInputHash, and whether it has a witness. *)
DBBatch(item, acc, witness) ==
  [batch |-> item.batch, item |-> item, acc |-> acc, witness |-> witness]

AddBatch(T, x) ==
  [n \in DOMAIN T \cup {x.batch} |-> IF n = x.batch THEN x ELSE T[n]]

Deleting(T, N) == [n \in DOMAIN T \ N |-> T[n]]

Up == handler # "down"
Halted == reorg = "halted"

-----------------------------------------------------------------------------
(* Start *)

(* Mutation: the hash is not taken from L1. *)
WithoutAccInputHash(n) == <<>>

GetVerifiedBatchAccInputHash(n) == AccInputHashOnL1(n)

(* The row Start stores for the last verified batch. *)
DummyBatch(n) ==
  DBBatch(Item(n, IF n = 0 THEN 0 ELSE version[n], <<>>),
          GetVerifiedBatchAccInputHash(n), TRUE)

(* Mutation: the stream starts with the last verified batch. *)
AtLastVerified(n) == [batch |-> n, entry |-> 1]

BookMark(n) == [batch |-> n + 1, entry |-> 1]

Init ==
  /\ version = [n \in Numbers |-> 0]
  /\ virtual = 0
  /\ verified = 0
  /\ batches = [n \in {0} |-> DummyBatch(0)]
  /\ proofs = {}
  /\ next = BookMark(0)
  /\ current = Empty
  /\ handler = "entry"
  /\ job = NoJob
  /\ worker = [w \in Workers |-> Free]
  /\ reorg = "none"
  /\ reorgs = 0
  /\ faults = 0

(* Batches below the last verified one are deleted, and the proofs that start
   there with them; then the last verified batch is stored, and the stream is
   read from the one that follows. *)
Start ==
  /\ handler = "down"
  /\ batches' = AddBatch(Deleting(batches, {n \in DOMAIN batches : n < verified}),
                         DummyBatch(verified))
  /\ proofs' = {r \in proofs : r.from >= verified}
  /\ next' = BookMark(verified)
  /\ handler' = "entry"
  /\ UNCHANGED <<l1, current, job, worker, reorg, reorgs, faults>>

(* The end of the process: all that is in memory is lost. *)
ProcessEnds ==
  /\ handler' = "down"
  /\ current' = Empty
  /\ job' = NoJob
  /\ worker' = [w \in Workers |-> Free]
  /\ reorg' = "none"
  /\ next' = BookMark(0)

(* A crash, or an error return of the handler. *)
Crash ==
  /\ Up
  /\ faults < MaxFaults
  /\ faults' = faults + 1
  /\ ProcessEnds
  /\ UNCHANGED <<l1, batches, proofs, reorgs>>

(* "It is safe to manually restart the aggregator". *)
OperatorStops ==
  /\ Halted
  /\ ProcessEnds
  /\ UNCHANGED <<l1, batches, proofs, reorgs, faults>>

-----------------------------------------------------------------------------
(* handleReceivedDataStream *)

(* An entry that arrives while the aggregator is halted is ignored. *)
Receive ==
  /\ handler = "entry"
  /\ next.batch \in Numbers
  /\ ~ Halted

Advance == next' = [next EXCEPT !.entry = @ + 1]

BatchStart ==
  /\ Receive
  /\ next.entry = 1
  /\ current' = [current EXCEPT !.batch = next.batch]
  /\ Advance
  /\ UNCHANGED <<l1, batches, proofs, handler, job, worker, reorg, reorgs, faults>>

(* The previous block, if any, is complete. *)
WithOpenBlock(c) == IF c.open = 0 THEN c.raw ELSE Append(c.raw, c.open)

L2Block ==
  /\ Receive
  /\ next.entry - 1 \in DOMAIN Blocks[next.batch]
  /\ current' = [current EXCEPT !.raw = WithOpenBlock(current),
                                !.open = Blocks[next.batch][next.entry - 1]]
  /\ Advance
  /\ UNCHANGED <<l1, batches, proofs, handler, job, worker, reorg, reorgs, faults>>

BatchEnd ==
  /\ Receive
  /\ next.entry = Len(Blocks[next.batch]) + 2
  /\ current' = [current EXCEPT !.raw = WithOpenBlock(current)]
  /\ handler' = "virtual"
  /\ UNCHANGED <<l1, batches, proofs, next, job, worker, reorg, reorgs, faults>>

(* Wait until L1 has the virtual batch and its sequence. *)
ReadL1 ==
  /\ handler = "virtual"
  /\ current.batch <= virtual
  /\ job' = [batch |-> current.batch,
             item |-> Item(current.batch, version[current.batch], current.raw)]
  /\ handler' = "hash"
  /\ UNCHANGED <<l1, batches, proofs, next, current, worker, reorg, reorgs, faults>>

(* Mutation: the witness in the table is not looked at. *)
WithoutWitness(n) == FALSE

(* "Check if the batch is already in the DB to keep its witness". *)
StoredWitness(n) == n \in DOMAIN batches /\ batches[n].witness

(* GetBatch of the batch before, for AccInputHash, and of the batch itself. *)
CalculateAccInputHash ==
  /\ handler = "hash"
  /\ job.batch - 1 \in DOMAIN batches
  /\ job' = DBBatch(job.item, Append(batches[job.batch - 1].acc, job.item),
                    StoredWitness(job.batch))
  /\ handler' = "store"
  /\ UNCHANGED <<l1, batches, proofs, next, current, worker, reorg, reorgs, faults>>

(* The batch before is not in the table: the handler returns an error. *)
PreviousBatchMissing ==
  /\ handler = "hash"
  /\ job.batch - 1 \notin DOMAIN batches
  /\ ProcessEnds
  /\ UNCHANGED <<l1, batches, proofs, reorgs, faults>>

(* Mutation: the open block is not reset. *)
KeepingOpenBlock == [current EXCEPT !.raw = <<>>]

Reset == [current EXCEPT !.raw = <<>>, !.open = 0]

NextBatch ==
  /\ current' = Reset
  /\ next' = [batch |-> next.batch + 1, entry |-> 1]
  /\ handler' = "entry"

StoreBatch ==
  /\ handler = "store"
  /\ batches' = AddBatch(batches, job)
  /\ IF job.witness
       THEN NextBatch /\ job' = NoJob
       ELSE handler' = "handOver" /\ UNCHANGED <<next, current, job>>
  /\ UNCHANGED <<l1, proofs, worker, reorg, reorgs, faults>>

(* Mutation: a batch waits until the witnesses of all those before it are there. *)
HandOverInTurn(w) ==
  /\ handler = "handOver"
  /\ \A v \in Workers : worker[v] = Free
  /\ worker' = [worker EXCEPT ![w] = job]
  /\ job' = NoJob
  /\ NextBatch
  /\ UNCHANGED <<l1, batches, proofs, reorg, reorgs, faults>>

(* The unbuffered channel witnessRetrievalChan: handler and worker take part. *)
HandOver(w) ==
  /\ handler = "handOver"
  /\ worker[w] = Free
  /\ worker' = [worker EXCEPT ![w] = job]
  /\ job' = NoJob
  /\ NextBatch
  /\ UNCHANGED <<l1, batches, proofs, reorg, reorgs, faults>>

-----------------------------------------------------------------------------
(* retrieveWitness *)

(* getWitness answers, after any number of retries; otherwise the worker retries
   for ever. *)
GetWitness(w) ==
  /\ worker[w] # Free
  /\ worker[w].batch \notin NoWitness
  /\ ~ worker[w].witness
  /\ worker' = [worker EXCEPT ![w].witness = TRUE]
  /\ UNCHANGED <<l1, batches, proofs, stream, reorg, reorgs, faults>>

(* The worker's copy replaces what is in the table. *)
StoreWitness(w) ==
  /\ worker[w] # Free
  /\ worker[w].witness
  /\ batches' = AddBatch(batches, worker[w])
  /\ worker' = [worker EXCEPT ![w] = Free]
  /\ UNCHANGED <<l1, proofs, stream, reorg, reorgs, faults>>

-----------------------------------------------------------------------------
(* handleReorg.  The synchronizer, which calls it, waits for it. *)

DetectReorg ==
  /\ Up
  /\ reorg = "none"
  /\ reorgs < MaxReorgs
  /\ \E n \in verified .. virtual :
       /\ n < virtual
       /\ version' = [m \in Numbers |-> IF m > n THEN version[m] + 1 ELSE version[m]]
       /\ virtual' = n
  /\ reorg' = "detected"
  /\ reorgs' = reorgs + 1
  /\ UNCHANGED <<verified, batches, proofs, stream, worker, faults>>

(* Deleting a batch deletes the proofs that start with it. *)
DeleteBatchesNewerThanBatchNumber ==
  /\ reorg = "detected"
  /\ batches' = Deleting(batches, {n \in DOMAIN batches : n > virtual})
  /\ proofs' = {r \in proofs : r.from <= virtual}
  /\ reorg' = "halting"
  /\ UNCHANGED <<l1, stream, worker, reorgs, faults>>

(* The last virtual batch cannot be read, or the deletion fails: the error is logged,
   and the aggregator is halted as well. *)
DeletionFails ==
  /\ reorg = "detected"
  /\ faults < MaxFaults
  /\ faults' = faults + 1
  /\ reorg' = "halting"
  /\ UNCHANGED <<l1, batches, proofs, stream, worker, reorgs>>

Halt ==
  /\ reorg = "halting"
  /\ reorg' = "halted"
  /\ UNCHANGED <<l1, batches, proofs, stream, worker, reorgs, faults>>

-----------------------------------------------------------------------------
(* The rest of the system. *)

(* One more batch is sequenced on L1. *)
Sequence ==
  /\ reorg = "none"
  /\ virtual < NumBatches
  /\ virtual' = virtual + 1
  /\ UNCHANGED <<version, verified, batches, proofs, stream, worker, reorg, reorgs, faults>>

Covers(r, n) == r.from <= n /\ n <= r.to

(* tryGenerateBatchProof: AccInputHash is the one of the row of the batch before. *)
ProveBatch ==
  /\ Up /\ ~ Halted
  /\ \E n \in Numbers \cap DOMAIN batches :
       /\ n > verified
       /\ batches[n].witness
       /\ n - 1 \in DOMAIN batches
       /\ ~ \E r \in proofs : Covers(r, n)
       /\ proofs' = proofs \cup
            {[from |-> n, to |-> n, old |-> batches[n - 1].acc, of |-> <<batches[n].item>>]}
  /\ UNCHANGED <<l1, batches, stream, worker, reorg, reorgs, faults>>

(* tryAggregateProofs: the two proofs have to fit together. *)
AggregateProofs ==
  /\ Up /\ ~ Halted
  /\ \E r, s \in proofs :
       /\ r.to + 1 = s.from
       /\ s.old = r.old \o r.of
       /\ proofs' = (proofs \ {r, s}) \cup
            {[from |-> r.from, to |-> s.to, old |-> r.old, of |-> r.of \o s.of]}
  /\ UNCHANGED <<l1, batches, stream, worker, reorg, reorgs, faults>>

(* The rollup contract accepts a proof of what it has. *)
VerifyBatches ==
  /\ reorg = "none"
  /\ \E r \in proofs :
       /\ r.from = verified + 1
       /\ r.to <= virtual
       /\ r.old \o r.of = AccInputHashOnL1(r.to)
       /\ verified' = r.to
       /\ proofs' = proofs \ {r}
  /\ UNCHANGED <<version, virtual, batches, stream, worker, reorg, reorgs, faults>>

HandleReceivedDataStream ==
  \/ BatchStart \/ L2Block \/ BatchEnd \/ ReadL1 \/ CalculateAccInputHash
  \/ PreviousBatchMissing \/ StoreBatch \/ \E w \in Workers : HandOver(w)

RetrieveWitness(w) == GetWitness(w) \/ StoreWitness(w)

HandleReorg == DeleteBatchesNewerThanBatchNumber \/ DeletionFails \/ Halt

Pipeline == ProveBatch \/ AggregateProofs \/ VerifyBatches

Next ==
  \/ HandleReceivedDataStream
  \/ \E w \in Workers : RetrieveWitness(w)
  \/ DetectReorg
  \/ HandleReorg
  \/ Sequence
  \/ Pipeline
  \/ Crash
  \/ OperatorStops
  \/ Start

Fairness ==
  /\ WF_vars(HandleReceivedDataStream)
  /\ \A w \in Workers : WF_vars(RetrieveWitness(w))
  /\ WF_vars(HandleReorg)
  /\ WF_vars(Sequence)
  /\ WF_vars(OperatorStops)
  /\ WF_vars(Start)

Spec == Init /\ [][Next]_vars

FairSpec == Spec /\ Fairness
-----------------------------------------------------------------------------
(* Properties.  The comment of each names what in the code could break it. *)

(* The values of the tables and of the variables. *)
TypeOK ==
  /\ version \in [Numbers -> 0 .. MaxReorgs]
  /\ virtual \in 0 .. NumBatches
  /\ verified \in 0 .. virtual
  /\ DOMAIN batches \subseteq 0 .. NumBatches
  /\ \A n \in DOMAIN batches : batches[n].batch = n /\ batches[n].witness \in BOOLEAN
  /\ \A r \in proofs : r.from \in Numbers /\ r.to \in r.from .. NumBatches
  /\ next.batch \in 1 .. NumBatches + 1
  /\ current.batch \in 0 .. NumBatches
  /\ handler \in {"entry", "virtual", "hash", "store", "handOver", "down"}
  /\ job.batch \in 0 .. NumBatches
  /\ \A w \in Workers : worker[w].batch \in 0 .. NumBatches
  /\ reorg \in {"none", "detected", "halting", "halted"}
  /\ reorgs \in 0 .. MaxReorgs
  /\ faults \in 0 .. MaxFaults

(* A batch as L1 has it, or had it before a reorganisation, with all its blocks. *)
OnceOnL1(n, item) == \E v \in 0 .. version[n] : item = Item(n, v, Blocks[n])

(* Every stored batch, whether the handler or a witness worker stored it last, is one
   that L1 has, or had before a reorganisation, with all its blocks, and its
   AccInputHash is made of such batches from the first one on, none left out or
   hashed twice: across restarts that begin in the middle of the stream, workers that
   write back an old copy, and reorganisations at any moment.  Without a
   reorganisation this is the AccInputHash L1 computes. *)
BatchesMatchL1 ==
  \A n \in DOMAIN batches :
    /\ Len(batches[n].acc) = n
    /\ \A m \in 1 .. n : OnceOnL1(m, batches[n].acc[m])

(* A witness, once retrieved, is not lost: the handler, which stores the batch
   without a witness when the stream is read again after a restart, must not
   overwrite it; only a restart after its verification, or a reorganisation,
   deletes it. *)
WitnessKept ==
  [][\A n \in DOMAIN batches :
       batches[n].witness /\ n >= verified /\ reorg = "none"
         => n \in DOMAIN batches' /\ batches'[n].witness]_vars

(* Every batch gets stored as L1 has it, and with its witness if the witness server
   ever answers for it, in spite of crashes, and of a reorganisation after which the
   operator restarts the process: the stream is read again from the last verified
   batch.  A batch whose witness never comes holds back one worker, and no other
   batch as long as there are more workers than such batches. *)
BatchesGetReady ==
  <>[](\A n \in Numbers : n > verified =>
         /\ n \in DOMAIN batches
         /\ n \notin NoWitness => batches[n].witness
         /\ batches[n].acc = AccInputHashOnL1(n))

(* handleReorg, when it halts the aggregator: "Reorged data has been delete so
   it is safe to manually restart the aggregator"; in particular no proof of a
   reorganised batch is left, since its batches would not be proven again. *)
ReorgedProofsDeleted ==
  Halted =>
    \A r \in proofs : \A i \in DOMAIN r.of : r.of[i].version = version[r.of[i].batch]
=============================================================================
