# Formal model of the zkEVM aggregator

The aggregator turns the batches of an L2 network into proofs that L1 verifies. It hands batches to
provers over gRPC, has their proofs aggregated two by two, has a final proof made of an aggregated
proof, and settles that on L1, directly or through the agglayer. What it is working on is kept in
PostgreSQL, in a table whose column `generating_since` is a lock that goroutines take, give back,
forget when they die, and lose when they are slow. This directory models that part of the program in
TLA+, together with the part that fills the table of batches from the data stream of the sequencer, the
conversation with a prover, and the input a prover is given (batch codec, L1 info tree). All is checked
with TLC, and every safety property of the passing runs is proved with TLAPS, one of them
(`RowsDisjoint`) under an assumption that one of the runs does without.

## 1. Inventory

| part | code | state | operations | status |
|---|---|---|---|---|
| proving pipeline | `aggregator/aggregator.go` | `stateDBMutex`, `verifyingProof`, `timeSendFinalProof`, the channel `finalProof`, one goroutine per prover | `Channel`, `tryBuildFinalProof`, `tryAggregateProofs`, `tryGenerateBatchProof`, `cleanupLockedProofs`, `Start` | `Aggregator` |
| proof and sequence tables | `state/pgstatestorage/proof.go`, `sequence.go` | rows with a range of batches, a proof, a lock | the SQL statements | `ProofStore` |
| settlement | `sendFinalProof`, `settleDirect`, `settleWithAggLayer`, `agglayer_client.go` | the final proof under way | submit, wait, time out, unlock | `Aggregator` |
| data stream handler, witness workers, reorgs | `handleReceivedDataStream`, `retrieveWitness`, `handleReorg` | the batch being assembled, `halted`, the batch table | entries of the stream, witness retrieval, deletion of reorged batches | `DataStream` |
| prover protocol | `aggregator/prover/prover.go` | one stream per connection, `proof.ProofID` | status, request and answer, polling of a job | `ProverChannel` |
| prover input, L1 info tree | `buildInputProver`, `l1infotree/` | the tree | decode the batch, leaves and Merkle proofs, add a leaf | `ProverInput`, `L1InfoTree` |
| accumulated input hash | `accinputhash/`, `calculateAccInputHash` | `AccInputHash` of each batch | hash chain | `DataStream` |
| batch codec | `state/encoding_batch_v2.go`, `state/helper.go` | the bytes encoded so far | encode, decode | `BatchCodec` |
| keys of the state tree | `merkletree/` | none | arithmetic on limbs | not modelled: no caller in the aggregator |
| rollup contract, ethTxManager, agglayer, L1 synchronizer | other repositories | last verified batch, transactions | | external, as the code uses them |
| configuration, commands, logs, metrics, events, database connection, generated code | `config/`, `cmd/`, `log/`, `metrics/`, `event/`, `db/`, `*.pb.go`, `etherman/smartcontracts/` | | | not modelled: I/O and start-up without a protocol of their own |

How they interact. The stream handler stores a batch and gives it to a witness worker over an
unbuffered channel; the worker stores it again with its witness, and the batch is ready to be
proven. A prover's goroutine picks the first ready batch without a proof, inserts a locked row, waits
for the prover, tries to settle the new proof at once, and unlocks the row otherwise. It prefers to
aggregate two adjacent unlocked proofs, and prefers to that to build the final proof of an unlocked
proof that starts right above the last verified batch. A final proof goes over the unbuffered channel
`finalProof` to `sendFinalProof`, which settles one at a time.

What is hard: the goroutines read L1 and the table at different moments; `verifyingProof` is set by
another goroutine than the one that tested it; some deletions and updates run outside `stateDBMutex`;
replies of the database get lost; a settlement times out and is mined all the same; the process may
end at any line. The list of hazards in PROJECT.json has one entry for each, with its line.

What makes each part correct:

- tables: no batch is in two rows, a proof can still be settled after it was aggregated, only
  generated proofs are used;
- pipeline: no batch is worked on twice, what is worked on is locked, locks are given back, stored
  proofs are not lost, every batch is verified in the end;
- settlement: one final proof at a time, which continues the last verified batch, whole sequences only;
- data stream: the stored batches are those of the stream, with the chain of accumulated input
  hashes, also after restarts and reorgs; no stale copy of a batch overwrites a newer one;
- prover protocol: an answer belongs to the request it is taken for, a prover has one job at a time, is
  of the right fork, and no goroutine waits for ever;
- prover input: decoding undoes encoding, broken data is not misread, Merkle proofs lead to the root of
  the batch, whatever happens on L1 meanwhile.

## 2. Modules

- `ProofStore`: the rows of `aggregator.proof` and `aggregator.sequence` and the statements run on
  them, as operators on sets. A proof is a range `[from, to]` and whether its text has been generated;
  `generating_since` becomes `"null"`, `"recent"` or `"old"`, relative to
  `GeneratingProofCleanupThreshold`.
- `Aggregator` (extends `ProofStore`): the pipeline as a state machine.
- `ProofPool`: the abstract specification, a pool of disjoint ranges that are claimed, proven, merged,
  submitted and verified. `Aggregator!ImplementsPool` states the refinement: a row maps to its range,
  *proven* when its text is stored or its holder has it in memory.
- `DataStream`: how batches get into the table: the stream handler, the witness workers, the handler of
  reorganisations, the start of the process, and the pipeline reduced to what it reads and writes there.
- `ProverChannel`: the conversation with one prover, over connections that overlap.
- `L1InfoTree`: the Merkle tree as operators, with reference definitions.
- `BatchCodec`: encoder and decoders of batches as operators on strings of bytes.
- `ProverInput` (extends the two): encoder, L1 and `buildInputProver` as a state machine.
- `MCAggregator`, `MCDataStream`, `MCProverInput`: the instances for TLC.
- `AggregatorProofs`, and on top of it `ExclusiveProofs`, and on top of that `FinalProofs` and
  `PoolProofs`; `DataStreamProofs`; `ProverChannelProofs`; `L1InfoTreeProofs`, and on top of it
  `ProverInputProofs`, which also has the lemmas about `BatchCodec`: theorems.

`Aggregator` and `DataStream` meet in the table of batches: the first sees of the second that a batch
gets ready, the second of the first that ranges of batches are proven and verified. `ProverChannel` is
the inside of what `Aggregator` shows as `FinalProofBuilt`, `AggregationDone`, `BatchProofDone` and their
failures; it leaves open what the tables decide. `ProverInput` is what happens in `buildInputProver`
before a batch is sent to the prover, where `Aggregator` has one possible failure.

### `Aggregator`: variables and code

| variable | code |
|---|---|
| `proofs`, `sequences` | the two tables |
| `ready` | the rows of `aggregator.batch` that have a witness |
| `lastVerified` | the rollup contract's last verified batch |
| `pc`, `held`, `seen` | per goroutine: where it is, the proofs it has in memory, the last verified batch as it read it |
| `verifyingProof`, `timeReached` | `a.verifyingProof`, and whether `timeSendFinalProof` has passed |
| `abandoned` | transactions submitted by an earlier life of the process or given up after a timeout, which may still be mined |
| `monitored` | transactions of earlier lives of the process in the store of the ethTxManager, failed ones too |
| `config` | `cfg.SettlementBackend`, the answer of the profitability checker, and whether `EthTxManager.StoragePath` names a file, read at each start |
| `faults` | bound on failures |

### `Aggregator`: actions and code

- `TryBuildFinalProof(p)`: `CheckCanVerify` (the flag and the time), `GetLatestVerifiedBatchNum`,
  `LockProofReady` or `NothingReady` (for `proof == nil`), `ValidateOwn` (for the prover's own proof),
  `FinalProofBuilt` or `FinalProofFails`, `HandOver` (the channel, both goroutines at once), and
  `UnlockOwn`, the caller's update when no final proof was built.
- `TryAggregateProofs(p)`: `LockProofsToAggregate` or `NothingToAggregate`, then `AggregationDone` (one
  transaction) or `AggregationFails`.
- `TryGenerateBatchProof(p)`: `GetLatestVerifiedBatchNum` with the mutex taken, then
  `LockBatchToProve`, `NothingToProve` or `UnprofitableBatch`, then `BatchProofDone`,
  `BatchProofFails` or `BatchProofWrongRoot`.
- `ReadFails(p)`: any read that fails, or a statement that fails without effect.
- `SendFinalProof`, `Settlement`, `Environment`: the settlement goroutine, the fate of the transaction
  it waits for, and of those nobody waits for.
- `LocksGetOld`, `CleanupLocked`: time, and the clean-up goroutine. `Crash`, `Restart`: the end and the
  start of the process.

A step ends where another goroutine may run in between *and be noticed*: the read of the last verified
batch is a step apart from the statements that use it, every wait for a prover or for L1 is one, and
the deletion in `validateEligibleFinalProof` is a step apart from the update of the caller. The
statements of a section under `stateDBMutex` are one step: the writers that do not take the mutex
change rows that they have locked, and the section skips locked rows. `getAndLockBatchToProve` alone
is two steps, with the mutex held between them (`MutexFree`), because it waits for L1 inside.

### Failures

Every kind is a member of the constant `Faults`, at most `MaxFaults` of them happen:
`prover` (building an input or a proof fails), `storage` (a read or a statement fails, or it succeeds
and its reply is lost, so that the code believes it failed), `settle` (a submission fails), `timeout`
(`AggLayerTxTimeout`), `crash`. The update that unlocks rows on an error path may fail too (`Release`),
without counting, since the code only logs it. A reverted transaction ends the process when it was
sent to L1 directly (`SettlementReverted`: `handleMonitoredTxResult` calls `Fatal`), and counts as a failed
settlement with the agglayer (`NotMinedByAggLayer`).

The ethTxManager is external. By default its store is in memory and gone with the process. With a store on
disk (`stored`) it knows the transactions of earlier lives: `ProcessPendingMonitoredTxs` returns when none
of them is pending or failed, and reports each failed one first. The code acknowledges a result by
returning from `handleMonitoredTxResult`, which `Fatal` does not, so a failed transaction ends the process at
*every* settlement after that (`AbandonedReverted`, which leaves `monitored` alone). What makes the
aggregator get on in spite of it is that each life submits a transaction before it ends, and that the
ethTxManager, started again with the process, has it mined (`EthTxManager`, `AbandonedMined`).

### `DataStream`: state, actions and code

| variable | code |
|---|---|
| `batches` | `aggregator.batch`: what each batch is, its `AccInputHash`, whether it has a witness |
| `proofs` | `aggregator.proof`, with what each proof is a proof of |
| `next`, `current` | the next entry of the stream; `currentStreamBatch`, `currentStreamBatchRaw`, `currentStreamL2Block` |
| `handler`, `job` | where `handleReceivedDataStream` is in a BATCH_END entry, and its `dbBatch` |
| `worker` | the copy of a batch that each `retrieveWitness` goroutine has |
| `reorg` | a reorganisation is detected, its batches are deleted, `halted` is set |
| `version`, `virtual`, `verified` | L1: data of each batch, last virtual batch, last verified batch |

Each entry of the stream is a step (`BatchStart`, `L2Block`); BATCH_END takes several, because it waits
for L1 (`ReadL1`), reads the table (`CalculateAccInputHash`), writes it (`StoreBatch`) and waits for a
free worker (`HandOver`, the unbuffered channel). A worker retries until it has a witness
(`GetWitness`), for ever if the batch is in `NoWitness`, and overwrites the row with its copy
(`StoreWitness`). `handleReorg` deletes (`DeleteBatchesNewerThanBatchNumber`) or fails to
(`DeletionFails`), then halts in both cases (`Halt`); an operator restarts a halted process.
`AccInputHash` is the sequence of all that was hashed, so two hashes are equal when all batches up to
there are. What is abstracted: a reorganisation changes the version of a batch; transactions belong to
their block; the data of the stream is the data on L1 (the code logs a difference); whether a witness
still fits a batch after a reorganisation is not modelled.

The stream client is external; it ends the process when the handler returns an error, so that the
buffers of a batch whose BATCH_END failed are never used again. The L1 synchronizer, external too,
waits for `handleReorg`, which does not return.

### `ProverChannel`: state, actions and code

| variable | code |
|---|---|
| `pc` | where the goroutine that serves each connection is in `Channel` and in the calls it makes |
| `proofID` | `proof.ProofID`, the id of the job the goroutine asked for last |
| `live`, `prover`, `jobs` | the prover process: the stream that is up, its fork ID, its jobs |
| `alive`, `halted` | whether the aggregator runs; `a.halted` |

`New` and `SupportsForkID` run once for each connection, `IsIdle` at the head of the loop. `Request` is
`FinalProof`, `AggregatedProof` and `BatchProof`, `NoRequest` their refusals and the cases in which there
is nothing to ask for. `waitProof` repeats its request while the answer is PENDING, which changes
nothing, so it is a goroutine that stays; `NoProof`, `WaitRecursiveProof` and `WaitFinalProof` are the
answers that end it. A prover that refuses a request is taken not to have started the job: an answer
`RESULT_INTERNAL_ERROR` to a request whose job runs all the same, as one may read `aggregator.proto:161`
("when delivering the response"), is not modelled. The prover is external: it computes or fails (`Compute`), loses its stream
(`StreamBreaks`), starts again, perhaps as another version (`Reboot`, `Booted`), and connects again while
the goroutine of the old stream may still be waiting (`Connect`). A call is one action: a stream carries
one request at a time and nobody else writes on it. An id is used again when its job is over and no
goroutine knows it, which keeps the state finite and excludes no interleaving.

The text of a proof is one of five kinds, by what `GetStateRootFromProof` makes of it: the batch's state
root, another one, no publics (a mock prover's), publics that `encoding/json` rejects, publics that end
the process. The first three are what provers are known to return; `SanityCheck` adds the fourth. The
fifth ends the process (`log.Fatal`, an index out of range), as `WaitRecursiveProof` says; the theorems
that need its absence assume it.

### `ProverInput`, `BatchCodec`, `L1InfoTree`: state, actions and code

| variable | code |
|---|---|
| `leaves`, `reorgs` | the leaves of the L1 info tree, as the L1 synchronizer has them |
| `tree` | an `L1InfoTree`: `count`, `siblings`, `currentRoot` |
| `batchData`, `blocks`, `orphans` | `BatchV2Encoder.data`, and what was added to it |
| `batch` | the closed batch: kind and `L1InfoRoot` |
| `build` | where `buildInputProver` is, the leaves it has read, the data it has collected |

`AddBlockHeader` and `AddTransaction` are the encoder's two methods, `Close` the sequencing of the batch
(external). `BuildInputProver` decodes the batch and reads the leaves of its root, `AddL1Data` takes one
block (the leaf is read separately), `BuildFails` is a failed read, `Retry` the next attempt. `L1Grows`
and `L1Reorg` happen between any two of these reads.

Bytes are digits of a smaller base, so that a string with a list longer than a short one, and one whose
length takes two bytes, is within TLC's reach. The arithmetic on the RLP headers is the program's, on
numbers without a bound: lengths of eight bytes, for which `uint64` sums may wrap
(`encoding_batch_v2.go:299`, `357`) and against which `helper.go:106-109` and `125-135` have guards, are
left out, since no property is about such data. The
base is chosen so that the header of a long list, the marker of a block and a percentage may be any byte
of a transaction as well. Fields of a transaction but the ones the decoder looks at are one string of
bytes. Hashes are pairs, hence free of collisions. The tree is compared with the tree of all
`2 ^ Height` leaves, computed from the top.

The decoders go through the data in a loop; `Decoded` and `DecodedTxs` say for each position what the
rest of the data decodes to, which is the same result and can be reasoned about from the end backwards.
`CodecAssumption`, `InputAssumption` and `RawTxsAssumption` say what the program guarantees by its
types: bytes are below the base, and RLP's headers and the signature's v are bytes; times and indices
take four bytes; the tree holds the leaves; a transaction that comes encoded is one that
`prepareRLPTxData` encoded, and r, s and the chain's identifier have the sizes they are written in.

### What is assumed

- `PromptHolders`: a job ends before its lock gets old. The code does not enforce this; the run
  `StaleLock` shows what happens otherwise, and everything about exclusive claims is stated under it.
  With it the time a lock takes to get old also covers the section under the mutex.
- `LateMining = FALSE`: a transaction that nobody waits for is not mined any more. With late mining a
  proof may be verified and deleted by `validateEligibleFinalProof` while another prover, which read
  the old number of verified batches under the mutex, inserts the same range again; the update of the
  first one then unlocks the row of the second. `ClaimsExclusive` and `ClaimsLocked` are therefore
  stated without late mining; `RowsDisjoint`, `RowsFollowSequences` and `SettlesWholeSequences` are
  checked, and the last two proved, with it. A store of the ethTxManager on disk is late mining after a
  crash, so `stored` needs it (`ConfigAssumption`).
- The contract accepts a verification that starts at or below the next batch and ends above the last
  verified one, at the end of a sequence (`Acceptable`); a proof is valid for its range.
- The synchronizer knows the sequence of every stored batch. If it does not yet,
  `getAndLockBatchToProve` does nothing, which the model shows as a batch that is not ready.
- One aggregator process uses the database. `Aggregator` has no reorganisations; `DataStream` has.

## 3. What TLC checks

`Stream`, `NoWitness` and `Reorg` use `MCDataStream`, `ProverInput` uses `MCProverInput`, `Prover` and `SanityCheck`
use `ProverChannel` itself, the others `MCAggregator`. `PROJECT.json` states what each shows; each
property has a mutated definition (dropped guard, wrong bound, missing reset) that must violate it, next
to the definition it replaces.

| run | instance | properties |
|---|---|---|
| `Pipeline` | 3 provers, 3 batches, sequences {1}, {2,3}, L1, profitable or not, 2 faults of 4 kinds | `TypeOK`, `RowsDisjoint`, `ClaimsExclusive`, `ClaimsLocked`, `OnlyGeneratedProofsUsed`, `RowsFollowSequences`, `SingleFinalProof`, `FinalProofExtendsVerified`, `UnlockedProofsKept`, `ImplementsPool` |
| `Late` | 2 provers, {1,2}, {3}, either backend, late mining, 2 faults of every kind | `RowsDisjoint`, `SettlesWholeSequences`, `RowsFollowSequences` |
| `Locks` | 2 provers, {1,2}, {3,4}, agglayer, 2 faults, batch 4 fails the sanity check | `LocksHaveHolder` |
| `Liveness` | 2 provers, 3 batches, either backend, with and without a store, late mining, 1 fault of any kind, fairness | `SequencesVerified` |
| `Stream` | 2 workers, 3 batches of 1, 2 and 1 blocks, 1 reorganisation, 2 crashes, fairness | `TypeOK`, `BatchesMatchL1`, `WitnessKept`, `BatchesGetReady` |
| `NoWitness` | 2 workers, 3 batches of one block, no witness for batch 2, 1 reorganisation, 1 crash, fairness | `BatchesGetReady` |
| `Prover` | 2 connections at once, 2 fork IDs, proofs with the right root, another one, none, fairness | `TypeOK`, `OneJobAtATime`, `AnswersMatchRequests`, `ForkIdHolds`, `BatchStateRootsMatch`, `LoopsGoOn`, `IdleAgain` |
| `ProverInput` | up to 4 headers and transactions, trees of height 3 with up to 4 leaves, 1 reorganisation | `TypeOK`, `TreeFollowsLeaves`, `DecodesToBlocks`, `ForcedBatchesDecode`, `CutDataNeverMisread`, `InputFitsBatch`, `MismatchAfterReorgOnly` |
| `Reorg` (violation) | 1 worker, 2 batches, 1 reorganisation | `ReorgedProofsDeleted` |
| `StaleLock` (violation) | 2 provers, 1 batch, slow jobs | `ClaimsExclusive` |
| `Unprofitable` (violation) | 1 prover, 1 batch, never profitable | `ProcessSurvives` |
| `SanityCheck` (violation) | 1 connection, publics that `encoding/json` rejects | `BatchStateRootsMatch` |

Why these bounds. Two provers race for everything that is raced for; a third one matters for the final
proof, where one waits in the channel while another one is settled and a third reads. Three batches in
two sequences are the least for which an aggregation may stay inside a sequence, complete one, span
two, or be forbidden; four batches in two pairs add an aggregation of two complete sequences. Two faults
give a failure inside the recovery from another. In `Stream`, three batches let one worker finish after
the batches that follow, and let a reorganisation or a restart fall before, inside and behind the batch
in hand; a batch with two blocks closes a block by the next block and one by BATCH_END. In `NoWitness` one
of the two workers is lost for good; if there were as many such batches as workers, the handler would wait
in `HandOver` for ever, and nothing in the repository promises otherwise. In `Prover` two
connections are one that ends and one that begins; a goroutine without a stream sends nothing, so that a
third one adds goroutines on their way out only. `ProverInput` has batches of two blocks with a
transaction each, of one with three, and forced ones, with a time between blocks whose bytes are markers of blocks as well; transactions as long as a short list may be, one
byte longer, and so long that the length takes two bytes; and trees of 0 to 4 leaves, where padding
happens at two levels and the fourth leaf fills a subtree. Provers are interchangeable in the safety runs
(symmetry); the liveness runs do without.

Deadlock is checked in every passing run but four. In `Stream` and `NoWitness` the bounded stream ends, and
nothing is left to do once all is stored or verified. In `Locks` a prover that fails the sanity check
loops for ever, and with all provers in that state nothing else is left to happen. In `Prover` the
goroutine may be in that same loop, or the aggregator halted, with no stream left.

Fairness (`FairSpec`): weak fairness of every goroutine (the Go scheduler runs a runnable goroutine), of
the settlement (a submitted transaction is mined or reverted), of the stream (batches get ready), of
time, of the clean-up goroutine (a timer), and of the restart (the process is supervised). Strong
fairness of `LocksGetOld` only makes up for the guard that stands for prompt holders: time passes
whether or not a prover holds the mutex. Strong fairness of `EthTxManager` says that a transaction in its
store is mined in the end, however often the process ends meanwhile; it is the only fairness about
transactions nobody waits for. `SequencesVerified` allows one way to stop: a transaction mined late may
end inside a proof that is stored by then, and such a proof is never selected for settlement
(`proof.go:57`), but aggregated with later batches, which the bounded instance does not have
(`WaitsForMore`). In `DataStream` fairness is weak everywhere: of the handler, of
each worker (the witness server answers in the end, but for the batches in `NoWitness`), of the reorg handler, of the sequencer, and of the
restart, by hand after a halt. The pipeline needs none there. In `ProverChannel` it is weak fairness of each
goroutine, of the prover's computation (a job ends, well or badly) and of its boot, while the aggregator
runs; a prover need not connect, and a stream may break at any time.

Findings, each a run that TLC finds violated:

1. `StaleLock`: the clean-up deletes a lock by its age only, and a second prover starts on a batch the
   first one still works on ("Avoid other prover to process the same batch", `aggregator.go:1345`).
2. `Reorg`: "Reorged data has been delete so it is safe to manually restart" (`aggregator.go:250`).
   `halted` is set after the deletion, and workers do not look at it: a worker brings a deleted batch
   back, and a prover proves it. A proof aggregated over the reorganisation point survives as well. Its
   batches are not proven again, and the contract does not accept it. The table of batches itself
   recovers after the restart (`BatchesGetReady`).
3. `Unprofitable`: a batch that is not profitable comes back as no batch and no error, and the caller
   dereferences it (`aggregator.go:1333`, `1373`).
4. `SanityCheck`: a proof whose publics `encoding/json` rejects has the zero state root, because
   `WaitRecursiveProof` tests `err != nil && sr != zero` (`prover.go:268`), which never holds; the caller
   takes zero for a mock prover's proof and skips "Sanity Check: state root from the proof must match
   the one from the batch" (`aggregator.go:1422`).

## 4. What is proved

### `Aggregator`

For every number of provers, batches, faults and any partition of the batches into sequences, from
the assumptions named in `Aggregator`:

| theorem | statement | argument |
|---|---|---|
| `TypeCorrect` | `Spec => []TypeOK` | inductive as it stands, but for the range of an aggregation, which needs the adjacency of the pair |
| `ClaimsStayApart` | `Spec => []ClaimsApart` | by its place in the code a goroutine holds nothing, one proof, or two adjacent ones |
| `GeneratedProofsUsed` | `Spec => []OnlyGeneratedProofsUsed` | with the theorem above |
| `SequencesFollowed` | `Spec => [](RowsFollowSequences /\ SettlesWholeSequences)` | `SequencesInv`: rows fit, a pair being aggregated fits *together*, a proof past the eligibility checks is made of whole sequences |
| `Exclusive` | `Prompt`: `Spec => [](RowsDisjoint /\ ClaimsExclusive /\ ClaimsLocked)` | `ExclusiveInv` |
| `UnlockedStay` | `Prompt`: `Spec => UnlockedProofsKept` | what a step deletes lies inside a proof its goroutine has locked, and rows do not overlap |
| `FinalProofsExtend` | `Patient`: `Spec => []FinalProofExtendsVerified` | `FinalInv` |
| `OneFinalProof` | `Patient`: `Spec => []SingleFinalProof` | two final proofs would start at the same batch, which `ClaimsExclusive` excludes |
| `LocksHeld` | `"storage" \notin Faults`: `Spec => []LocksHaveHolder` | `LockInv` |
| `PoolImplemented` | `Prompt`: `Spec => ImplementsPool` | each step is a step of `ProofPool` or leaves it alone, see below |

`Prompt` is `PromptHolders` without late mining, `Patient` is `Prompt` when, besides, `AggLayerTxTimeout`
does not pass.

`ExclusiveInv` is the argument for the locks. The three properties support each other: claims are
exclusive because each is a locked row and rows are disjoint; rows stay disjoint because an aggregation
replaces two rows that its holder has locked. They are not inductive by themselves: a prover that
validates its own proof deletes the row when the batches are verified, and updates it in a second step:
nobody else may insert an overlapping row in between. A prover under the mutex that read an older
number of verified batches is the one that could. So the invariant says that one prover at most is
under the mutex (`MutexHeldOnce`), that a number read is never above the real one (`SeenBelow`), and
that the batches of any verified proof a prover has in memory were verified before the prover under
the mutex read its number (`StaleReadersSafe`): a settlement cannot overtake that reader with batches
somebody else works on, since these are disjoint from the proof that is settled.

`FinalInv` is the argument for the final proofs: unlocked rows, and all proofs in memory but the one just
settled, lie above the last verified batch. What endangers it is, again, a prover under the mutex with an
old number: it might insert a verified batch. `SettledRowsStay` says why it does not: the batches verified
since it read the number are in rows that are still locked, and it takes no batch that is in a row. With
`AggLayerTxTimeout` that row may be unlocked when it is settled already, and nothing of this holds.

`LockInv` adds to the property what makes a holder's steps local: it takes a proof only with nothing in
memory (`EmptyHanded`), aggregates two proofs and not more (`PairHeld`), holds a single batch when it has
proven one (`SingleHeld`), and `sendFinalProof` forgets a proof without unlocking it only once its batches
are verified (`ForgotVerified`). The one lock nobody gives back is that of a batch whose proof failed the
sanity check, while the prover that made it waits for ever (`LeftLocked`); no other row is excused.

`PoolImplemented` is the refinement. Four actions are the steps one expects: `LockBatchToProve` is
`Claim` (by `BatchApart` nobody has the batch in memory, so the range is not proven yet),
`BatchProofDone` is `Prove`, `AggregationDone` is `Merge` (the only rows inside the aggregated range are
the two that are merged), `Submit` and `SettlementMined` are `Submit` and `Verify`. All others are shown
to be `Forgotten`: each row and each proof in memory after the step stands for a range that was there,
and is proven only if it was. That a forgetting step is a `Lose` needs that a range is in one row only
(`KeysUnique`), hence `Prompt`. It also uses that a goroutine takes proofs with nothing in memory and
never more than two, now whatever the storage does (`EmptyAlways`, `PairAlways`).

### `ProverChannel`

For any number of connections, fork IDs, and kinds of texts:

| theorem | statement | argument |
|---|---|---|
| `ChannelTypeCorrect` | `Spec => []TypeOK` | two goroutines never know the same id |
| `ForkIdAlwaysHolds` | `Spec => []ForkIdHolds` | inductive: a prover that starts again has lost its stream |
| `OneJobAlways` | `Spec => []OneJobAtATime` | `JobsInv` |
| `AnswersMatch` | no `"broken"` text: `Spec => []AnswersMatchRequests` | `JobsInv` |
| `StateRootsMatch` | no `"broken"`, no `"unreadable"` text: `Spec => []BatchStateRootsMatch` | `RootsInv` |

`IsIdle` is tested at the head of the loop only, while up to four requests follow. `JobsInv` says why
that is enough: while the prover has a job, the goroutine of the stream that is up waits for that very
job, or has not passed the test (`BusyKnown`); and a proof a goroutine goes on with is complete
(`AnsweredAtMade`) and of the kind that belongs to the place in the code (`KindsMatch`).

### `DataStream`

For any number of workers, batches, blocks, crashes and reorganisations:

| theorem | statement | argument |
|---|---|---|
| `StreamTypeCorrect` | `Spec => []TypeOK` | `StoreInv` |
| `StoredBatchesMatch` | `Spec => []BatchesMatchL1` | `StoreInv` |
| `WitnessesKept` | `Spec => WitnessKept` | with `StoreInv` and `WitnessSeen`: when the handler is about to store a batch whose row has a witness, it has seen that witness |

`BatchesMatchL1` is about what L1 has *or had* (`OnceOnL1`), so that it says something after a reorganisation
too: rows from before and from after it may then be chained, but no block is left out or added, and no
batch is missing in a chain. As long as L1 has not been reorganised it has one version of each batch, and
the hash is L1's. A reorganisation only adds versions, which keeps what was once true (`HashGrows`).
`StoreInv` says of each piece of state on the way into the table what it is the beginning of: what the
handler has read of a batch is a prefix of that batch (`StreamInv`), what it is about to store is the
batch L1 has or had with a hash chained to such a batch (`JobInv`), and a worker's copy is one the handler
has handed over, older than the handler's batch (`WorkerInv`).

### `L1InfoTree`

For every height and every sequence of leaves that the tree holds:

| theorem | statement | argument |
|---|---|---|
| `RootIsReference` | `BuildL1InfoRoot` ends with one root, and it is `ReferenceRoot` | the levels computed are the left parts of the reference's levels, and zero hashes are what is behind them (`LevelsLeftPart`, `ZeroNodes`) |
| `ProofsVerify` | the proof that `ComputeMerkleProof` returns for a leaf leads to the root | the nodes on the way up are the reference's (`ProofPath`), and the last one is the root (`AboveRoot`) |
| `AddLeafFits` | `AddLeaf` turns the tree of some leaves into the tree of one more | `SiblingsFit`: where the path of the next leaf turns right, the sibling kept is the node to the left of it; other siblings are never read |
| `SameRootSameLeaves` | two sequences of leaves with the same root are the same | from the root down, hashes being free of collisions |

### `ProverInput` and `BatchCodec`

For every base of the bytes and markers in it, every height of the tree, every set of transactions, and
batches, trees and reorganisations without a bound:

| theorem | statement | argument |
|---|---|---|
| `InputInvariant` | `Spec => []InputInv` | one step for each action |
| `InputTypeOK` | `Spec => []TypeOK` | `InputInv` |
| `TreeFollows` | `Spec => []TreeFollowsLeaves` | `TreeInv`, `RootIsReference` |
| `BatchesDecode` | `Spec => []DecodesToBlocks` | `EncoderInv` |
| `ForcedDecode` | `Spec => []ForcedBatchesDecode` | `EncoderInv` |
| `CutDataIsAnError` | `Spec => []CutDataNeverMisread` | `EncoderInv` |
| `InputFits` | `Spec => []InputFitsBatch` | `BatchInv` |
| `MismatchNeedsReorg` | `Spec => []MismatchAfterReorgOnly` | `BatchInv` |

`InputInv` has three parts. `TreeInv` is the tree with its siblings (`TreeOf`). `EncoderInv` says that
the data *stand for* what the encoder was given (`StandsFor`): they decode to it, encode to the same
bytes again, and *wherever they are cut* decode to an error or to a beginning of it (`CutFits`). The last
conjunct is what makes this inductive. One more header or transaction is one more piece behind the data,
and the decoder reads what is before it as it did: an item that is found ends inside the data
(`NextItemType`), so that bytes behind them change nothing (`NextItemKept`); a piece decodes to its item,
and to nothing when it is cut (`CutParts`); so the data decode to one item more, and cut inside the last
piece they are malformed (`DecodedItem`). That a transaction is found at all is a matter of lengths: the
one in the RLP header is that of the list (`ListLengthFound`), whose content decodes to its fields and to
no others (`ListDecodes`), and no list starts with the marker of a block. Forced batches have the same
argument with their own decoder (`ForcedStandsFor`), in which a cut length is the end of the data, not an
error.

`BatchInv` is about what `buildInputProver` holds. Some leaves had the batch's root when it was closed
(`ClosedWith`), L1 starts with them as long as it is not reorganised, and the batch's indices are
indices of theirs. So the leaves that are read by root have that root while L1 has not been reorganised
since the batch was closed, which is why the check of the root fails after a reorganisation only; and
when it succeeds they *are* the batch's leaves, since a root stands for one sequence of leaves
(`SameRootSameLeaves`). The leaf of an index is a second read: it is the same one if L1 has not been
reorganised between the two (`Collecting`), and the proof of that leaf leads to the root
(`ProofsVerify`). An index is looked up once, so the domain of the data is that of the blocks looked at
(`Indices`).

The functions of these modules are recursive, on a level, a position or the length of a sequence. The
induction theorems of the library cannot be used, since they take an operator as a parameter; the proofs
use `SetInduction`, which is induction for a *set* of numbers and follows from the well-foundedness of
the order, and from it that each recursive function exists and is what its definition says
(`LevelsDef`, `DecodedStep` and so on). `LevelInduction` and `DownInduction` are its forms for the levels
of the tree and for positions from the end of the data. Every lemma about a recursive function is a
statement about the set of numbers for which it holds.

### Only model-checked

`RowsDisjoint` with late mining, which run `Late` checks and `Exclusive` proves without; and liveness
(`SequencesVerified`, `BatchesGetReady`, `LoopsGoOn`, `IdleAgain`), since fairness and ENABLED are out of
the prover's reach. The modules that theorems are about use no recursive operator, only recursive
functions.

## 5. Not modelled, and what could follow

- Generated code: protocol buffers and contract bindings, about 15 300 of the 22 700 lines of the
  implementation. They have no behaviour of their own.
- The encoding of contract calls, signing and gas in `etherman`; the ethTxManager and the agglayer, which
  are other programs: `Aggregator` has what the code expects of them.
- The registry of metrics, logging, commands, configuration and the database connection: start-up and
  I/O. `toPostgresInterval` is a conversion of configuration text.
- `merkletree/`: keys of the state tree, arithmetic on field elements; the aggregator calls none of it.
  `fea2scalar` puts together limbs whose range the prover guarantees; `ProverChannel` compares the state
  roots that result.
- In the codec, `DecodeTxs` for forks before the percentage byte, which this aggregator does not run, and
  functions without a caller. In the profitability checker, the comparison of a reward.
- In `DataStream`, batches without blocks, and the choice between the data of L1 and that of the stream
  when they differ, which the code only logs.

What could follow: a stale witness after a reorganisation; one specification of `Aggregator` and `DataStream` together, to see a
reorganisation while proofs are settled.

## 6. Running

    tlc -config Pipeline.cfg MCAggregator.tla       # also Late, Locks, Liveness, StaleLock, Unprofitable
    tlc -config Stream.cfg MCDataStream.tla         # also NoWitness, Reorg
    tlc -config Prover.cfg ProverChannel.tla        # also SanityCheck
    tlc -config ProverInput.cfg MCProverInput.tla
    tlapm AggregatorProofs.tla      # then ExclusiveProofs, FinalProofs, PoolProofs
    tlapm DataStreamProofs.tla
    tlapm ProverChannelProofs.tla
    tlapm L1InfoTreeProofs.tla
    tlapm ProverInputProofs.tla     # a few minutes
