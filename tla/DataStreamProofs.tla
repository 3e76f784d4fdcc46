-------------------------- MODULE DataStreamProofs ---------------------------
(* Theorems about DataStream, for any number of workers, batches and blocks, and any
   bounds on faults and reorganisations. *)
EXTENDS DataStream, SequenceTheorems, TLAPS

-----------------------------------------------------------------------------
(* The inductive invariant. *)

Items == [batch : 0 .. NumBatches, version : Nat, blocks : Seq(Nat \ {0})]
DBBatches == [batch : 0 .. NumBatches, item : Items, acc : Seq(Items), witness : BOOLEAN]

Ended == {"virtual", "hash", "store", "handOver"}

RowsTyped ==
  /\ DOMAIN batches \subseteq 0 .. NumBatches
  /\ batches = [n \in DOMAIN batches |-> batches[n]]
  /\ \A n \in DOMAIN batches : batches[n] \in DBBatches /\ batches[n].batch = n

L1Typed ==
  /\ version \in [Numbers -> 0 .. MaxReorgs]
  /\ virtual \in 0 .. NumBatches
  /\ verified \in 0 .. virtual
  /\ \A n \in Numbers : version[n] <= reorgs
  /\ \A r \in proofs : r.from \in Numbers /\ r.to \in r.from .. NumBatches
  /\ reorg \in {"none", "detected", "halting", "halted"}
  /\ reorgs \in 0 .. MaxReorgs
  /\ faults \in 0 .. MaxFaults

(* The blocks R and the open block o (0: none) are the first k of batch n. *)
FirstBlocks(n, k, R, o) ==
  /\ k \in 0 .. Len(Blocks[n])
  /\ IF k = 0 THEN R = <<>> /\ o = 0
              ELSE /\ Len(R) = k - 1
                   /\ o = Blocks[n][k]
                   /\ \A i \in 1 .. k - 1 : R[i] = Blocks[n][i]

(* What the handler has read of the next batch is what the stream has. *)
StreamInv ==
  /\ next \in [batch : 1 .. NumBatches + 1, entry : Nat \ {0}]
  /\ current \in [batch : 0 .. NumBatches, raw : Seq(Nat \ {0}), open : Nat]
  /\ handler \in {"entry", "down"} \cup Ended
  /\ handler = "down" \/ (handler = "entry" /\ next.entry = 1) =>
       current.raw = <<>> /\ current.open = 0
  /\ handler = "entry" /\ next.entry # 1 =>
       /\ next.batch \in Numbers
       /\ current.batch = next.batch
       /\ FirstBlocks(next.batch, next.entry - 2, current.raw, current.open)
  /\ handler \in Ended =>
       /\ next.batch \in Numbers
       /\ current.batch = next.batch
       /\ current.raw = Blocks[next.batch]

(* The hash of batches L1 has, or had before a reorganisation. *)
HashOnceOnL1(n, acc) ==
  /\ acc \in Seq(Items)
  /\ Len(acc) = n
  /\ \A m \in 1 .. n : OnceOnL1(m, acc[m])

(* What the handler is about to store. *)
JobInv ==
  /\ handler \in {"entry", "virtual", "down"} => job = NoJob
  /\ handler = "hash" =>
       /\ job.item \in Items /\ job.item.batch = next.batch /\ job.batch = next.batch
       /\ OnceOnL1(next.batch, job.item)
  /\ handler \in {"store", "handOver"} =>
       /\ job \in DBBatches /\ job.batch = next.batch
       /\ HashOnceOnL1(next.batch, job.acc)

(* A worker has a batch the handler has passed. *)
WorkerInv ==
  /\ worker = [w \in Workers |-> worker[w]]
  /\ handler = "down" => \A w \in Workers : worker[w] = Free
  /\ \A w \in Workers : worker[w] # Free =>
       /\ worker[w] \in DBBatches
       /\ worker[w].batch \in Numbers
       /\ worker[w].batch < next.batch
       /\ HashOnceOnL1(worker[w].batch, worker[w].acc)

RowsInv == \A n \in DOMAIN batches : HashOnceOnL1(n, batches[n].acc)

StoreInv == RowsTyped /\ L1Typed /\ StreamInv /\ JobInv /\ WorkerInv /\ RowsInv

LEMMA StoreInvTyped == StoreInv => TypeOK
<1>. SUFFICES ASSUME StoreInv PROVE TypeOK
  OBVIOUS
<1>. USE BoundsAssumption
<1>1. job.batch \in 0 .. NumBatches
  BY DEF StoreInv, JobInv, StreamInv, Ended, NoJob, NoBatch, Numbers
<1>2. \A w \in Workers : worker[w].batch \in 0 .. NumBatches
  <2>. TAKE w \in Workers
  <2>1. CASE worker[w] = Free
    BY <2>1 DEF Free, NoBatch
  <2>2. CASE worker[w] # Free
    BY <2>2 DEF StoreInv, WorkerInv, Numbers
  <2>. QED  BY <2>1, <2>2
<1>3. /\ DOMAIN batches \subseteq 0 .. NumBatches
      /\ \A n \in DOMAIN batches : batches[n].batch = n /\ batches[n].witness \in BOOLEAN
  BY DEF StoreInv, RowsTyped, DBBatches
<1>4. /\ next.batch \in 1 .. NumBatches + 1
      /\ current.batch \in 0 .. NumBatches
      /\ handler \in {"entry", "virtual", "hash", "store", "handOver", "down"}
  BY DEF StoreInv, StreamInv, Ended
<1>. QED  BY <1>1, <1>2, <1>3, <1>4 DEF StoreInv, L1Typed, TypeOK

-----------------------------------------------------------------------------
(* Hashes. *)

LEMMA OnL1Typed ==
  ASSUME L1Typed, NEW n \in Numbers
  PROVE  OnL1(n) \in Items
  BY BlocksAssumption, BoundsAssumption DEF L1Typed, OnL1, Item, Items, Numbers

LEMMA HashTyped ==
  ASSUME L1Typed, NEW n \in 0 .. NumBatches
  PROVE  AccInputHashOnL1(n) \in Seq(Items) /\ Len(AccInputHashOnL1(n)) = n
<1>1. n \in Nat /\ \A m \in 1 .. n : OnL1(m) \in Items
  BY OnL1Typed, BoundsAssumption DEF Numbers
<1>. QED  BY <1>1, BoundsAssumption DEF AccInputHashOnL1

LEMMA OnL1Once ==
  ASSUME L1Typed, NEW n \in Numbers
  PROVE  OnceOnL1(n, OnL1(n))
  BY BoundsAssumption DEF L1Typed, OnceOnL1, OnL1

LEMMA HashOnL1Once ==
  ASSUME L1Typed, NEW n \in 0 .. NumBatches
  PROVE  HashOnceOnL1(n, AccInputHashOnL1(n))
<1>1. AccInputHashOnL1(n) \in Seq(Items) /\ Len(AccInputHashOnL1(n)) = n
  BY HashTyped
<1>2. ASSUME NEW m \in 1 .. n
      PROVE  OnceOnL1(m, AccInputHashOnL1(n)[m])
  <2>1. m \in Numbers
    BY BoundsAssumption DEF Numbers
  <2>. QED  BY <2>1, OnL1Once DEF AccInputHashOnL1
<1>. QED  BY <1>1, <1>2 DEF HashOnceOnL1

LEMMA HashOfNext ==
  ASSUME NEW n \in Nat \ {0}, NEW acc, NEW item \in Items,
         HashOnceOnL1(n - 1, acc), OnceOnL1(n, item)
  PROVE  HashOnceOnL1(n, Append(acc, item))
<1>1. /\ acc \in Seq(Items) /\ Len(acc) = n - 1
      /\ \A m \in 1 .. n - 1 : OnceOnL1(m, acc[m])
  BY DEF HashOnceOnL1
<1>2. /\ Append(acc, item) \in Seq(Items) /\ Len(Append(acc, item)) = n
      /\ Append(acc, item)[n] = item
      /\ \A m \in 1 .. n - 1 : Append(acc, item)[m] = acc[m]
  BY <1>1
<1>3. ASSUME NEW m \in 1 .. n
      PROVE  OnceOnL1(m, Append(acc, item)[m])
  <2>1. CASE m = n
    BY <1>2, <2>1
  <2>2. CASE m # n
    <3>1. m \in 1 .. n - 1
      BY <2>2
    <3>. QED  BY <1>1, <1>2, <3>1
  <2>. QED  BY <2>1, <2>2
<1>. QED  BY <1>2, <1>3 DEF HashOnceOnL1

(* What L1 had stays the same until a reorganisation, which only adds a version. *)
LEMMA HashKept ==
  ASSUME UNCHANGED version, NEW n, NEW acc, NEW item
  PROVE  /\ HashOnceOnL1(n, acc)' <=> HashOnceOnL1(n, acc)
         /\ OnceOnL1(n, item)' <=> OnceOnL1(n, item)
  BY DEF HashOnceOnL1, OnceOnL1, Item, Items

VersionsGrow ==
  \A m \in Numbers : version[m] \in Nat /\ version'[m] \in {version[m], version[m] + 1}

LEMMA ItemGrows ==
  ASSUME VersionsGrow, NEW n \in Numbers, NEW item, OnceOnL1(n, item)
  PROVE  OnceOnL1(n, item)'
<1>1. \A v \in 0 .. version[n] : v \in 0 .. version'[n]
  BY DEF VersionsGrow
<1>. QED  BY <1>1 DEF OnceOnL1, Item

LEMMA HashGrows ==
  ASSUME VersionsGrow, NEW n \in 0 .. NumBatches, NEW acc, HashOnceOnL1(n, acc)
  PROVE  HashOnceOnL1(n, acc)'
<1>1. ASSUME NEW m \in 1 .. n
      PROVE  OnceOnL1(m, acc[m])'
  <2>1. m \in Numbers /\ OnceOnL1(m, acc[m])
    BY BoundsAssumption DEF HashOnceOnL1, Numbers
  <2>. QED  BY <2>1, ItemGrows
<1>. QED  BY <1>1 DEF HashOnceOnL1, Items

LEMMA AddRow ==
  ASSUME RowsTyped, NEW x \in DBBatches, batches' = AddBatch(batches, x)
  PROVE  /\ RowsTyped'
         /\ \A n \in DOMAIN batches' : batches'[n] = IF n = x.batch THEN x ELSE batches[n]
         /\ DOMAIN batches' = DOMAIN batches \cup {x.batch}
  BY DEF RowsTyped, AddBatch, DBBatches

LEMMA AddMatching ==
  ASSUME RowsTyped, RowsInv, UNCHANGED version,
         NEW x \in DBBatches, HashOnceOnL1(x.batch, x.acc),
         batches' = AddBatch(batches, x)
  PROVE  RowsTyped' /\ RowsInv'
<1>1. /\ RowsTyped'
      /\ \A n \in DOMAIN batches' : batches'[n] = IF n = x.batch THEN x ELSE batches[n]
      /\ DOMAIN batches' = DOMAIN batches \cup {x.batch}
  BY AddRow
<1>2. ASSUME NEW n \in DOMAIN batches'
      PROVE  HashOnceOnL1(n, batches'[n].acc)
  BY <1>1, <1>2 DEF RowsInv
<1>. QED  BY <1>1, <1>2, HashKept DEF RowsInv

LEMMA DeleteRows ==
  ASSUME RowsTyped, NEW N, batches' = Deleting(batches, N)
  PROVE  /\ RowsTyped'
         /\ DOMAIN batches' = DOMAIN batches \ N
         /\ \A n \in DOMAIN batches' : batches'[n] = batches[n]
  BY DEF RowsTyped, Deleting

LEMMA DummyTyped ==
  ASSUME L1Typed, NEW n \in 0 .. NumBatches
  PROVE  /\ DummyBatch(n) \in DBBatches
         /\ DummyBatch(n).batch = n
         /\ DummyBatch(n).witness
         /\ HashOnceOnL1(n, DummyBatch(n).acc)
<1>1. AccInputHashOnL1(n) \in Seq(Items) /\ HashOnceOnL1(n, AccInputHashOnL1(n))
  BY HashTyped, HashOnL1Once
<1>2. (IF n = 0 THEN 0 ELSE version[n]) \in Nat
  BY BoundsAssumption DEF L1Typed, Numbers
<1>3. Item(n, IF n = 0 THEN 0 ELSE version[n], <<>>) \in Items
  BY <1>2 DEF Item, Items
<1>. QED
  BY <1>1, <1>3, BoundsAssumption
  DEF DummyBatch, DBBatch, DBBatches, GetVerifiedBatchAccInputHash, Item, Items

-----------------------------------------------------------------------------
(* The steps. *)

LEMMA StoreInit == Init => StoreInv
<1>. SUFFICES ASSUME Init PROVE StoreInv
  OBVIOUS
<1>. USE BoundsAssumption
<1>1. L1Typed
  BY DEF Init, L1Typed
<1>2. RowsTyped /\ RowsInv
  BY <1>1, DummyTyped DEF Init, RowsTyped, RowsInv
<1>3. StreamInv
  BY DEF Init, StreamInv, BookMark, Empty, Ended
<1>4. JobInv /\ WorkerInv
  BY DEF Init, JobInv, WorkerInv
<1>. QED  BY <1>1, <1>2, <1>3, <1>4 DEF StoreInv

(* The entries of the stream. *)
LEMMA OpenBlockRead ==
  ASSUME NEW n \in Numbers, NEW k \in Nat, NEW c,
         c.raw \in Seq(Nat \ {0}), c.open \in Nat,
         FirstBlocks(n, k, c.raw, c.open)
  PROVE  /\ WithOpenBlock(c) \in Seq(Nat \ {0})
         /\ Len(WithOpenBlock(c)) = k
         /\ \A i \in 1 .. k : WithOpenBlock(c)[i] = Blocks[n][i]
<1>1. Blocks[n] \in Seq(Nat \ {0})
  BY BlocksAssumption
<1>2. CASE k = 0
  BY <1>2 DEF FirstBlocks, WithOpenBlock
<1>3. CASE k # 0
  <2>1. /\ Len(c.raw) = k - 1 /\ c.open = Blocks[n][k] /\ k \in 1 .. Len(Blocks[n])
        /\ \A i \in 1 .. k - 1 : c.raw[i] = Blocks[n][i]
    BY <1>3 DEF FirstBlocks
  <2>2. c.open \in Nat \ {0}
    BY <1>1, <2>1
  <2>3. WithOpenBlock(c) = Append(c.raw, c.open)
    BY <2>2 DEF WithOpenBlock
  <2>. QED  BY <2>1, <2>2, <2>3
<1>. QED  BY <1>2, <1>3

LEMMA StreamEntry ==
  ASSUME StoreInv, BatchStart \/ L2Block \/ BatchEnd
  PROVE  StoreInv'
<1>. USE BoundsAssumption DEF StoreInv, StreamInv
<1>0. /\ UNCHANGED <<version, virtual, verified, batches, proofs, job, worker, reorg, reorgs,
                     faults>>
      /\ handler = "entry" /\ next.batch \in Numbers /\ next'.batch = next.batch
      /\ handler' \in {"entry", "virtual"}
  BY DEF BatchStart, L2Block, BatchEnd, l1, Receive, Advance
<1>1. RowsTyped' /\ L1Typed' /\ RowsInv'
  BY <1>0, HashKept DEF RowsTyped, L1Typed, RowsInv
<1>2. JobInv' /\ WorkerInv'
  BY <1>0, HashKept DEF JobInv, WorkerInv
<1>a. /\ current \in [batch : 0 .. NumBatches, raw : Seq(Nat \ {0}), open : Nat]
      /\ current.raw \in Seq(Nat \ {0}) /\ current.open \in Nat
      /\ next.entry \in Nat \ {0}
  OBVIOUS
<1>b. next.entry # 1 => /\ next.entry - 2 \in Nat
                        /\ current.batch = next.batch
                        /\ FirstBlocks(next.batch, next.entry - 2, current.raw, current.open)
  BY <1>0
<1>3. CASE BatchStart
  <2>1. /\ next' = [next EXCEPT !.entry = 2] /\ handler' = "entry"
        /\ current' = [current EXCEPT !.batch = next.batch]
        /\ current.raw = <<>> /\ current.open = 0
    BY <1>0, <1>3 DEF BatchStart, Advance
  <2>2. FirstBlocks(next.batch, 0, current.raw, current.open)
    BY <1>0, <2>1, BlocksAssumption DEF FirstBlocks
  <2>3. StreamInv'
    BY <1>0, <2>1, <2>2 DEF Ended, Numbers
  <2>. QED  BY <1>1, <1>2, <2>3
<1>4. CASE L2Block
  <2>0. PICK k \in Nat : k = next.entry - 2
    BY <1>0, <1>4, <1>a, BlocksAssumption DEF L2Block
  <2>1. /\ next' = [next EXCEPT !.entry = @ + 1] /\ handler' = "entry"
        /\ k + 1 \in 1 .. Len(Blocks[next.batch])
        /\ next.entry # 1 /\ k \in Nat /\ next.entry - 1 = k + 1
    <3>1. next.entry - 1 \in 1 .. Len(Blocks[next.batch])
      BY <1>0, <1>4, BlocksAssumption DEF L2Block
    <3>2. next.entry - 1 = k + 1 /\ next.entry # 1
      BY <1>a, <2>0
    <3>. QED  BY <1>0, <1>4, <3>1, <3>2 DEF L2Block, Advance
  <2>2. current' = [current EXCEPT !.raw = WithOpenBlock(current),
                                   !.open = Blocks[next.batch][k + 1]]
    BY <1>0, <1>4, <2>1 DEF L2Block
  <2>3. /\ WithOpenBlock(current) \in Seq(Nat \ {0})
        /\ Len(WithOpenBlock(current)) = k
        /\ \A i \in 1 .. k : WithOpenBlock(current)[i] = Blocks[next.batch][i]
    <3>1. FirstBlocks(next.batch, k, current.raw, current.open)
      BY <1>b, <2>0, <2>1
    <3>. QED  BY <1>0, <1>a, <3>1, OpenBlockRead
  <2>4. Blocks[next.batch][k + 1] \in Nat \ {0}
    BY <1>0, <2>1, BlocksAssumption
  <2>5. FirstBlocks(next.batch, k + 1, current'.raw, current'.open)
    <3>1. /\ current'.raw = WithOpenBlock(current)
          /\ current'.open = Blocks[next.batch][k + 1]
      BY <1>a, <2>2
    <3>2. k + 1 # 0 /\ k + 1 \in 0 .. Len(Blocks[next.batch]) /\ (k + 1) - 1 = k
      BY <2>1
    <3>. QED  BY <2>3, <3>1, <3>2 DEF FirstBlocks
  <2>6. StreamInv'
    <3>1. next' \in [batch : 1 .. NumBatches + 1, entry : Nat \ {0}]
          /\ next'.entry - 2 = k + 1 /\ next'.entry # 1
      <4>1. next \in [batch : 1 .. NumBatches + 1, entry : Nat \ {0}] /\ next.entry = k + 2
        BY <2>0, <1>a
      <4>2. next' = [next EXCEPT !.entry = next.entry + 1]
        BY <2>1
      <4>3. next'.entry = k + 3 /\ next'.batch = next.batch
        BY <4>1, <4>2
      <4>4. next' \in [batch : 1 .. NumBatches + 1, entry : Nat \ {0}]
        <5>1. next.entry + 1 \in Nat \ {0}
          BY <4>1
        <5>. HIDE DEF StoreInv, StreamInv
        <5>. QED  BY <4>1, <4>2, <5>1
      <4>. QED  BY <4>3, <4>4
    <3>2. /\ current' \in [batch : 0 .. NumBatches, raw : Seq(Nat \ {0}), open : Nat]
          /\ current'.batch = next.batch
      BY <1>a, <1>b, <2>1, <2>2, <2>3, <2>4
    <3>. QED  BY <1>0, <2>1, <2>5, <3>1, <3>2 DEF Ended
  <2>. QED  BY <1>1, <1>2, <2>6
<1>5. CASE BatchEnd
  <2>. DEFINE k == Len(Blocks[next.batch])
  <2>1. /\ next' = next /\ handler' = "virtual" /\ k \in Nat /\ next.entry = k + 2
        /\ current' = [current EXCEPT !.raw = WithOpenBlock(current)]
    BY <1>0, <1>5, BlocksAssumption DEF BatchEnd
  <2>2. /\ WithOpenBlock(current) \in Seq(Nat \ {0})
        /\ Len(WithOpenBlock(current)) = k
        /\ \A i \in 1 .. k : WithOpenBlock(current)[i] = Blocks[next.batch][i]
    <3>1. k \in Nat /\ FirstBlocks(next.batch, k, current.raw, current.open)
      <4>1. next.entry - 2 = k /\ next.entry # 1
        BY <2>1
      <4>. QED  BY <1>b, <2>1, <4>1
    <3>. QED  BY <1>0, <1>a, <3>1, OpenBlockRead
  <2>3. WithOpenBlock(current) = Blocks[next.batch]
    BY <1>0, <2>2, BlocksAssumption, SeqEqual
  <2>4. StreamInv'
    <3>1. /\ current' \in [batch : 0 .. NumBatches, raw : Seq(Nat \ {0}), open : Nat]
          /\ current'.batch = next.batch /\ current'.raw = Blocks[next.batch]
      <4>1. current.batch = next.batch
        BY <1>a, <1>b, <2>1
      <4>. QED  BY <1>a, <2>1, <2>2, <2>3, <4>1
    <3>. QED  BY <1>0, <2>1, <3>1 DEF Ended
  <2>. QED  BY <1>1, <1>2, <2>4
<1>. QED  BY <1>3, <1>4, <1>5

(* The batch is complete. *)
LEMMA StreamJob ==
  ASSUME StoreInv, ReadL1 \/ CalculateAccInputHash
  PROVE  StoreInv'
<1>. USE BoundsAssumption DEF StoreInv
<1>0. /\ UNCHANGED <<version, virtual, verified, batches, proofs, next, current, worker,
                     reorg, reorgs, faults>>
      /\ handler \in {"virtual", "hash"}
  BY DEF ReadL1, CalculateAccInputHash, l1
<1>1. RowsTyped' /\ L1Typed' /\ RowsInv'
  BY <1>0, HashKept DEF RowsTyped, L1Typed, RowsInv
<1>2. /\ next.batch \in Numbers /\ current.batch = next.batch
      /\ current.raw = Blocks[next.batch]
  BY <1>0 DEF StreamInv, Ended
<1>3. CASE ReadL1
  <2>1. /\ job' = [batch |-> next.batch, item |-> OnL1(next.batch)] /\ handler' = "hash"
    BY <1>2, <1>3 DEF ReadL1, OnL1
  <2>2. /\ OnL1(next.batch) \in Items /\ OnL1(next.batch).batch = next.batch
        /\ OnceOnL1(next.batch, OnL1(next.batch))
    BY <1>2, OnL1Typed, OnL1Once DEF OnL1, Item
  <2>3. JobInv'
    BY <1>0, <2>1, <2>2, HashKept DEF JobInv
  <2>4. StreamInv' /\ WorkerInv'
    BY <1>0, <2>1, HashKept DEF StreamInv, WorkerInv, Ended
  <2>. QED  BY <1>1, <2>3, <2>4
<1>4. CASE CalculateAccInputHash
  <2>. DEFINE n == next.batch
              acc == Append(batches[n - 1].acc, job.item)
  <2>1. /\ job.batch = n /\ job.item \in Items /\ job.item.batch = n
        /\ n - 1 \in DOMAIN batches
        /\ job' = DBBatch(job.item, acc, StoredWitness(n)) /\ handler' = "store"
        /\ OnceOnL1(n, job.item)
    BY <1>4 DEF CalculateAccInputHash, JobInv
  <2>2. batches[n - 1].acc \in Seq(Items)
    BY <2>1 DEF RowsTyped, DBBatches
  <2>3. acc \in Seq(Items)
    BY <2>1, <2>2
  <2>4. StoredWitness(n) \in BOOLEAN
    BY DEF StoredWitness, RowsTyped, DBBatches
  <2>5. job' \in DBBatches /\ job'.batch = n /\ job'.acc = acc
    BY <1>2, <2>1, <2>3, <2>4 DEF DBBatch, DBBatches, Numbers
  <2>6. HashOnceOnL1(n, acc)
    <3>1. n \in Nat \ {0} /\ HashOnceOnL1(n - 1, batches[n - 1].acc)
      BY <1>2, <2>1 DEF RowsInv, Numbers
    <3>. QED  BY <2>1, <3>1, HashOfNext
  <2>7. JobInv'
    BY <1>0, <2>1, <2>5, <2>6, HashKept DEF JobInv
  <2>8. StreamInv' /\ WorkerInv'
    BY <1>0, <2>1, HashKept DEF StreamInv, WorkerInv, Ended
  <2>. QED  BY <1>1, <2>7, <2>8
<1>. QED  BY <1>3, <1>4

(* The batch is done, and the next one follows. *)
LEMMA NextBatchRead ==
  ASSUME StreamInv, handler \in Ended, NextBatch
  PROVE  /\ StreamInv'
         /\ next'.batch = next.batch + 1
         /\ handler' = "entry"
<1>1. /\ current' = [current EXCEPT !.raw = <<>>, !.open = 0]
      /\ next' = [batch |-> next.batch + 1, entry |-> 1]
      /\ handler' = "entry"
  BY DEF NextBatch, Reset
<1>2. next.batch \in Numbers
  BY DEF StreamInv
<1>3. current' \in [batch : 0 .. NumBatches, raw : Seq(Nat \ {0}), open : Nat]
  <2>1. <<>> \in Seq(Nat \ {0}) /\ 0 \in Nat
    OBVIOUS
  <2>. QED  BY <1>1, <2>1 DEF StreamInv
<1>4. next' \in [batch : 1 .. NumBatches + 1, entry : Nat \ {0}]
  BY <1>1, <1>2, BoundsAssumption DEF Numbers
<1>5. next'.batch = next.batch + 1 /\ next'.entry = 1
  BY <1>1
<1>6. current'.raw = <<>> /\ current'.open = 0
  BY <1>1 DEF StreamInv
<1>. QED  BY <1>1, <1>3, <1>4, <1>5, <1>6 DEF StreamInv, Ended

LEMMA StreamStore ==
  ASSUME StoreInv, StoreBatch
  PROVE  StoreInv'
<1>. USE BoundsAssumption DEF StoreInv
<1>0. /\ UNCHANGED <<version, virtual, verified, proofs, worker, reorg, reorgs, faults>>
      /\ handler = "store" /\ batches' = AddBatch(batches, job)
  BY DEF StoreBatch, l1
<1>1. /\ job \in DBBatches /\ job.batch = next.batch
      /\ HashOnceOnL1(next.batch, job.acc)
  BY <1>0 DEF JobInv
<1>2. RowsTyped' /\ L1Typed' /\ RowsInv'
  BY <1>0, <1>1, AddMatching DEF L1Typed
<1>3. CASE job.witness
  <2>1. NextBatch /\ job' = NoJob
    BY <1>3 DEF StoreBatch
  <2>2. StreamInv' /\ next'.batch = next.batch + 1 /\ handler' = "entry"
    BY <1>0, <2>1, NextBatchRead DEF Ended
  <2>3. JobInv'
    BY <2>1, <2>2 DEF JobInv
  <2>4. WorkerInv'
    <3>1. handler # "down" /\ handler' # "down" /\ next.batch \in Nat
      BY <1>0, <2>2 DEF StreamInv
    <3>2. ASSUME NEW w \in Workers, worker[w] # Free
          PROVE  /\ worker[w] \in DBBatches
                 /\ worker[w].batch \in Numbers
                 /\ worker[w].batch < next.batch + 1
                 /\ HashOnceOnL1(worker[w].batch, worker[w].acc)
      BY <3>1, <3>2 DEF WorkerInv, Numbers
    <3>3. ASSUME NEW w \in Workers, worker[w] # Free
          PROVE  HashOnceOnL1(worker[w].batch, worker[w].acc)'
      BY <1>0, <3>2, <3>3, HashKept
    <3>4. worker' = worker /\ worker = [w \in Workers |-> worker[w]]
      BY <1>0 DEF WorkerInv
    <3>. HIDE DEF StoreInv, HashOnceOnL1
    <3>. QED  BY <2>2, <3>1, <3>2, <3>3, <3>4 DEF WorkerInv, DBBatches, Items
  <2>. QED  BY <1>2, <2>2, <2>3, <2>4
<1>4. CASE ~ job.witness
  <2>1. handler' = "handOver" /\ UNCHANGED <<next, current, job>>
    BY <1>4 DEF StoreBatch
  <2>. QED
    BY <1>0, <1>1, <1>2, <2>1, HashKept DEF StreamInv, JobInv, WorkerInv, Ended
<1>. QED  BY <1>3, <1>4

(* The witness workers. *)
LEMMA WorkerSteps ==
  ASSUME StoreInv, NEW w \in Workers, HandOver(w) \/ GetWitness(w) \/ StoreWitness(w)
  PROVE  StoreInv'
<1>. USE BoundsAssumption DEF StoreInv
<1>0. /\ UNCHANGED <<version, virtual, verified, proofs, reorg, reorgs, faults>>
      /\ L1Typed'
  BY DEF HandOver, GetWitness, StoreWitness, l1, stream, L1Typed
<1>1. CASE HandOver(w)
  <2>1. /\ handler = "handOver" /\ worker' = [worker EXCEPT ![w] = job]
        /\ job' = NoJob /\ NextBatch /\ batches' = batches
    BY <1>1 DEF HandOver
  <2>2. StreamInv' /\ next'.batch = next.batch + 1 /\ handler' = "entry"
    BY <2>1, NextBatchRead DEF Ended
  <2>3. /\ job \in DBBatches /\ job.batch = next.batch /\ next.batch \in Numbers
        /\ HashOnceOnL1(next.batch, job.acc)
    BY <2>1 DEF JobInv, StreamInv, Ended
  <2>4. WorkerInv'
    BY <1>0, <2>1, <2>2, <2>3, HashKept DEF WorkerInv, Numbers
  <2>5. RowsTyped' /\ RowsInv' /\ JobInv'
    BY <1>0, <2>1, <2>2, HashKept DEF RowsTyped, RowsInv, JobInv
  <2>. QED  BY <1>0, <2>2, <2>4, <2>5
<1>2. CASE GetWitness(w)
  <2>1. /\ UNCHANGED <<batches, next, current, handler, job>> /\ worker[w] # Free
        /\ worker' = [worker EXCEPT ![w] = [worker[w] EXCEPT !.witness = TRUE]]
    BY <1>2 DEF GetWitness, stream
  <2>2. /\ [worker[w] EXCEPT !.witness = TRUE] \in DBBatches
        /\ [worker[w] EXCEPT !.witness = TRUE].batch = worker[w].batch
        /\ [worker[w] EXCEPT !.witness = TRUE].acc = worker[w].acc
    BY <2>1 DEF WorkerInv, DBBatches
  <2>3. WorkerInv'
    BY <1>0, <2>1, <2>2, HashKept DEF WorkerInv
  <2>. QED
    BY <1>0, <2>1, <2>3, HashKept DEF RowsTyped, RowsInv, StreamInv, JobInv
<1>3. CASE StoreWitness(w)
  <2>1. /\ UNCHANGED <<next, current, handler, job>> /\ worker[w] # Free
        /\ worker' = [worker EXCEPT ![w] = Free]
        /\ batches' = AddBatch(batches, worker[w])
    BY <1>3 DEF StoreWitness, stream
  <2>2. /\ worker[w] \in DBBatches
        /\ HashOnceOnL1(worker[w].batch, worker[w].acc)
    BY <2>1 DEF WorkerInv
  <2>3. RowsTyped' /\ RowsInv'
    BY <1>0, <2>1, <2>2, AddMatching
  <2>4. WorkerInv'
    BY <1>0, <2>1, HashKept DEF WorkerInv
  <2>. QED  BY <1>0, <2>1, <2>3, <2>4, HashKept DEF StreamInv, JobInv
<1>. QED  BY <1>1, <1>2, <1>3

(* The end of the process, and its start. *)
LEMMA StreamEnds ==
  ASSUME StoreInv, Crash \/ OperatorStops \/ PreviousBatchMissing
  PROVE  StoreInv'
<1>. USE BoundsAssumption DEF StoreInv
<1>1. /\ ProcessEnds /\ UNCHANGED <<version, virtual, verified, batches, proofs, reorgs>>
      /\ faults' \in 0 .. MaxFaults
  BY DEF Crash, OperatorStops, PreviousBatchMissing, l1, L1Typed
<1>2. RowsTyped' /\ RowsInv'
  BY <1>1, HashKept DEF RowsTyped, RowsInv
<1>3. L1Typed'
  BY <1>1 DEF L1Typed, ProcessEnds
<1>4. StreamInv'
  BY <1>1 DEF ProcessEnds, StreamInv, Empty, BookMark, Ended
<1>5. JobInv' /\ WorkerInv'
  BY <1>1 DEF ProcessEnds, JobInv, WorkerInv
<1>. QED  BY <1>2, <1>3, <1>4, <1>5

LEMMA StreamStarts ==
  ASSUME StoreInv, Start
  PROVE  StoreInv'
<1>. USE BoundsAssumption DEF StoreInv
<1>. DEFINE T == Deleting(batches, {n \in DOMAIN batches : n < verified})
<1>0. /\ UNCHANGED <<version, virtual, verified, current, job, worker, reorg, reorgs, faults>>
      /\ handler = "down" /\ handler' = "entry"
      /\ proofs' \subseteq proofs
      /\ batches' = AddBatch(T, DummyBatch(verified))
      /\ next' = [batch |-> verified + 1, entry |-> 1]
  BY DEF Start, l1, BookMark
<1>1. verified \in 0 .. NumBatches
  BY DEF L1Typed
<1>2. /\ DummyBatch(verified) \in DBBatches /\ DummyBatch(verified).batch = verified
      /\ HashOnceOnL1(verified, DummyBatch(verified).acc)
  BY <1>1, DummyTyped
<1>3. /\ DOMAIN batches' \subseteq 0 .. NumBatches
      /\ batches' = [n \in DOMAIN batches' |-> batches'[n]]
      /\ \A n \in DOMAIN batches' :
           (batches'[n] = DummyBatch(verified) /\ n = verified)
             \/ (n \in DOMAIN batches /\ batches'[n] = batches[n])
  <2>1. /\ DOMAIN T = DOMAIN batches \ {n \in DOMAIN batches : n < verified}
        /\ \A n \in DOMAIN T : T[n] = batches[n]
    BY DEF Deleting
  <2>2. batches' = [n \in DOMAIN T \cup {verified} |->
                      IF n = verified THEN DummyBatch(verified) ELSE T[n]]
    BY <1>0, <1>2 DEF AddBatch
  <2>3. DOMAIN batches' = DOMAIN T \cup {verified}
    BY <2>2
  <2>4. \A n \in DOMAIN batches' :
          batches'[n] = IF n = verified THEN DummyBatch(verified) ELSE T[n]
    BY <2>2, <2>3
  <2>5. batches' = [n \in DOMAIN batches' |-> batches'[n]]
    BY <2>2, <2>3, <2>4
  <2>6. DOMAIN batches' \subseteq 0 .. NumBatches
    BY <1>1, <2>1, <2>3 DEF RowsTyped
  <2>7. ASSUME NEW n \in DOMAIN batches', n # verified
        PROVE  n \in DOMAIN batches /\ batches'[n] = batches[n]
    <3>1. n \in DOMAIN T
      BY <2>3, <2>7
    <3>2. batches'[n] = T[n]
      BY <2>4, <2>7
    <3>. QED  BY <2>1, <3>1, <3>2
  <2>8. \A n \in DOMAIN batches' : n = verified => batches'[n] = DummyBatch(verified)
    BY <2>4
  <2>9. \A n \in DOMAIN batches' :
          (batches'[n] = DummyBatch(verified) /\ n = verified)
            \/ (n \in DOMAIN batches /\ batches'[n] = batches[n])
    BY <2>7, <2>8
  <2>. QED  BY <2>5, <2>6, <2>9
<1>4. RowsTyped' /\ RowsInv'
  <2>1. RowsTyped'
    BY <1>2, <1>3 DEF RowsTyped, DBBatches, Items
  <2>2. ASSUME NEW n \in DOMAIN batches'
        PROVE  HashOnceOnL1(n, batches'[n].acc)
    BY <1>2, <1>3 DEF RowsInv
  <2>3. RowsInv'
    BY <1>0, <2>2, HashKept DEF RowsInv
  <2>. QED  BY <2>1, <2>3
<1>5. L1Typed'
  BY <1>0 DEF L1Typed
<1>6. StreamInv'
  <2>1. next' \in [batch : 1 .. NumBatches + 1, entry : Nat \ {0}] /\ next'.entry = 1
    BY <1>0, <1>1
  <2>. QED  BY <1>0, <2>1 DEF StreamInv, Ended
<1>7. JobInv'
  BY <1>0 DEF JobInv
<1>8. WorkerInv'
  BY <1>0 DEF WorkerInv
<1>. QED  BY <1>4, <1>5, <1>6, <1>7, <1>8

(* L1 and the handler of its reorganisations. *)
LEMMA L1Steps ==
  ASSUME StoreInv,
         \/ DetectReorg \/ DeleteBatchesNewerThanBatchNumber \/ DeletionFails \/ Halt
         \/ Sequence \/ Pipeline
  PROVE  StoreInv'
<1>. USE BoundsAssumption DEF StoreInv
<1>0. /\ UNCHANGED <<next, current, handler, job, worker>> /\ StreamInv'
  BY DEF DetectReorg, DeleteBatchesNewerThanBatchNumber, DeletionFails, Halt, Sequence, Pipeline, ProveBatch,
         AggregateProofs, VerifyBatches, stream, StreamInv
<1>1. CASE DetectReorg
  <2>1. PICK n \in verified .. virtual :
          /\ version' = [m \in Numbers |-> IF m > n THEN version[m] + 1 ELSE version[m]]
          /\ virtual' = n
    BY <1>1 DEF DetectReorg
  <2>2. /\ UNCHANGED <<verified, batches, proofs, faults>> /\ reorgs < MaxReorgs
        /\ reorgs' = reorgs + 1 /\ reorg' = "detected"
    BY <1>1 DEF DetectReorg
  <2>3. reorgs' # 0 /\ reorgs' \in 0 .. MaxReorgs
    BY <2>2 DEF L1Typed
  <2>4. /\ version' \in [Numbers -> 0 .. MaxReorgs]
        /\ \A m \in Numbers : version'[m] <= reorgs'
    BY <2>1, <2>2 DEF L1Typed
  <2>5. L1Typed'
    BY <1>0, <2>1, <2>2, <2>3, <2>4 DEF L1Typed
  <2>6. VersionsGrow
    BY <2>1 DEF VersionsGrow, L1Typed
  <2>7. RowsTyped' /\ RowsInv'
    BY <2>2, <2>6, HashGrows DEF RowsTyped, RowsInv
  <2>8. JobInv'
    <3>1. handler \in Ended => next.batch \in Numbers /\ next.batch \in 0 .. NumBatches
      BY DEF StreamInv, Numbers
    <3>. QED  BY <1>0, <2>6, <3>1, ItemGrows, HashGrows DEF JobInv, Ended
  <2>9. WorkerInv'
    <3>1. \A m \in Numbers : m \in 0 .. NumBatches
      BY DEF Numbers
    <3>. QED  BY <1>0, <2>6, <3>1, HashGrows DEF WorkerInv
  <2>. QED  BY <1>0, <2>5, <2>7, <2>8, <2>9
<1>2. CASE ~ DetectReorg
  <2>1. UNCHANGED <<version, reorgs>>
    BY <1>2
    DEF DeleteBatchesNewerThanBatchNumber, DeletionFails, Halt, Sequence, Pipeline,
        ProveBatch, AggregateProofs, VerifyBatches, l1
  <2>2. JobInv' /\ WorkerInv'
    BY <1>0, <2>1, HashKept DEF JobInv, WorkerInv
  <2>3. CASE DeleteBatchesNewerThanBatchNumber
    <3>1. RowsTyped' /\ RowsInv'
      BY <2>1, <2>3, DeleteRows, HashKept
      DEF DeleteBatchesNewerThanBatchNumber, RowsInv
    <3>2. L1Typed'
      BY <2>3 DEF DeleteBatchesNewerThanBatchNumber, L1Typed, l1
    <3>. QED  BY <1>0, <2>2, <3>1, <3>2
  <2>4. CASE DeletionFails \/ Halt \/ Sequence \/ Pipeline
    <3>1. batches' = batches
      BY <2>4 DEF DeletionFails, Halt, Sequence, Pipeline, ProveBatch, AggregateProofs, VerifyBatches
    <3>2. RowsTyped' /\ RowsInv'
      BY <2>1, <3>1, HashKept DEF RowsTyped, RowsInv
    <3>3. CASE DeletionFails \/ Halt \/ Sequence
      <4>1. L1Typed'
        BY <1>0, <2>1, <3>3 DEF DeletionFails, Halt, Sequence, L1Typed, l1
      <4>. QED  BY <1>0, <2>2, <3>2, <4>1
    <3>4. CASE ProveBatch
      <4>1. \A r \in proofs' : r \in proofs \/ (r.from \in Numbers /\ r.to = r.from)
        BY <3>4 DEF ProveBatch
      <4>. QED
        BY <1>0, <2>2, <3>2, <3>4, <4>1 DEF ProveBatch, L1Typed, l1, Numbers
    <3>5. CASE AggregateProofs
      <4>1. \A r \in proofs' :
              \/ r \in proofs
              \/ \E x, y \in proofs : x.to + 1 = y.from /\ r.from = x.from /\ r.to = y.to
        <5>1. PICK x, y \in proofs :
                /\ x.to + 1 = y.from
                /\ proofs' = (proofs \ {x, y}) \cup
                     {[from |-> x.from, to |-> y.to, old |-> x.old, of |-> x.of \o y.of]}
          BY <3>5 DEF AggregateProofs
        <5>2. \A z : [from |-> x.from, to |-> y.to, old |-> x.old, of |-> z].from = x.from
                  /\ [from |-> x.from, to |-> y.to, old |-> x.old, of |-> z].to = y.to
          OBVIOUS
        <5>3. \A r \in proofs' : r \in proofs \/ (r.from = x.from /\ r.to = y.to)
          BY <5>1, <5>2
        <5>. QED  BY <5>1, <5>3
      <4>2. \A r \in proofs' : r.from \in Numbers /\ r.to \in r.from .. NumBatches
        BY <4>1 DEF L1Typed, Numbers
      <4>. QED
        BY <1>0, <2>2, <3>2, <3>5, <4>2 DEF AggregateProofs, L1Typed, l1
    <3>6. CASE VerifyBatches
      <4>1. /\ proofs' \subseteq proofs /\ UNCHANGED <<virtual, reorg, faults>>
            /\ verified' \in 0 .. virtual
        BY <3>6 DEF VerifyBatches, L1Typed, Numbers
      <4>. QED  BY <1>0, <2>1, <2>2, <3>2, <4>1 DEF L1Typed
    <3>. QED  BY <1>0, <2>2, <2>4, <3>2, <3>3, <3>4, <3>5, <3>6 DEF Pipeline
  <2>. QED  BY <1>2, <2>3, <2>4
<1>. QED  BY <1>1, <1>2

LEMMA StoreStep == StoreInv /\ [Next]_vars => StoreInv'
<1>. SUFFICES ASSUME StoreInv, [Next]_vars PROVE StoreInv'
  OBVIOUS
<1>1. CASE UNCHANGED vars
  <2>1. UNCHANGED <<version, virtual, verified, batches, proofs, next, current, handler,
                    job, worker, reorg, reorgs, faults>>
    BY <1>1 DEF vars
  <2>2. RowsTyped' /\ L1Typed' /\ StreamInv'
    BY <2>1 DEF StoreInv, RowsTyped, L1Typed, StreamInv
  <2>3. RowsInv'
    BY <2>1, HashKept DEF StoreInv, RowsInv
  <2>4. JobInv'
    BY <2>1, HashKept DEF StoreInv, JobInv
  <2>5. WorkerInv'
    BY <2>1, HashKept DEF StoreInv, WorkerInv
  <2>. QED  BY <2>2, <2>3, <2>4, <2>5 DEF StoreInv
<1>. QED
  BY <1>1, StreamEntry, StreamJob, StreamStore, WorkerSteps, StreamEnds, StreamStarts, L1Steps
  DEF Next, HandleReceivedDataStream, RetrieveWitness, HandleReorg

LEMMA StoreKept == Spec => []StoreInv
  BY StoreInit, StoreStep, PTL DEF Spec

(* The values of the tables and of the variables, for any stream. *)
THEOREM StreamTypeCorrect == Spec => []TypeOK
  BY StoreKept, StoreInvTyped, PTL

(* Every row of the batch table, whoever wrote it last, is a batch L1 has or had, with
   all its blocks, and its hash chain is complete: for any number of workers, crashes in
   the middle of a batch, and reorganisations. *)
THEOREM StoredBatchesMatch == Spec => []BatchesMatchL1
<1>1. StoreInv => BatchesMatchL1
  BY DEF StoreInv, RowsInv, HashOnceOnL1, BatchesMatchL1
<1>. QED  BY StoreKept, <1>1, PTL

-----------------------------------------------------------------------------
(* Witnesses. *)

(* No worker has a copy of the batch that is about to be stored, so that its witness
   has not been retrieved since the table was looked at. *)
WitnessSeen ==
  handler = "store" /\ next.batch \in DOMAIN batches /\ batches[next.batch].witness
    => job.witness

WitnessesStay ==
  \A n \in DOMAIN batches :
    batches[n].witness /\ n >= verified /\ reorg = "none"
      => n \in DOMAIN batches' /\ batches'[n].witness

LEMMA WitnessStep ==
  ASSUME StoreInv, WitnessSeen, [Next]_vars
  PROVE  WitnessSeen' /\ WitnessesStay
<1>. USE DEF StoreInv
<1>1. CASE UNCHANGED <<batches, handler, next, job>>
  BY <1>1 DEF WitnessSeen, WitnessesStay
<1>2. CASE StoreBatch
  <2>1. /\ handler = "store" /\ handler' \in {"entry", "handOver"}
        /\ job \in DBBatches /\ job.batch = next.batch
        /\ batches' = AddBatch(batches, job)
    BY <1>2 DEF StoreBatch, NextBatch, JobInv
  <2>2. /\ \A n \in DOMAIN batches' : batches'[n] = IF n = job.batch THEN job ELSE batches[n]
        /\ DOMAIN batches' = DOMAIN batches \cup {job.batch}
    BY <2>1, AddRow
  <2>. QED  BY <2>1, <2>2 DEF WitnessSeen, WitnessesStay
<1>3. ASSUME NEW w \in Workers, StoreWitness(w)
      PROVE  WitnessSeen' /\ WitnessesStay
  <2>1. /\ UNCHANGED <<next, handler, job>> /\ worker[w].witness
        /\ worker[w] \in DBBatches /\ worker[w].batch < next.batch
        /\ worker[w].batch \in Numbers
        /\ batches' = AddBatch(batches, worker[w])
    BY <1>3 DEF StoreWitness, stream, WorkerInv
  <2>2. /\ \A n \in DOMAIN batches' :
             batches'[n] = IF n = worker[w].batch THEN worker[w] ELSE batches[n]
        /\ DOMAIN batches' = DOMAIN batches \cup {worker[w].batch}
    BY <2>1, AddRow
  <2>3. worker[w].batch # next.batch
    BY <2>1, BoundsAssumption DEF Numbers, StreamInv
  <2>. QED  BY <2>1, <2>2, <2>3 DEF WitnessSeen, WitnessesStay
<1>4. CASE CalculateAccInputHash
  <2>1. /\ UNCHANGED <<batches, next>> /\ handler' = "store"
        /\ job'.witness = StoredWitness(job.batch) /\ job.batch = next.batch
    BY <1>4 DEF CalculateAccInputHash, DBBatch, JobInv
  <2>. QED  BY <2>1 DEF WitnessSeen, WitnessesStay, StoredWitness
<1>5. CASE DeleteBatchesNewerThanBatchNumber
  <2>1. /\ reorg = "detected" /\ UNCHANGED <<next, handler, job>>
        /\ \A n \in DOMAIN batches' : n \in DOMAIN batches /\ batches'[n] = batches[n]
    BY <1>5, DeleteRows DEF DeleteBatchesNewerThanBatchNumber, stream
  <2>. QED  BY <2>1 DEF WitnessSeen, WitnessesStay
<1>6. CASE Start
  <2>. DEFINE T == Deleting(batches, {n \in DOMAIN batches : n < verified})
  <2>1. /\ handler' = "entry" /\ batches' = AddBatch(T, DummyBatch(verified))
        /\ DummyBatch(verified).batch = verified /\ DummyBatch(verified).witness
    <3>1. verified \in 0 .. NumBatches
      BY BoundsAssumption DEF L1Typed
    <3>. QED  BY <1>6, <3>1, DummyTyped DEF Start
  <2>2. \A n \in DOMAIN batches : n >= verified => n \in DOMAIN T /\ T[n] = batches[n]
    BY BoundsAssumption DEF Deleting, RowsTyped, L1Typed
  <2>3. ASSUME NEW n \in DOMAIN batches, batches[n].witness, n >= verified
        PROVE  n \in DOMAIN batches' /\ batches'[n].witness
    BY <2>1, <2>2, <2>3 DEF AddBatch
  <2>. QED  BY <2>1, <2>3 DEF WitnessSeen, WitnessesStay
<1>7. CASE UNCHANGED batches /\ handler' # "store"
  BY <1>7 DEF WitnessSeen, WitnessesStay
<1>. QED
  BY <1>1, <1>2, <1>3, <1>4, <1>5, <1>6, <1>7
  DEF Next, HandleReceivedDataStream, RetrieveWitness, HandleReorg, Pipeline, BatchStart,
      L2Block, BatchEnd, ReadL1, PreviousBatchMissing, HandOver, NextBatch, GetWitness,
      DetectReorg, DeletionFails, Halt, Sequence, ProveBatch, AggregateProofs, VerifyBatches, Crash,
      OperatorStops, ProcessEnds, Receive, stream, vars

(* A witness that was retrieved stays in the table, although the handler stores the batch
   again, without its witness, whenever the stream is read again. *)
THEOREM WitnessesKept == Spec => WitnessKept
<1>1. Init => WitnessSeen
  BY DEF Init, WitnessSeen
<1>2. StoreInv /\ WitnessSeen /\ [Next]_vars => WitnessSeen'
  BY WitnessStep
<1>3. StoreInv /\ WitnessSeen /\ [Next]_vars => [WitnessesStay]_vars
  BY WitnessStep
<1>. QED  BY StoreKept, <1>1, <1>2, <1>3, PTL DEF Spec, WitnessKept, WitnessesStay
=============================================================================
