----------------------------- MODULE ProverInput -----------------------------
(***************************************************************************)
(* What the prover of a batch is given: a sequencer builds the data of a   *)
(* batch with a BatchV2Encoder, the batch is closed with the root of the   *)
(* L1 info tree, and buildInputProver (aggregator.go) decodes the data and *)
(* collects a leaf of the tree and its Merkle proof for every index that a *)
(* block refers to.                                                        *)
(*                                                                         *)
(* The leaves come from the L1 synchronizer, in one read for the proofs    *)
(* and one for each leaf; L1 grows, and may be reorganised, at any time.   *)
(***************************************************************************)
EXTENDS L1InfoTree, BatchCodec, SequencesExt

CONSTANTS
  RawTxs,     \* the transactions the sequencer may add
  DeltaTimestamps,  \* the times it may put between two blocks
  MaxItems,   \* bound on the number of headers and transactions of a batch
  MaxLeaves,  \* bound on the number of leaves of the tree
  MaxReorgs   \* bound on the number of reorganisations of L1

ASSUME InputAssumption ==
  /\ {MaxItems, MaxReorgs} \subseteq Nat
  /\ MaxLeaves \in 0 .. PowersOf2[Height]
  /\ \A n \in DeltaTimestamps \cup 0 .. MaxLeaves - 1 : Fits(n, sizeUInt32)

(* Signed transactions, some of them in the form in which a batch has them. *)
ASSUME RawTxsAssumption ==
  \A raw \in RawTxs :
    /\ raw \in [TxAlreadyEncoded : BOOLEAN, Data : Seq(Byte), Tx : LegacyTxs,
                EfficiencyPercentage : Byte]
    /\ raw.Data = IF raw.TxAlreadyEncoded THEN prepareRLPTxData(raw.Tx) ELSE <<>>

VARIABLES
  leaves,     \* the leaves of the tree on L1
  reorgs,     \* the number of reorganisations of L1 so far
  tree,       \* an L1InfoTree that follows them
  batchData,  \* the data of the batch, as the encoder has built it
  blocks,     \* what has been added to the encoder: the blocks, and the
  orphans,    \* transactions before the first of them
  batch,      \* once the batch is closed: its kind and L1InfoRoot, and reorgs then
  build       \* how far buildInputProver is

vars == <<leaves, reorgs, tree, batchData, blocks, orphans, batch, build>>
l1Vars == <<leaves, reorgs, tree>>
encoderVars == <<batchData, blocks, orphans>>

NoBatch == [kind |-> "none", L1InfoRoot |-> ZeroHashes[Height], reorgs |-> 0]

(* torn: L1 has been reorganised between the reads. *)
NoBuild ==
  [step |-> "none", aLeaves |-> <<>>, reorgs |-> 0, next |-> 1,
   l1InfoTreeData |-> <<>>, torn |-> FALSE]

(* buildInputProver has got nowhere, or has returned without an input. *)
Ended(step) == [NoBuild EXCEPT !.step = step]

Leaf(i) == i + reorgs * MaxLeaves
Leaves == 1 .. MaxLeaves * (MaxReorgs + 1)

Steps == {"none", "start", "leaves", "done", "malformed", "mismatch", "failed"}

TypeOK ==
  /\ leaves \in Seq(Leaves) /\ Len(leaves) <= MaxLeaves
  /\ reorgs \in 0 .. MaxReorgs
  /\ tree.count = Len(leaves) /\ Len(tree.siblings) = Height
  /\ batchData \in Seq(Byte)
  /\ Len(batchData) > 0 <=> blocks # <<>> \/ orphans # <<>>
  /\ batch.kind \in {"none", "regular", "first", "forced"}
  /\ build.step \in Steps
  /\ build.step = "none" <=> batch.kind = "none"
  /\ DOMAIN build.l1InfoTreeData \subseteq 1 .. MaxLeaves - 1
  /\ build.next \in 1 .. Len(blocks) + 1

Init ==
  /\ leaves = <<>>
  /\ reorgs = 0
  /\ tree = NewL1InfoTree(<<>>)
  /\ batchData = <<>>
  /\ blocks = <<>>
  /\ orphans = <<>>
  /\ batch = NoBatch
  /\ build = NoBuild

-----------------------------------------------------------------------------
(* L1, and a tree that follows it.  What happens on L1 while the encoder is at work
   might as well happen before or after. *)

Encoding == batch.kind = "none" /\ batchData # <<>>

L1Grows ==
  /\ ~ Encoding
  /\ Len(leaves) < MaxLeaves
  /\ leaves' = Append(leaves, Leaf(Len(leaves) + 1))
  /\ tree' = AddLeaf(tree, Len(leaves), Leaf(Len(leaves) + 1))
  /\ UNCHANGED <<reorgs, encoderVars, batch, build>>

L1Reorg ==
  /\ ~ Encoding
  /\ reorgs < MaxReorgs
  /\ \E n \in 0 .. Len(leaves) - 1 : leaves' = SubSeq(leaves, 1, n)
  /\ reorgs' = reorgs + 1
  /\ tree' = NewL1InfoTree(leaves')
  /\ UNCHANGED <<encoderVars, batch, build>>

-----------------------------------------------------------------------------
(* The encoder *)

Items ==
  Len(orphans) + Len(blocks)
    + FoldLeft(LAMBDA n, block : n + Len(block.Transactions), 0, blocks)

(* What is left of a transaction when it has been encoded. *)
Plain(tx) == [tx EXCEPT !.TxAlreadyEncoded = FALSE, !.Data = <<>>]

AddBlockHeader ==
  /\ batch.kind = "none"
  /\ Items < MaxItems
  /\ \E index \in {0} \cup 1 .. Len(leaves) - 1, delta \in DeltaTimestamps :
       LET header == [DeltaTimestamp |-> delta, IndexL1InfoTree |-> index,
                      Transactions |-> <<>>]
       IN /\ batchData' = EncodeHeader(header, batchData)
          /\ blocks' = Append(blocks, header)
  /\ UNCHANGED <<l1Vars, orphans, batch, build>>

AddTransaction ==
  /\ batch.kind = "none"
  /\ Items < MaxItems
  /\ \E tx \in RawTxs :
       /\ batchData' = EncodeTx(tx, batchData)
       /\ \/ /\ blocks = <<>>
             /\ orphans' = Append(orphans, Plain(tx))
             /\ UNCHANGED blocks
          \/ /\ blocks # <<>>
             /\ blocks' = [blocks EXCEPT ![Len(blocks)].Transactions = Append(@, Plain(tx))]
             /\ UNCHANGED orphans
  /\ UNCHANGED <<l1Vars, batch, build>>

(* The batch is sequenced (external); the first and forced ones have no blocks. *)
Close ==
  /\ batch.kind = "none"
  /\ \E kind \in IF blocks = <<>> THEN {"regular", "first", "forced"} ELSE {"regular"} :
       batch' = [kind |-> kind, L1InfoRoot |-> ReferenceRoot(leaves), reorgs |-> reorgs]
  /\ build' = Ended("start")
  /\ UNCHANGED <<l1Vars, encoderVars>>

-----------------------------------------------------------------------------
(* buildInputProver *)

IsForcedBatch == batch.kind \in {"first", "forced"}

(* The leaves of the tree with the given root; none if there is no such tree. *)
GetLeafsByL1InfoRoot(root) ==
  LET sizes == {n \in 0 .. Len(leaves) : ReferenceRoot(SubSeq(leaves, 1, n)) = root} IN
  IF sizes = {} THEN <<>> ELSE SubSeq(leaves, 1, CHOOSE n \in sizes : TRUE)

BuildInputProver ==
  /\ build.step = "start"
  /\ build' = IF IsForcedBatch THEN Ended("done")
              ELSE IF DecodeBatchV2(batchData).ok
                THEN [build EXCEPT !.step = "leaves", !.reorgs = reorgs,
                                   !.aLeaves = GetLeafsByL1InfoRoot(batch.L1InfoRoot)]
              ELSE Ended("malformed")
  /\ UNCHANGED <<l1Vars, encoderVars, batch>>

NextBlock == DecodeBatchV2(batchData).blocks[build.next]

(* Mutation: only the first block that refers to the tree is looked at. *)
NothingYet(index) == index # 0 /\ build.l1InfoTreeData = <<>>

NeedsLeaf(index) == index # 0 /\ index \notin DOMAIN build.l1InfoTreeData

(* GetL1InfoTreeLeaves, if the leaf is there, and its proof. *)
AddL1Data ==
  /\ build.step = "leaves"
  /\ build.next <= Len(blocks)
  /\ LET index == NextBlock.IndexL1InfoTree
         data == [leaf |-> leaves[index + 1],
                  smtProof |-> ComputeMerkleProof(index, build.aLeaves)]
     IN build' =
          IF ~ NeedsLeaf(index) THEN [build EXCEPT !.next = @ + 1]
          ELSE IF index >= Len(leaves) THEN Ended("failed")
          ELSE IF batch.L1InfoRoot # BuildL1InfoRoot(build.aLeaves)
            THEN Ended("mismatch")
          ELSE [build EXCEPT !.next = @ + 1, !.torn = @ \/ reorgs # build.reorgs,
                             !.l1InfoTreeData = [i \in {index} \cup DOMAIN @ |->
                                                   IF i = index THEN data ELSE @[i]]]
  /\ UNCHANGED <<l1Vars, encoderVars, batch>>

BuildDone ==
  /\ build.step = "leaves"
  /\ build.next > Len(blocks)
  /\ build' = [Ended("done") EXCEPT !.l1InfoTreeData = build.l1InfoTreeData,
                                   !.torn = build.torn]
  /\ UNCHANGED <<l1Vars, encoderVars, batch>>

(* A read from the database or the L1 synchronizer fails. *)
BuildFails ==
  /\ build.step \in {"start", "leaves"}
  /\ build' = Ended("failed")
  /\ UNCHANGED <<l1Vars, encoderVars, batch>>

(* tryGenerateBatchProof gives the batch back, and some prover takes it again. *)
Retry ==
  /\ build.step \in {"malformed", "mismatch", "failed"}
  /\ build' = Ended("start")
  /\ UNCHANGED <<l1Vars, encoderVars, batch>>

NextBatch ==
  /\ build.step = "done"
  /\ batchData' = <<>>
  /\ blocks' = <<>>
  /\ orphans' = <<>>
  /\ batch' = NoBatch
  /\ build' = NoBuild
  /\ UNCHANGED l1Vars

L1 == L1Grows \/ L1Reorg

Encoder == AddBlockHeader \/ AddTransaction \/ Close

Builder == BuildInputProver \/ AddL1Data \/ BuildDone \/ BuildFails \/ Retry

Next == L1 \/ Encoder \/ Builder \/ NextBatch

Spec == Init /\ [][Next]_vars

-----------------------------------------------------------------------------
(* Properties *)

(* However leaves are added one by one and the tree is built again from all of them,
   the tree's root is that of the tree of 2 ^ Height leaves, and there is only one. *)
TreeFollowsLeaves == SingleRoot(leaves) /\ tree.currentRoot = ReferenceRoot(leaves)

(* A batch decodes to what was added to the encoder, and encodes to the same bytes
   again, although no length of a transaction is written down but in its RLP header,
   and the marker of a block may be a byte of a transaction as well.  Transactions
   before the first block are no batch. *)
DecodesToBlocks ==
  Encoding =>
    IF orphans # <<>> THEN ~ DecodeBatchV2(batchData).ok
    ELSE /\ DecodeBatchV2(batchData).ok
         /\ DecodeBatchV2(batchData).blocks = blocks
         /\ EncodeBatchV2(DecodeBatchV2(batchData).blocks) = batchData

(* A forced batch decodes to the transactions added. *)
ForcedBatchesDecode ==
  Encoding /\ blocks = <<>> =>
    DecodeForcedBatchV2(batchData) = [ok |-> TRUE, txs |-> orphans]

(* Data that breaks off is an error, or makes a batch that breaks off at the same
   place; and the decoder of forced batches never returns other transactions. *)
CutDataNeverMisread ==
  Encoding =>
    \A n \in 0 .. Len(batchData) - 1 :
      LET cut == Slice(batchData, 0, n)
          decoded == DecodeBatchV2(cut)
          forced == DecodeForcedBatchV2(cut)
      IN /\ decoded.ok /\ n > 0 =>
              /\ IsPrefix(SubSeq(decoded.blocks, 1, Len(decoded.blocks) - 1), blocks)
              /\ EncodeBatchV2(decoded.blocks) = cut
         /\ blocks = <<>> /\ forced.ok => IsPrefix(forced.txs, orphans)

(* The indices of the batch, but 0, have a leaf and a proof, and each leaf is proven
   to be in the tree of the batch, unless L1 was reorganised between the reads. *)
InputFitsBatch ==
  build.step = "done" /\ ~ IsForcedBatch =>
    /\ DOMAIN build.l1InfoTreeData = {blocks[i].IndexL1InfoTree : i \in DOMAIN blocks} \ {0}
    /\ build.torn \/
       \A index \in DOMAIN build.l1InfoTreeData :
         LET data == build.l1InfoTreeData[index] IN
         RootOfProof(index, data.leaf, data.smtProof) = batch.L1InfoRoot

(* The check of the root fails for a batch after a reorganisation only: when L1 has
   grown since, the leaves are still those of the batch's own tree. *)
MismatchAfterReorgOnly == build.step = "mismatch" => reorgs # batch.reorgs
=============================================================================
