---------------------------- MODULE MCAggregator ----------------------------
(* Small instances of Aggregator for TLC. *)
EXTENDS Aggregator, TLC

(* Sequences of L1: a batch alone and a pair; or one sequence per batch. *)
SingleAndPair == {[from |-> 1, to |-> 1], [from |-> 2, to |-> 3]}
PairAndSingle == {[from |-> 1, to |-> 2], [from |-> 3, to |-> 3]}
TwoPairs == {[from |-> 1, to |-> 2], [from |-> 3, to |-> 4]}
Singles == {[from |-> b, to |-> b] : b \in 1 .. LastBatch}

(* Configurations of the process. *)
ToL1 == {[backend |-> "l1", profitable |-> TRUE, stored |-> FALSE]}
ToL1Stored == {[backend |-> "l1", profitable |-> TRUE, stored |-> TRUE]}
ThroughAgglayer == {[backend |-> "agglayer", profitable |-> TRUE, stored |-> FALSE]}
AnyBackend == ToL1 \cup ToL1Stored \cup ThroughAgglayer
Unprofitable == {[backend |-> "l1", profitable |-> FALSE, stored |-> FALSE]}
ToL1OrUnprofitable == ToL1 \cup Unprofitable

ProverSymmetry == Permutations(Provers)
=============================================================================
