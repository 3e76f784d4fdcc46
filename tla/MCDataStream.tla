---------------------------- MODULE MCDataStream ----------------------------
(* Small instances of DataStream for TLC. *)
EXTENDS DataStream, TLC

(* The L2 blocks of each batch. *)
OneOrTwoBlocks == <<<<1>>, <<2, 3>>, <<4>>>>
OneBlock == <<<<1>>, <<2>>>>
OneBlockEach == <<<<1>>, <<2>>, <<3>>>>

WorkerSymmetry == Permutations(Workers)
=============================================================================
