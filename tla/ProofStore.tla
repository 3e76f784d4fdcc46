----------------------------- MODULE ProofStore -----------------------------
(***************************************************************************)
(* The tables aggregator.proof and aggregator.sequence, and the statements *)
(* state/pgstatestorage runs on them, as operators on sets of rows.        *)
(*                                                                         *)
(* A proof held in memory (state.Proof) is a record [from, to, made]: the  *)
(* range of batches it is for, and whether its Proof field holds a         *)
(* generated proof or is still the empty string.  A row of aggregator.proof*)
(* adds the column generating_since, abstracted to                         *)
(*    "null"    nobody works on the row (it is unlocked),                  *)
(*    "recent"  locked for less than GeneratingProofCleanupThreshold,      *)
(*    "old"     locked for longer.                                         *)
(* A row of aggregator.sequence is an interval [from, to].                 *)
(***************************************************************************)
EXTENDS Naturals

Since == {"null", "recent", "old"}

Proof(from, to, made) == [from |-> from, to |-> to, made |-> made]

(* The row that stores proof c. *)
Row(c, since) ==
  [from |-> c.from, to |-> c.to, made |-> c.made, since |-> since]

(* What a SELECT hands to the caller. *)
Content(r) == Proof(r.from, r.to, r.made)

(* The primary key of aggregator.proof is (batch_num, batch_num_final). *)
SameKey(x, y) == x.from = y.from /\ x.to = y.to

Contains(i, b) == i.from <= b /\ b <= i.to

Within(x, i) == i.from <= x.from /\ x.to <= i.to

Disjoint(x, y) == x.to < y.from \/ y.to < x.from

-----------------------------------------------------------------------------
(* Queries *)

(* Mutation: only the first batch of a row is looked at. *)
ExistsAtFirstBatch(P, b) == \E r \in P : r.from = b

CheckProofExistsForBatch(P, b) == \E r \in P : Contains(r, b)

(* Mutation: the end of the proof is not looked at. *)
CompleteAtStart(S, x) == \E s \in S : s.from = x.from

CheckProofContainsCompleteSequences(S, x) ==
  /\ \E s \in S : s.from = x.from
  /\ \E s \in S : s.to = x.to

(* Mutation: batch_num >= $1. *)
ReadyAnywhere(P, S, lastVerified) ==
  {r \in P : /\ r.from >= lastVerified + 1
             /\ r.since = "null"
             /\ CheckProofContainsCompleteSequences(S, r)}

(* Mutation: generating_since IS NULL is missing. *)
ReadyIgnoringLock(P, S, lastVerified) ==
  {r \in P : /\ r.from = lastVerified + 1
             /\ CheckProofContainsCompleteSequences(S, r)}

GetProofReadyToVerify(P, S, lastVerified) ==
  {r \in P : /\ r.from = lastVerified + 1
             /\ r.since = "null"
             /\ CheckProofContainsCompleteSequences(S, r)}

(* Both proofs lie inside one sequence. *)
SameSequence(S, x, y) == \E s \in S : Within(x, s) /\ Within(y, s)

Adjacent(x, y) == x.to + 1 = y.from

(* Mutation: the sequences are not looked at. *)
AnyAdjacentPair(P, S) ==
  {c \in P \X P :
     Adjacent(c[1], c[2]) /\ c[1].since = "null" /\ c[2].since = "null"}

Aggregatable(P, S) ==
  {c \in P \X P :
     /\ Adjacent(c[1], c[2])
     /\ c[1].since = "null"
     /\ c[2].since = "null"
     /\ \/ SameSequence(S, c[1], c[2])
        \/ /\ CheckProofContainsCompleteSequences(S, c[1])
           /\ CheckProofContainsCompleteSequences(S, c[2])}

(* ORDER BY p1.batch_num ASC LIMIT 1. *)
GetProofsToAggregate(P, S) ==
  {c \in Aggregatable(P, S) :
     \A d \in Aggregatable(P, S) : c[1].from <= d[1].from}

-----------------------------------------------------------------------------
(* Updates *)

(* UpdateGeneratedProof for each proof of C (two of them in one database
   transaction when a pair is locked or unlocked): no effect when the row has
   gone. *)
UpdateGeneratedProof(P, C, since) ==
  {r \in P : \A c \in C : ~ SameKey(c, r)}
    \cup {Row(c, since) : c \in {d \in C : \E r \in P : SameKey(d, r)}}

(* Mutation: GeneratingSince is not set. *)
AddUnlocked(P, c) == P \cup {Row(c, "null")}

(* INSERT of a proof whose generating_since was just set to now. *)
AddGeneratedProof(P, c) == P \cup {Row(c, "recent")}

(* Mutation: batch_num = $1. *)
DeleteSameFirst(P, x) == {r \in P : r.from # x.from}

(* Mutation: batch_num_final <= $2 is missing. *)
DeleteFromOnwards(P, x) == {r \in P : r.from < x.from}

DeleteGeneratedProofs(P, x) == {r \in P : ~ Within(r, x)}

(* Mutation: no row is ever older than the threshold. *)
CleanupNothing(P) == P

CleanupLockedProofs(P) == {r \in P : r.since # "old"}

DeleteUngeneratedProofs(P) == {r \in P : r.since = "null"}

(* Deleting the batches below a number cascades to the proofs and to the
   sequences whose first batch is one of them. *)
DeleteBatchesOlderThanBatchNumber(T, b) == {r \in T : r.from >= b}

AddSequence(S, s) == {t \in S : t.from # s.from} \cup {s}
=============================================================================
