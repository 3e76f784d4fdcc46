----------------------------- MODULE ProofPool ------------------------------
(***************************************************************************)
(* What the proving pipeline promises, without provers, locks, queries or  *)
(* failures: a pool of ranges of batches in which no batch is twice, whose *)
(* adjacent proven ranges are merged, and out of which whole sequences are *)
(* submitted to L1, where the last verified batch only moves forward.      *)
(***************************************************************************)
EXTENDS Naturals

CONSTANTS LastBatch, L1Sequences

VARIABLES pool, submitted, verified

vars == <<pool, submitted, verified>>

Batches == 1 .. LastBatch

Covered(b) == \E i \in pool : i.from <= b /\ b <= i.to

EndsSequence(b) == \E s \in L1Sequences : s.to = b

Init == pool = {} /\ submitted = {} /\ verified = 0

(* Somebody starts to prove a batch nobody else works on (possibly a verified
   one, after reading a stale number of verified batches). *)
Claim ==
  /\ \E b \in Batches :
       /\ ~ Covered(b)
       /\ pool' = pool \cup {[from |-> b, to |-> b, proven |-> FALSE]}
  /\ UNCHANGED <<submitted, verified>>

Prove ==
  /\ \E i \in pool : pool' = (pool \ {i}) \cup {[i EXCEPT !.proven = TRUE]}
  /\ UNCHANGED <<submitted, verified>>

Merge ==
  /\ \E i, j \in pool :
       /\ i.to + 1 = j.from
       /\ i.proven /\ j.proven
       /\ \E b \in BOOLEAN :
            pool' = (pool \ {i, j})
                      \cup {[from |-> i.from, to |-> j.to, proven |-> b]}
  /\ UNCHANGED <<submitted, verified>>

(* Ranges leave the pool, their proofs get lost, and what was submitted is given
   up: nothing is persistent. *)
Lose ==
  /\ \E S \in SUBSET pool, T \in SUBSET pool :
       pool' = ((pool \ S) \ T) \cup {[i EXCEPT !.proven = FALSE] : i \in T \ S}
  /\ submitted' \subseteq submitted
  /\ UNCHANGED verified

(* A proven range is sent to L1. *)
Submit ==
  /\ \E i \in pool : /\ i.proven
                     /\ EndsSequence(i.to)
                     /\ submitted' = submitted \cup {[from |-> i.from, to |-> i.to]}
  /\ UNCHANGED <<pool, verified>>

(* L1 accepts a range that starts at or below the next batch to verify. *)
Verify ==
  /\ \E i \in submitted : /\ i.from <= verified + 1
                          /\ i.to > verified
                          /\ verified' = i.to
                          /\ submitted' \in {submitted, submitted \ {i}}
  /\ UNCHANGED pool

Next == Claim \/ Prove \/ Merge \/ Lose \/ Submit \/ Verify

Spec == Init /\ [][Next]_vars
=============================================================================
