---------------------------- MODULE ProverChannel ----------------------------
(***************************************************************************)
(* The conversation with one prover: aggregator/prover/prover.go, and the  *)
(* loop of Channel that holds it.                                          *)
(*                                                                         *)
(* A prover connects to the aggregator, and each of its streams is served  *)
(* by a goroutine of its own.  When a stream breaks the prover may connect *)
(* again while the goroutine of the old stream is still on its way out,    *)
(* and while the prover still computes what the old one asked for: nobody  *)
(* ever calls CancelProofRequest.  A call is one action, because a stream  *)
(* carries one request at a time and the prover answers every request.     *)
(*                                                                         *)
(* What the table of proofs decides (is there a proof to finalise, a pair  *)
(* to aggregate, a batch to prove) is left open here: see Aggregator.      *)
(***************************************************************************)
EXTENDS Naturals

CONSTANTS
  MaxConns,     \* bound on the number of goroutines that serve the prover
  ForkId,       \* cfg.ForkId
  ForkIds,      \* the fork IDs of the versions the prover may run
  SanityCheck,  \* cfg.BatchProofSanityCheckEnabled
  Texts         \* what the text of a recursive proof may be like

Conns == 1 .. MaxConns

(* Ids are unique in the program.  Here the id of a job is given out again when the
   job has ended and no goroutine knows of it, so that there may be any number. *)
JobIds == 1 .. MaxConns + 1

(* A recursive proof is a text.  Its publics hold the state root of the batch, or
   another one; or there are none ("mock"), or encoding/json rejects them
   ("unreadable"), or they are too few or no numbers ("broken"). *)
TextKinds == {"root", "otherRoot", "mock", "unreadable", "broken"}

ASSUME BoundAssumption == MaxConns \in Nat
ASSUME ChannelAssumption ==
  /\ ForkId \in ForkIds
  /\ SanityCheck \in BOOLEAN
  /\ Texts \subseteq TextKinds

VARIABLES
  pc,        \* where the goroutine of each connection is
  proofID,   \* proof.ProofID: the job each goroutine asked for last
  live,      \* the connection whose stream is up, or 0
  prover,    \* the prover's fork ID, and whether it has booted
  jobs,      \* the jobs of the prover
  alive,     \* does the aggregator run?
  halted     \* a.halted

vars == <<pc, proofID, live, prover, jobs, alive, halted>>

Waiting ==
  {"waitFinal", "waitAggregated", "waitBatch", "waitOwnAggregated", "waitOwnBatch"}
Asking == {"final", "aggregate", "batch", "ownAggregated", "ownBatch"}
ConnPC ==
  {"none", "new", "fork", "check", "handOver", "handOverOwn", "stuck"}
    \cup Waiting \cup Asking

Job == [kind : {"batch", "aggregated", "final"},
        state : {"pending", "done", "failed", "lost"}, text : Texts \cup {"none"}]

NoJob == [kind |-> "batch", state |-> "lost", text |-> "none"]

(* In particular a goroutine that waits for a job knows its id, and no two know
   the same. *)
TypeOK ==
  /\ pc \in [Conns -> ConnPC]
  /\ proofID \in [Conns -> JobIds \cup {0}]
  /\ live \in Conns \cup {0}
  /\ prover \in [fork : ForkIds, booted : BOOLEAN]
  /\ jobs \in [JobIds -> Job]
  /\ alive \in BOOLEAN
  /\ halted \in BOOLEAN
  /\ \A c \in Conns : pc[c] \in Waiting => proofID[c] # 0
  /\ \A c, d \in Conns : proofID[c] = proofID[d] /\ proofID[c] # 0 => c = d

Init ==
  /\ pc = [c \in Conns |-> "none"]
  /\ proofID = [c \in Conns |-> 0]
  /\ live = 0
  /\ prover \in [fork : ForkIds, booted : {TRUE}]
  /\ jobs = [i \in JobIds |-> NoJob]
  /\ alive = TRUE
  /\ halted = FALSE

-----------------------------------------------------------------------------
(* The prover process (external: what its answers tell about it). *)

proverVars == <<live, prover, jobs>>

Pending(i) == jobs[i].state = "pending"

(* The jobs J, as far as they matter when the goroutines know the jobs in ids. *)
Known(J, ids) ==
  [i \in JobIds |->
     IF J[i].state = "pending" \/ \E c \in Conns : ids[c] = i THEN J[i] ELSE NoJob]

Free(i) == ~ Pending(i) /\ \A c \in Conns : proofID[c] # i

(* The status STATUS_IDLE. *)
Idle == prover.booted /\ \A i \in JobIds : ~ Pending(i)

Connect ==
  /\ live = 0
  /\ \E c \in Conns :
       /\ pc[c] = "none"
       /\ pc' = [pc EXCEPT ![c] = "new"]
       /\ live' = c
  /\ UNCHANGED <<proofID, prover, jobs, alive, halted>>

StreamBreaks ==
  /\ live # 0
  /\ live' = 0
  /\ UNCHANGED <<pc, proofID, prover, jobs, alive, halted>>

Compute ==
  /\ \E i \in JobIds :
       /\ Pending(i)
       /\ \/ jobs' = Known([jobs EXCEPT ![i].state = "failed"], proofID)
          \/ \E t \in IF jobs[i].kind = "final" THEN {"none"} ELSE Texts :
               jobs' = Known([jobs EXCEPT ![i].state = "done", ![i].text = t], proofID)
  /\ UNCHANGED <<pc, proofID, live, prover, alive, halted>>

(* The prover starts again, perhaps another version; it forgets its jobs. *)
Reboot ==
  /\ \E f \in ForkIds : prover' = [fork |-> f, booted |-> FALSE]
  /\ live' = 0
  /\ jobs' = Known([i \in JobIds |-> [jobs[i] EXCEPT !.state = "lost"]], proofID)
  /\ UNCHANGED <<pc, proofID, alive, halted>>

Booted ==
  /\ ~ prover.booted
  /\ prover' = [prover EXCEPT !.booted = TRUE]
  /\ UNCHANGED <<pc, proofID, live, jobs, alive, halted>>

-----------------------------------------------------------------------------
(* Channel *)

Goto(c, to) == pc' = [pc EXCEPT ![c] = to]

(* Goroutine c has done with its proof, and goes on elsewhere. *)
Drop(c, to) ==
  /\ Goto(c, to)
  /\ proofID' = [proofID EXCEPT ![c] = 0]
  /\ jobs' = Known(jobs, proofID')

(* call succeeds on the stream that is up only. *)
CanCall(c) == live = c

(* New and SupportsForkID, once per connection. *)
New(c) ==
  /\ pc[c] = "new"
  /\ Goto(c, IF CanCall(c) THEN "fork" ELSE "none")
  /\ UNCHANGED <<proofID, proverVars, alive, halted>>

(* Mutation: every prover that answers is supported. *)
AnyFork(c) == CanCall(c)

Supported(c) == CanCall(c) /\ prover.fork = ForkId

SupportsForkID(c) ==
  /\ pc[c] = "fork"
  /\ Goto(c, IF Supported(c) THEN "check" ELSE "none")
  /\ UNCHANGED <<proofID, proverVars, alive, halted>>

(* Mutations: the prover is taken for idle whatever it computes, or only while it
   computes. *)
AlwaysIdle(c) == CanCall(c) /\ prover.booted
SaysComputing(c) == CanCall(c) /\ prover.booted /\ ~ Idle

SaysIdle(c) == CanCall(c) /\ Idle

IsIdle(c) ==
  /\ pc[c] = "check"
  /\ ~ halted
  /\ SaysIdle(c)
  /\ Goto(c, "final")
  /\ UNCHANGED <<proofID, proverVars, alive, halted>>

(* ctx.Done: the client has disconnected. *)
Leave(c) ==
  /\ pc[c] = "check"
  /\ ~ CanCall(c)
  /\ Goto(c, "none")
  /\ UNCHANGED <<proofID, proverVars, alive, halted>>

-----------------------------------------------------------------------------
(* FinalProof, AggregatedProof and BatchProof *)

Wanted ==
  [final |-> "final", ownAggregated |-> "final", ownBatch |-> "final",
   aggregate |-> "aggregated", batch |-> "batch"]

WaitAfter ==
  [final |-> "waitFinal", aggregate |-> "waitAggregated", batch |-> "waitBatch",
   ownAggregated |-> "waitOwnAggregated", ownBatch |-> "waitOwnBatch"]

(* The kind of proof a goroutine holds that has got one. *)
Made ==
  [ownAggregated |-> "aggregated", ownBatch |-> "batch", handOver |-> "final",
   handOverOwn |-> "final"]

(* Where a goroutine goes on that has nothing to ask for, whose request is
   refused, or that waits in vain.  An aggregated proof that could not be stored
   is no proof generated: the goroutine goes on to prove a batch. *)
WithoutProof ==
  [final |-> {"aggregate"}, aggregate |-> {"batch"}, batch |-> {"check"},
   ownAggregated |-> {"check", "batch"}, ownBatch |-> {"check"},
   waitFinal |-> {"aggregate"}, waitAggregated |-> {"batch"}, waitBatch |-> {"check"},
   waitOwnAggregated |-> {"check", "batch"}, waitOwnBatch |-> {"check"}]

(* Mutations: the id of the new job is not stored, or only if there was none. *)
KeptID(c, id) == proofID[c]
FirstID(c, id) == IF proofID[c] = 0 THEN id ELSE proofID[c]

NewID(c, id) == id

Request(c) ==
  /\ pc[c] \in Asking
  /\ CanCall(c)
  /\ \E id \in JobIds :
       /\ Free(id)
       /\ \A i \in JobIds : Free(i) => id <= i
       /\ proofID' = [proofID EXCEPT ![c] = NewID(c, id)]
       /\ jobs' = Known([jobs EXCEPT ![id] = [kind |-> Wanted[pc[c]],
                                             state |-> "pending", text |-> "none"]],
                        proofID')
  /\ Goto(c, WaitAfter[pc[c]])
  /\ UNCHANGED <<live, prover, alive, halted>>

(* Nothing to ask for, or the request is refused, or the stream is down.  A prover that
   refuses a request has not started the job, whatever the error it answers with. *)
NoRequest(c) ==
  /\ pc[c] \in Asking
  /\ \E to \in WithoutProof[pc[c]] : Drop(c, to)
  /\ UNCHANGED <<live, prover, alive, halted>>

-----------------------------------------------------------------------------
(* waitProof: a proof that is PENDING is asked for again later. *)

Answered(c, state) == CanCall(c) /\ proofID[c] # 0 /\ jobs[proofID[c]].state = state

(* Mutation: an error of the computation is taken for PENDING. *)
OnlyUnknown(c) == ~ CanCall(c) \/ Answered(c, "lost")

WaitFails(c) == ~ CanCall(c) \/ Answered(c, "failed") \/ Answered(c, "lost")

NoProof(c) ==
  /\ pc[c] \in Waiting
  /\ WaitFails(c)
  /\ \E to \in WithoutProof[pc[c]] : Drop(c, to)
  /\ UNCHANGED <<live, prover, alive, halted>>

(* A panic or log.Fatal in any goroutine ends the process. *)
ProcessEnds ==
  /\ alive' = FALSE
  /\ pc' = [d \in Conns |-> "none"]
  /\ live' = 0
  /\ proofID' = [d \in Conns |-> 0]
  /\ jobs' = Known(jobs, proofID')
  /\ UNCHANGED <<prover, halted>>

(* GetStateRootFromProof: the hash is zero in all other cases. *)
GetStateRootFromProof(text) == IF text \in {"root", "otherRoot"} THEN text ELSE "zero"

(* Mutation: the sanity check passes whatever the state root is. *)
NoCheck(text) == TRUE

Sane(text) == SanityCheck => GetStateRootFromProof(text) \in {"zero", "root"}

(* WaitRecursiveProof, and the sanity check of tryGenerateBatchProof. *)
WaitRecursiveProof(c) ==
  /\ pc[c] \in {"waitAggregated", "waitBatch"}
  /\ Answered(c, "done")
  /\ LET job == jobs[proofID[c]]
         readable == job.kind # "final" /\ job.text # "broken"
     IN \/ /\ readable
           /\ \/ pc[c] = "waitAggregated" /\ Goto(c, "ownAggregated")
              \/ pc[c] = "waitBatch" /\ Goto(c, IF Sane(job.text) THEN "ownBatch" ELSE "stuck")
           /\ UNCHANGED <<proofID, proverVars, alive, halted>>
        \/ ~ readable /\ ProcessEnds

(* WaitFinalProof; the proof then waits to be received by sendFinalProof. *)
WaitFinalProof(c) ==
  /\ pc[c] \in {"waitFinal", "waitOwnAggregated", "waitOwnBatch"}
  /\ Answered(c, "done")
  /\ \/ /\ jobs[proofID[c]].kind = "final"
        /\ Goto(c, IF pc[c] = "waitFinal" THEN "handOver" ELSE "handOverOwn")
        /\ UNCHANGED <<proofID, proverVars, alive, halted>>
     \/ jobs[proofID[c]].kind # "final" /\ ProcessEnds

HandOver(c) ==
  /\ \/ pc[c] = "handOver" /\ Drop(c, "aggregate")
     \/ pc[c] = "handOverOwn" /\ Drop(c, "check")
  /\ UNCHANGED <<live, prover, alive, halted>>

(* handleReorg halts the aggregator. *)
Halt ==
  /\ alive
  /\ ~ halted
  /\ halted' = TRUE
  /\ UNCHANGED <<pc, proofID, proverVars, alive>>

Channel(c) ==
  \/ New(c) \/ SupportsForkID(c) \/ IsIdle(c) \/ Leave(c)
  \/ Request(c) \/ NoRequest(c)
  \/ NoProof(c) \/ WaitRecursiveProof(c) \/ WaitFinalProof(c) \/ HandOver(c)

Prover == Connect \/ StreamBreaks \/ Compute \/ Reboot \/ Booted

Next == (\E c \in Conns : Channel(c)) \/ (alive /\ Prover) \/ Halt

Spec == Init /\ [][Next]_vars

FairSpec ==
  /\ Spec
  /\ \A c \in Conns : WF_vars(Channel(c))
  /\ WF_vars(alive /\ Compute)
  /\ WF_vars(alive /\ Booted)

-----------------------------------------------------------------------------
(* Properties *)

(* The prover has one job at most, although jobs of broken connections go on and
   a goroutine asks for up to four proofs after it has found the prover idle:
   IsIdle is checked by Channel only, not before each request. *)
OneJobAtATime == \A i, j \in JobIds : Pending(i) /\ Pending(j) => i = j

(* The proof a goroutine goes on with answers the request it was asked for, whatever
   happened to the ids in between (buildFinalProof overwrites the id of the proof
   it is given) and to the prover.  In particular the type assertions of
   WaitRecursiveProof and WaitFinalProof, which are unchecked, never end the
   process. *)
AnswersMatchRequests ==
  /\ alive
  /\ \A c \in Conns :
       pc[c] \in DOMAIN Made => proofID[c] # 0 /\ jobs[proofID[c]].kind = Made[pc[c]]

(* No request ever reaches a prover of another fork, although the fork ID is asked
   for once per connection and the prover may start again with another version. *)
ForkIdHolds ==
  \A c \in Conns :
    live = c /\ pc[c] \notin {"none", "new", "fork"} => prover.fork = ForkId

(* "Sanity Check: state root from the proof must match the one from the batch"
   (tryGenerateBatchProof), for a proof with publics, which only those of a mock
   prover do not have. *)
BatchStateRootsMatch ==
  SanityCheck =>
    \A c \in Conns :
      pc[c] = "ownBatch" => jobs[proofID[c]].text \in {"root", "mock"}

(* A goroutine gets back to the head of its loop or ends, however its requests
   and waits come out: "default" and PENDING are the only answers it repeats a
   request for.  The exception is a batch that fails the sanity check. *)
LoopsGoOn ==
  \A c \in Conns :
    (pc[c] \in Waiting \cup Asking) ~> (pc[c] \in {"check", "stuck", "none"})

(* A prover that stays connected is used again, although a job of an earlier
   connection may keep it busy and is never cancelled. *)
IdleAgain ==
  \A c \in Conns :
    (pc[c] = "check" /\ live = c) ~> (pc[c] # "check" \/ live # c \/ halted)
=============================================================================
