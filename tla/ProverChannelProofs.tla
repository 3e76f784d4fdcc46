------------------------- MODULE ProverChannelProofs -------------------------
(* Theorems about ProverChannel, for any number of connections, any fork IDs and
   any texts of proofs. *)
EXTENDS ProverChannel, TLAPS

-----------------------------------------------------------------------------
(* The values of the variables. *)

LEMMA KnownJobs ==
  ASSUME NEW J \in [JobIds -> Job], NEW ids \in [Conns -> JobIds \cup {0}]
  PROVE  /\ Known(J, ids) \in [JobIds -> Job]
         /\ \A i \in JobIds : Known(J, ids)[i].state = "pending" <=> J[i].state = "pending"
         /\ \A c \in Conns : ids[c] # 0 => Known(J, ids)[ids[c]] = J[ids[c]]
<1>1. NoJob \in Job /\ NoJob.state # "pending"
  BY DEF NoJob, Job
<1>2. \A i \in JobIds : Known(J, ids)[i] \in {J[i], NoJob}
  BY DEF Known
<1>3. Known(J, ids) \in [JobIds -> Job]
  BY <1>1 DEF Known
<1>4. \A i \in JobIds : Known(J, ids)[i].state = "pending" <=> J[i].state = "pending"
  BY <1>1 DEF Known
<1>5. \A c \in Conns : ids[c] # 0 => Known(J, ids)[ids[c]] = J[ids[c]]
  BY DEF Known
<1>. QED  BY <1>3, <1>4, <1>5

LEMMA NextPlaces ==
  /\ \A at \in Asking \cup Waiting : WithoutProof[at] \subseteq ConnPC \ Waiting
  /\ \A at \in Asking : WaitAfter[at] \in Waiting /\ Wanted[at] \in {"batch", "aggregated", "final"}
  /\ Waiting \subseteq ConnPC
  BY DEF Asking, Waiting, ConnPC, WithoutProof, WaitAfter, Wanted

LEMMA IdsApart ==
  ASSUME TypeOK, NEW c \in Conns, NEW id \in JobIds \cup {0},
         id # 0 => \A d \in Conns : proofID[d] # id,
         proofID' = [proofID EXCEPT ![c] = id]
  PROVE  /\ proofID' \in [Conns -> JobIds \cup {0}]
         /\ \A d, e \in Conns : proofID'[d] = proofID'[e] /\ proofID'[d] # 0 => d = e
  BY DEF TypeOK

(* A goroutine drops its proof. *)
LEMMA DropTyped ==
  ASSUME TypeOK, NEW c \in Conns, NEW to \in ConnPC \ Waiting, Drop(c, to),
         UNCHANGED <<live, prover, alive, halted>>
  PROVE  TypeOK'
<1>. USE DEF TypeOK
<1>1. /\ proofID' = [proofID EXCEPT ![c] = 0]
      /\ jobs' = Known(jobs, proofID')
      /\ pc' = [pc EXCEPT ![c] = to]
  BY DEF Drop, Goto
<1>2. /\ proofID' \in [Conns -> JobIds \cup {0}]
      /\ \A d, e \in Conns : proofID'[d] = proofID'[e] /\ proofID'[d] # 0 => d = e
  BY <1>1, IdsApart
<1>3. jobs' \in [JobIds -> Job]
  BY <1>1, <1>2, KnownJobs
<1>. QED  BY <1>1, <1>2, <1>3

LEMMA EndsTyped ==
  ASSUME TypeOK, ProcessEnds
  PROVE  TypeOK'
<1>1. proofID' = [d \in Conns |-> 0] /\ jobs' = Known(jobs, proofID')
  BY DEF ProcessEnds
<1>2. proofID' \in [Conns -> JobIds \cup {0}] /\ jobs \in [JobIds -> Job]
  BY <1>1 DEF TypeOK
<1>3. jobs' \in [JobIds -> Job]
  BY <1>1, <1>2, KnownJobs
<1>. QED  BY <1>1, <1>3 DEF ProcessEnds, TypeOK, ConnPC, Waiting

LEMMA RequestTyped ==
  ASSUME TypeOK, NEW c \in Conns, Request(c)
  PROVE  TypeOK'
<1>. USE DEF TypeOK
<1>1. PICK id \in JobIds :
        /\ Free(id)
        /\ proofID' = [proofID EXCEPT ![c] = id]
        /\ jobs' = Known([jobs EXCEPT ![id] = [kind |-> Wanted[pc[c]], state |-> "pending",
                                              text |-> "none"]], proofID')
  BY DEF Request, NewID
<1>2. id # 0
  BY DEF JobIds
<1>3. /\ proofID' \in [Conns -> JobIds \cup {0}]
      /\ \A d, e \in Conns : proofID'[d] = proofID'[e] /\ proofID'[d] # 0 => d = e
      /\ proofID'[c] # 0
  BY <1>1, <1>2, IdsApart DEF Free
<1>4. [kind |-> Wanted[pc[c]], state |-> "pending", text |-> "none"] \in Job
  BY NextPlaces DEF Request, Job
<1>5. jobs' \in [JobIds -> Job]
  BY <1>1, <1>3, <1>4, KnownJobs
<1>6. /\ pc' = [pc EXCEPT ![c] = WaitAfter[pc[c]]] /\ WaitAfter[pc[c]] \in ConnPC
      /\ UNCHANGED <<live, prover, alive, halted>>
  BY NextPlaces DEF Request, Goto
<1>. QED  BY <1>1, <1>3, <1>5, <1>6

LEMMA ChannelTyped ==
  ASSUME TypeOK, NEW c \in Conns, Channel(c)
  PROVE  TypeOK'
<1>. USE DEF Goto, proverVars
<1>1. CASE New(c) \/ SupportsForkID(c) \/ IsIdle(c) \/ Leave(c)
  <2>1. /\ pc' = [pc EXCEPT ![c] = pc'[c]]
        /\ pc'[c] \in ConnPC \ Waiting
        /\ UNCHANGED <<proofID, live, prover, jobs, alive, halted>>
    BY <1>1 DEF New, SupportsForkID, IsIdle, Leave, TypeOK, ConnPC, Waiting, Asking
  <2>. QED  BY <2>1 DEF TypeOK
<1>2. CASE Request(c)
  BY <1>2, RequestTyped
<1>3. CASE NoRequest(c) \/ NoProof(c)
  BY <1>3, NextPlaces, DropTyped DEF NoRequest, NoProof
<1>4. CASE WaitRecursiveProof(c)
  <2>1. CASE ProcessEnds
    BY <2>1, EndsTyped
  <2>2. CASE ~ ProcessEnds
    BY <1>4, <2>2 DEF WaitRecursiveProof, TypeOK, ConnPC, Waiting, Asking
  <2>. QED  BY <2>1, <2>2
<1>5. CASE WaitFinalProof(c)
  <2>1. CASE ProcessEnds
    BY <2>1, EndsTyped
  <2>2. CASE ~ ProcessEnds
    BY <1>5, <2>2 DEF WaitFinalProof, TypeOK, ConnPC, Waiting
  <2>. QED  BY <2>1, <2>2
<1>6. CASE HandOver(c)
  <2>1. PICK to \in {"aggregate", "check"} : Drop(c, to)
    BY <1>6 DEF HandOver
  <2>2. to \in ConnPC \ Waiting
    BY DEF ConnPC, Waiting, Asking
  <2>. QED  BY <1>6, <2>1, <2>2, DropTyped DEF HandOver
<1>. QED  BY <1>1, <1>2, <1>3, <1>4, <1>5, <1>6 DEF Channel

LEMMA TypeStep == TypeOK /\ [Next]_vars => TypeOK'
<1>. SUFFICES ASSUME TypeOK, [Next]_vars PROVE TypeOK'
  OBVIOUS
<1>. USE DEF TypeOK
<1>1. CASE UNCHANGED vars \/ Halt
  BY <1>1 DEF vars, Halt, proverVars
<1>2. CASE Connect
  BY <1>2 DEF Connect, ConnPC, Waiting
<1>3. CASE StreamBreaks \/ Booted
  BY <1>3 DEF StreamBreaks, Booted
<1>4. CASE Compute
  <2>1. PICK J \in [JobIds -> Job] : jobs' = Known(J, proofID)
    BY <1>4 DEF Compute, Job
  <2>. QED  BY <1>4, <2>1, KnownJobs DEF Compute
<1>5. CASE Reboot
  <2>1. PICK J \in [JobIds -> Job] : jobs' = Known(J, proofID)
    BY <1>5 DEF Reboot, Job
  <2>2. jobs' \in [JobIds -> Job]
    BY <2>1, KnownJobs
  <2>3. /\ prover' \in [fork : ForkIds, booted : BOOLEAN]
        /\ live' = 0 /\ UNCHANGED <<pc, proofID, alive, halted>>
    BY <1>5 DEF Reboot
  <2>. QED  BY <2>2, <2>3
<1>. QED
  BY <1>1, <1>2, <1>3, <1>4, <1>5, ChannelTyped DEF Next, Prover

(* The values of the variables, and the ids of jobs: a goroutine that waits knows the
   id of its job, and no other goroutine knows it. *)
THEOREM ChannelTypeCorrect == Spec => []TypeOK
<1>1. Init => TypeOK
  <2>. SUFFICES ASSUME Init PROVE TypeOK
    OBVIOUS
  <2>1. prover \in [fork : ForkIds, booted : BOOLEAN]
    BY DEF Init
  <2>2. NoJob \in Job
    BY DEF NoJob, Job
  <2>. QED  BY <2>1, <2>2 DEF Init, TypeOK, ConnPC, Waiting
<1>. QED  BY <1>1, TypeStep, PTL DEF Spec

-----------------------------------------------------------------------------
(* The fork ID. *)

(* A request is only ever sent on a stream whose prover runs the configured fork, also
   when the prover is started again with another version: its streams end first. *)
THEOREM ForkIdAlwaysHolds == Spec => []ForkIdHolds
<1>1. Init => ForkIdHolds
  BY DEF Init, ForkIdHolds
<1>2. TypeOK /\ ForkIdHolds /\ [Next]_vars => ForkIdHolds'
  <2>. SUFFICES ASSUME TypeOK, ForkIdHolds, [Next]_vars,
                       NEW d \in Conns, live' = d, pc'[d] \notin {"none", "new", "fork"}
                PROVE  prover'.fork = ForkId
    BY DEF ForkIdHolds
  <2>. USE DEF TypeOK, ForkIdHolds, proverVars, Goto
  <2>1. CASE UNCHANGED vars \/ Halt
    BY <2>1 DEF vars, Halt
  <2>2. CASE Prover
    <3>1. d # 0
      BY DEF Conns
    <3>. QED  BY <2>2, <3>1 DEF Prover, Connect, StreamBreaks, Compute, Reboot, Booted
  <2>3. ASSUME NEW c \in Conns, SupportsForkID(c)
        PROVE  prover'.fork = ForkId
    BY <2>3 DEF SupportsForkID, Supported
  <2>4. ASSUME NEW c \in Conns, Channel(c), ~ SupportsForkID(c)
        PROVE  prover'.fork = ForkId
    <3>1. CASE ProcessEnds
      BY <3>1 DEF ProcessEnds
    <3>2. CASE ~ ProcessEnds
      <4>1. /\ live' = live /\ prover' = prover
            /\ \A e \in Conns : e # c => pc'[e] = pc[e]
            /\ pc[c] \in {"none", "new", "fork"} => pc'[c] \in {"none", "new", "fork"}
        BY <2>4, <3>2
        DEF Channel, New, IsIdle, Leave, Request, NoRequest, NoProof, Drop,
            WaitRecursiveProof, WaitFinalProof, HandOver, Asking, Waiting
      <4>. QED  BY <4>1
    <3>. QED  BY <3>1, <3>2
  <2>. QED  BY <2>1, <2>2, <2>3, <2>4 DEF Next
<1>. QED  BY ChannelTypeCorrect, <1>1, <1>2, PTL DEF Spec

-----------------------------------------------------------------------------
(* The jobs. *)

(* The kind of the job a goroutine knows of. *)
KindAt(at) ==
  CASE at \in {"waitAggregated", "ownAggregated"} -> "aggregated"
    [] at \in {"waitBatch", "ownBatch"} -> "batch"
    [] OTHER -> "final"

KnowsJob == Waiting \cup DOMAIN Made

KindsMatch ==
  \A c \in Conns :
    pc[c] \in KnowsJob => proofID[c] # 0 /\ jobs[proofID[c]].kind = KindAt(pc[c])

(* The proof a goroutine goes on with is complete. *)
AnsweredAtMade ==
  \A c \in Conns : pc[c] \in DOMAIN Made => ~ Pending(proofID[c])

(* While a job runs, the goroutine of the stream that is up is not past the
   check, unless it waits for that job. *)
BusyKnown ==
  \A i \in JobIds : Pending(i) /\ live # 0 =>
    \/ pc[live] \in {"none", "new", "fork", "check"}
    \/ pc[live] \in Waiting /\ proofID[live] = i

JobsInv == KindsMatch /\ AnsweredAtMade /\ BusyKnown /\ OneJobAtATime

LEMMA MadeKinds ==
  /\ DOMAIN Made = {"ownAggregated", "ownBatch", "handOver", "handOverOwn"}
  /\ \A at \in DOMAIN Made : KindAt(at) = Made[at]
  /\ \A at \in Asking : WaitAfter[at] \in Waiting /\ KindAt(WaitAfter[at]) = Wanted[at]
  /\ Waiting \cap DOMAIN Made = {}
  /\ Waiting \cap {"none", "new", "fork", "check"} = {}
  /\ Asking \cap Waiting = {}
  /\ Asking \cap {"none", "new", "fork", "check"} = {}
  BY DEF Made, KindAt, Asking, Waiting, WaitAfter, Wanted

LEMMA PlacesWithout ==
  \A at \in Asking \cup Waiting : \A to \in WithoutProof[at] : to \notin KnowsJob
  BY DEF Asking, Waiting, WithoutProof, KnowsJob, Made

(* Goroutine c moves on with no more knowledge of jobs than it had. *)
LEMMA DropJobs ==
  ASSUME TypeOK, JobsInv, NEW c \in Conns, NEW to, to \notin KnowsJob, Drop(c, to),
         live' = live,
         live = c => to = "check" \/ \A i \in JobIds : ~ Pending(i)
  PROVE  JobsInv'
<1>1. /\ proofID' = [proofID EXCEPT ![c] = 0]
      /\ jobs' = Known(jobs, proofID')
      /\ pc' = [pc EXCEPT ![c] = to]
  BY DEF Drop, Goto
<1>2. proofID' \in [Conns -> JobIds \cup {0}]
  BY <1>1 DEF TypeOK
<1>3. /\ \A i \in JobIds : Pending(i)' <=> Pending(i)
      /\ \A d \in Conns : d # c /\ proofID[d] # 0 => jobs'[proofID[d]] = jobs[proofID[d]]
  <2>1. jobs \in [JobIds -> Job] /\ \A d \in Conns : d # c => proofID'[d] = proofID[d]
    BY <1>1 DEF TypeOK
  <2>2. /\ \A i \in JobIds : jobs'[i].state = "pending" <=> jobs[i].state = "pending"
        /\ \A d \in Conns : proofID'[d] # 0 => jobs'[proofID'[d]] = jobs[proofID'[d]]
    <3>1. jobs' = Known(jobs, proofID')
      BY <1>1
    <3>2. \A i \in JobIds :
            Known(jobs, proofID')[i].state = "pending" <=> jobs[i].state = "pending"
      BY <1>2, <2>1, KnownJobs
    <3>3. \A d \in Conns :
            proofID'[d] # 0 => Known(jobs, proofID')[proofID'[d]] = jobs[proofID'[d]]
      BY <1>2, <2>1, KnownJobs
    <3>. QED  BY <3>1, <3>2, <3>3
  <2>. QED  BY <2>1, <2>2 DEF Pending
<1>4. \A d \in Conns : pc'[d] \in KnowsJob =>
        d # c /\ pc'[d] = pc[d] /\ proofID'[d] = proofID[d]
  BY <1>1 DEF TypeOK
<1>5. KindsMatch'
  BY <1>3, <1>4 DEF JobsInv, KindsMatch
<1>6. AnsweredAtMade'
  <2>. SUFFICES ASSUME NEW d \in Conns, pc'[d] \in DOMAIN Made PROVE ~ Pending(proofID[d])'
    BY DEF AnsweredAtMade
  <2>1. d # c /\ pc'[d] = pc[d] /\ proofID'[d] = proofID[d] /\ proofID[d] # 0
    BY <1>4 DEF KnowsJob, JobsInv, KindsMatch
  <2>. QED  BY <1>3, <2>1 DEF JobsInv, AnsweredAtMade, Pending
<1>7. BusyKnown'
  BY <1>1, <1>3 DEF JobsInv, BusyKnown, TypeOK
<1>8. OneJobAtATime'
  BY <1>3 DEF JobsInv, OneJobAtATime
<1>. QED  BY <1>5, <1>6, <1>7, <1>8 DEF JobsInv

(* A goroutine asks for a proof: the prover is idle. *)
LEMMA RequestJobs ==
  ASSUME TypeOK, JobsInv, NEW c \in Conns, Request(c)
  PROVE  JobsInv'
<1>1. PICK id \in JobIds :
        /\ Free(id)
        /\ proofID' = [proofID EXCEPT ![c] = id]
        /\ jobs' = Known([jobs EXCEPT ![id] = [kind |-> Wanted[pc[c]], state |-> "pending",
                                              text |-> "none"]], proofID')
  BY DEF Request, NewID
<1>. DEFINE J == [jobs EXCEPT ![id] = [kind |-> Wanted[pc[c]], state |-> "pending",
                                       text |-> "none"]]
<1>2. /\ pc[c] \in Asking /\ live = c /\ c # 0 /\ id # 0
      /\ pc' = [pc EXCEPT ![c] = WaitAfter[pc[c]]]
      /\ live' = live
  BY DEF Request, CanCall, Goto, Conns, JobIds
<1>3. proofID' \in [Conns -> JobIds \cup {0}] /\ J \in [JobIds -> Job]
  BY <1>1, <1>2, NextPlaces DEF TypeOK, Job
<1>4. /\ \A i \in JobIds : Pending(i)' <=> J[i].state = "pending"
      /\ \A d \in Conns : proofID'[d] # 0 => jobs'[proofID'[d]] = J[proofID'[d]]
  BY <1>1, <1>3, KnownJobs DEF Pending
<1>5. \A i \in JobIds : ~ Pending(i)
  BY <1>2, MadeKinds DEF JobsInv, BusyKnown
<1>6. \A i \in JobIds : Pending(i)' <=> i = id
  BY <1>4, <1>5 DEF TypeOK, Pending
<1>7. \A d \in Conns : d # c =>
        pc'[d] = pc[d] /\ proofID'[d] = proofID[d] /\ proofID[d] # id
  BY <1>1, <1>2 DEF TypeOK, Free
<1>8. \A d \in Conns : d # c /\ proofID[d] # 0 => jobs'[proofID[d]] = jobs[proofID[d]]
  BY <1>4, <1>7 DEF TypeOK
<1>9. /\ proofID'[c] = id /\ jobs'[id].kind = Wanted[pc[c]]
      /\ pc'[c] = WaitAfter[pc[c]]
  <2>1. J[id].kind = Wanted[pc[c]]
    BY DEF TypeOK
  <2>. QED  BY <1>1, <1>2, <1>4, <2>1 DEF TypeOK
<1>10. KindsMatch'
  BY <1>2, <1>7, <1>8, <1>9, MadeKinds DEF JobsInv, KindsMatch
<1>11. AnsweredAtMade'
  <2>. SUFFICES ASSUME NEW d \in Conns, pc'[d] \in DOMAIN Made PROVE ~ Pending(proofID[d])'
    BY DEF AnsweredAtMade
  <2>1. d # c
    BY <1>2, <1>9, MadeKinds
  <2>2. proofID[d] # 0 /\ ~ Pending(proofID[d])
    BY <1>7, <2>1 DEF KnowsJob, JobsInv, KindsMatch, AnsweredAtMade
  <2>. QED  BY <1>7, <1>8, <2>1, <2>2 DEF Pending
<1>12. BusyKnown' /\ OneJobAtATime'
  BY <1>2, <1>6, <1>9, MadeKinds DEF BusyKnown, OneJobAtATime
<1>. QED  BY <1>10, <1>11, <1>12 DEF JobsInv

LEMMA EndsJobs ==
  ASSUME TypeOK, JobsInv, ProcessEnds
  PROVE  JobsInv'
<1>1. proofID' = [d \in Conns |-> 0] /\ jobs' = Known(jobs, proofID')
  BY DEF ProcessEnds
<1>2. \A i \in JobIds : Pending(i)' <=> Pending(i)
  BY <1>1, KnownJobs DEF TypeOK, Pending
<1>3. /\ \A d \in Conns : pc'[d] \notin KnowsJob /\ pc'[d] \notin DOMAIN Made
      /\ live' = 0
  BY DEF ProcessEnds, KnowsJob, Waiting, Made
<1>. QED
  BY <1>2, <1>3 DEF JobsInv, KindsMatch, AnsweredAtMade, BusyKnown, OneJobAtATime

(* Goroutine c moves to a place that says no more of its job than the place before. *)
LEMMA MovesJobs ==
  ASSUME TypeOK, JobsInv, NEW c \in Conns, NEW to,
         pc' = [pc EXCEPT ![c] = to], UNCHANGED <<proofID, live, jobs>>,
         \/ to \notin KnowsJob
         \/ pc[c] \in KnowsJob /\ KindAt(to) = KindAt(pc[c]) /\ ~ Pending(proofID[c]),
         \/ live # c
         \/ to \in {"none", "new", "fork", "check"}
         \/ \A i \in JobIds : ~ Pending(i)
  PROVE  JobsInv'
<1>1. \A d \in Conns : pc'[d] = IF d = c THEN to ELSE pc[d]
  BY DEF TypeOK
<1>2. KindsMatch'
  BY <1>1 DEF JobsInv, KindsMatch
<1>3. AnsweredAtMade'
  BY <1>1 DEF JobsInv, AnsweredAtMade, Pending, KnowsJob
<1>4. BusyKnown' /\ OneJobAtATime'
  BY <1>1 DEF JobsInv, BusyKnown, OneJobAtATime, Pending, TypeOK
<1>. QED  BY <1>2, <1>3, <1>4 DEF JobsInv

LEMMA ChannelJobs ==
  ASSUME TypeOK, JobsInv, NEW c \in Conns, Channel(c)
  PROVE  JobsInv'
<1>. USE DEF Goto, proverVars
<1>0. c # 0
  BY DEF Conns
<1>1. ASSUME live = c, pc[c] \notin {"none", "new", "fork", "check"}, NEW i \in JobIds,
             Pending(i)
      PROVE  pc[c] \in Waiting /\ proofID[c] = i
  BY <1>0, <1>1 DEF JobsInv, BusyKnown
<1>2. CASE New(c) \/ SupportsForkID(c) \/ Leave(c)
  <2>1. PICK to \in {"none", "new", "fork", "check"} : pc' = [pc EXCEPT ![c] = to]
    BY <1>2 DEF New, SupportsForkID, Leave
  <2>2. to \notin KnowsJob
    BY DEF KnowsJob, Waiting, Made
  <2>. QED  BY <1>2, <2>1, <2>2, MovesJobs DEF New, SupportsForkID, Leave
<1>3. CASE IsIdle(c)
  <2>1. \A i \in JobIds : ~ Pending(i)
    BY <1>3 DEF IsIdle, SaysIdle, Idle
  <2>2. "final" \notin KnowsJob
    BY DEF KnowsJob, Waiting, Made
  <2>. QED  BY <1>3, <2>1, <2>2, MovesJobs DEF IsIdle
<1>4. CASE NoRequest(c) \/ NoProof(c)
  <2>1. PICK to \in WithoutProof[pc[c]] : Drop(c, to)
    BY <1>4 DEF NoRequest, NoProof
  <2>2. to \notin KnowsJob /\ pc[c] \in Asking \cup Waiting
    BY <1>4, <2>1, PlacesWithout DEF NoRequest, NoProof
  <2>3. live = c => \A i \in JobIds : ~ Pending(i)
    <3>. SUFFICES ASSUME live = c, NEW i \in JobIds, Pending(i) PROVE FALSE
      OBVIOUS
    <3>1. pc[c] \in Waiting /\ proofID[c] = i
      BY <1>1, <2>2, MadeKinds
    <3>. QED
      BY <1>4, <3>1, MadeKinds DEF NoRequest, NoProof, WaitFails, Answered, CanCall, Pending
  <2>. QED  BY <1>4, <2>1, <2>2, <2>3, DropJobs DEF NoRequest, NoProof
<1>5. CASE HandOver(c)
  <2>1. PICK to \in {"aggregate", "check"} : Drop(c, to)
    BY <1>5 DEF HandOver
  <2>2. to \notin KnowsJob /\ pc[c] \notin Waiting \cup {"none", "new", "fork", "check"}
    BY <1>5 DEF HandOver, KnowsJob, Waiting, Made
  <2>. QED  BY <1>1, <1>5, <2>1, <2>2, DropJobs DEF HandOver
<1>6. CASE WaitRecursiveProof(c) \/ WaitFinalProof(c)
  <2>1. CASE ProcessEnds
    BY <2>1, EndsJobs
  <2>2. CASE ~ ProcessEnds
    <3>1. /\ pc[c] \in Waiting /\ proofID[c] # 0 /\ jobs[proofID[c]].state = "done"
          /\ live = c /\ UNCHANGED <<proofID, live, jobs>>
      BY <1>6, <2>2
      DEF WaitRecursiveProof, WaitFinalProof, Answered, CanCall, Waiting
    <3>2. \A i \in JobIds : ~ Pending(i)
      BY <1>1, <3>1, MadeKinds DEF Pending
    <3>3. PICK to \in ConnPC :
            /\ pc' = [pc EXCEPT ![c] = to]
            /\ to = "stuck" \/ KindAt(to) = KindAt(pc[c])
      BY <1>6, <2>2 DEF WaitRecursiveProof, WaitFinalProof, ConnPC, KindAt, Asking
    <3>4. "stuck" \notin KnowsJob
      BY DEF KnowsJob, Waiting, Made
    <3>. QED
      BY <3>1, <3>2, <3>3, <3>4, MovesJobs DEF KnowsJob, Pending
  <2>. QED  BY <2>1, <2>2
<1>. QED  BY <1>2, <1>3, <1>4, <1>5, <1>6, RequestJobs DEF Channel

(* The prover finishes jobs, or forgets them. *)
LEMMA ProverJobs ==
  ASSUME TypeOK, JobsInv, NEW J \in [JobIds -> Job], jobs' = Known(J, proofID),
         \A i \in JobIds : /\ J[i].kind = jobs[i].kind
                           /\ J[i].state = "pending" => jobs[i].state = "pending",
         live' \in {0, live}, UNCHANGED <<pc, proofID>>
  PROVE  JobsInv'
<1>1. proofID \in [Conns -> JobIds \cup {0}]
  BY DEF TypeOK
<1>2. /\ \A i \in JobIds : Pending(i)' => Pending(i)
      /\ \A c \in Conns : proofID[c] # 0 => jobs'[proofID[c]] = J[proofID[c]]
  BY <1>1, KnownJobs DEF Pending
<1>3. KindsMatch'
  BY <1>1, <1>2 DEF JobsInv, KindsMatch
<1>4. AnsweredAtMade'
  <2>. SUFFICES ASSUME NEW c \in Conns, pc[c] \in DOMAIN Made PROVE ~ Pending(proofID[c])'
    BY DEF AnsweredAtMade
  <2>1. proofID[c] \in JobIds
    BY <1>1 DEF JobsInv, KindsMatch, KnowsJob
  <2>. QED  BY <1>2, <2>1 DEF JobsInv, AnsweredAtMade, Pending
<1>5. BusyKnown' /\ OneJobAtATime'
  BY <1>2 DEF JobsInv, BusyKnown, OneJobAtATime
<1>. QED  BY <1>3, <1>4, <1>5 DEF JobsInv

LEMMA JobsStep == TypeOK /\ JobsInv /\ [Next]_vars => JobsInv'
<1>. SUFFICES ASSUME TypeOK, JobsInv, [Next]_vars PROVE JobsInv'
  OBVIOUS
<1>. USE DEF proverVars
<1>1. CASE UNCHANGED <<pc, proofID, live, jobs>>
  BY <1>1 DEF JobsInv, KindsMatch, AnsweredAtMade, BusyKnown, OneJobAtATime, Pending
<1>2. CASE Connect
  <2>1. PICK c \in Conns : /\ pc' = [pc EXCEPT ![c] = "new"]
                           /\ live' = c /\ UNCHANGED <<proofID, jobs>>
    BY <1>2 DEF Connect
  <2>2. \A d \in Conns : pc'[d] = IF d = c THEN "new" ELSE pc[d]
    BY <2>1 DEF TypeOK
  <2>3. "new" \notin KnowsJob /\ "new" \notin DOMAIN Made
    BY DEF KnowsJob, Waiting, Made
  <2>. QED
    BY <2>1, <2>2, <2>3
    DEF JobsInv, KindsMatch, AnsweredAtMade, BusyKnown, OneJobAtATime, Pending
<1>3. CASE StreamBreaks
  BY <1>3
  DEF StreamBreaks, JobsInv, KindsMatch, AnsweredAtMade, BusyKnown, OneJobAtATime, Pending
<1>4. CASE Compute
  <2>1. PICK J \in [JobIds -> Job] :
          /\ jobs' = Known(J, proofID)
          /\ \A i \in JobIds : /\ J[i].kind = jobs[i].kind
                               /\ J[i].state = "pending" => jobs[i].state = "pending"
    <3>0. jobs \in [JobIds -> Job]
      BY DEF TypeOK
    <3>1. PICK i \in JobIds : /\ Pending(i)
                              /\ \/ jobs' = Known([jobs EXCEPT ![i].state = "failed"], proofID)
                                 \/ \E t \in Texts \cup {"none"} :
                                      jobs' = Known([jobs EXCEPT ![i].state = "done",
                                                                 ![i].text = t], proofID)
      BY <1>4 DEF Compute
    <3>2. CASE jobs' = Known([jobs EXCEPT ![i].state = "failed"], proofID)
      <4>. DEFINE J == [jobs EXCEPT ![i].state = "failed"]
      <4>1. J \in [JobIds -> Job]
        BY <3>0 DEF Job
      <4>2. \A k \in JobIds : /\ J[k].kind = jobs[k].kind
                              /\ J[k].state = "pending" => jobs[k].state = "pending"
        BY <3>0 DEF Job
      <4>. QED  BY <3>2, <4>1, <4>2
    <3>3. CASE \E t \in Texts \cup {"none"} :
                 jobs' = Known([jobs EXCEPT ![i].state = "done", ![i].text = t], proofID)
      <4>. PICK t \in Texts \cup {"none"} :
             jobs' = Known([jobs EXCEPT ![i].state = "done", ![i].text = t], proofID)
        BY <3>3
      <4>. DEFINE J == [jobs EXCEPT ![i].state = "done", ![i].text = t]
      <4>1. J \in [JobIds -> Job]
        BY <3>0 DEF Job
      <4>2. \A k \in JobIds : /\ J[k].kind = jobs[k].kind
                              /\ J[k].state = "pending" => jobs[k].state = "pending"
        BY <3>0 DEF Job
      <4>. QED  BY <4>1, <4>2
    <3>. QED  BY <3>1, <3>2, <3>3
  <2>. QED  BY <1>4, <2>1, ProverJobs DEF Compute
<1>5. CASE Reboot
  <2>1. PICK J \in [JobIds -> Job] :
          /\ jobs' = Known(J, proofID)
          /\ \A i \in JobIds : J[i].kind = jobs[i].kind /\ J[i].state # "pending"
    <3>0. jobs \in [JobIds -> Job]
      BY DEF TypeOK
    <3>. DEFINE J == [i \in JobIds |-> [jobs[i] EXCEPT !.state = "lost"]]
    <3>1. J \in [JobIds -> Job]
      BY <3>0 DEF Job
    <3>2. \A i \in JobIds : J[i].kind = jobs[i].kind /\ J[i].state # "pending"
      BY <3>0 DEF Job
    <3>. QED  BY <1>5, <3>1, <3>2 DEF Reboot
  <2>. QED  BY <1>5, <2>1, ProverJobs DEF Reboot
<1>. QED
  BY <1>1, <1>2, <1>3, <1>4, <1>5, ChannelJobs DEF Next, Prover, Halt, Booted, vars

LEMMA JobsKept == Spec => []JobsInv
<1>1. Init => JobsInv
  BY DEF Init, JobsInv, KindsMatch, AnsweredAtMade, BusyKnown, OneJobAtATime, KnowsJob,
         Waiting, Made, Pending, NoJob
<1>. QED  BY ChannelTypeCorrect, <1>1, JobsStep, PTL DEF Spec

(* A prover never computes two proofs at a time, over any number of broken
   connections. *)
THEOREM OneJobAlways == Spec => []OneJobAtATime
<1>1. JobsInv => OneJobAtATime
  BY DEF JobsInv
<1>. QED  BY JobsKept, <1>1, PTL

(* A goroutine only ever goes on with the kind of proof it asked for, so that no type
   assertion ends the process.  The assumption is needed: the publics of a recursive
   proof that are no field elements end it (GetStateRootFromProof). *)
THEOREM AnswersMatch ==
  ASSUME "broken" \notin Texts
  PROVE  Spec => []AnswersMatchRequests
<1>1. Init => alive
  BY DEF Init
<1>2. TypeOK /\ JobsInv /\ alive /\ [Next]_vars => alive'
  <2>. SUFFICES ASSUME TypeOK, JobsInv, alive, [Next]_vars, ~ alive' PROVE FALSE
    OBVIOUS
  <2>1. PICK c \in Conns : ProcessEnds /\ (WaitRecursiveProof(c) \/ WaitFinalProof(c))
    BY DEF Next, vars, Prover, Connect, StreamBreaks, Compute, Reboot, Booted, Halt,
           Channel, New, SupportsForkID, IsIdle, Leave, Request, NoRequest, NoProof,
           WaitRecursiveProof, WaitFinalProof, HandOver
  <2>2. /\ pc[c] \in Waiting /\ proofID[c] \in JobIds
        /\ jobs[proofID[c]].kind = KindAt(pc[c])
    BY <2>1
    DEF WaitRecursiveProof, WaitFinalProof, Waiting, KnowsJob, JobsInv, KindsMatch, TypeOK
  <2>3. jobs[proofID[c]].text # "broken"
    BY <2>2 DEF TypeOK, Job
  <2>4. CASE WaitRecursiveProof(c)
    <3>1. jobs[proofID[c]].kind # "final" /\ Answered(c, "done")
      BY <2>2, <2>4 DEF WaitRecursiveProof, KindAt
    <3>. QED  BY <2>3, <2>4, <3>1 DEF WaitRecursiveProof
  <2>5. CASE WaitFinalProof(c)
    BY <2>2, <2>5 DEF WaitFinalProof, KindAt
  <2>. QED  BY <2>1, <2>4, <2>5
<1>3. JobsInv /\ alive => AnswersMatchRequests
  BY MadeKinds DEF JobsInv, KindsMatch, KnowsJob, AnswersMatchRequests
<1>. QED  BY ChannelTypeCorrect, JobsKept, <1>1, <1>2, <1>3, PTL DEF Spec

-----------------------------------------------------------------------------
(* The sanity check of the state root. *)

(* Recursive proofs have a text. *)
TextsPresent ==
  \A i \in JobIds : jobs[i].state = "done" /\ jobs[i].kind # "final" => jobs[i].text \in Texts

RootsInv == TextsPresent /\ BatchStateRootsMatch

(* The goroutines that have a batch's proof keep it. *)
BatchProofsKept ==
  \A c \in Conns : pc'[c] = "ownBatch" =>
    /\ pc[c] = "ownBatch"
    /\ jobs'[proofID'[c]].text = jobs[proofID[c]].text

LEMMA RootsByKept ==
  ASSUME TypeOK, RootsInv, NEW J \in [JobIds -> Job], jobs' = Known(J, proofID'),
         proofID' \in [Conns -> JobIds \cup {0}],
         \A i \in JobIds : J[i].state = "done" /\ J[i].kind # "final" => J[i].text \in Texts,
         \A c \in Conns : pc'[c] = "ownBatch" =>
           /\ pc[c] = "ownBatch" /\ proofID'[c] = proofID[c] /\ proofID[c] \in JobIds
           /\ J[proofID[c]].text = jobs[proofID[c]].text
  PROVE  RootsInv'
<1>1. \A i \in JobIds : jobs'[i] \in {J[i], NoJob}
  BY DEF Known
<1>2. TextsPresent'
  BY <1>1 DEF TextsPresent, NoJob
<1>3. \A c \in Conns : proofID'[c] # 0 => jobs'[proofID'[c]] = J[proofID'[c]]
  BY KnownJobs
<1>4. BatchProofsKept
  BY <1>3 DEF BatchProofsKept, JobIds
<1>. QED  BY <1>2, <1>4 DEF BatchProofsKept, RootsInv, BatchStateRootsMatch

LEMMA RootsDrop ==
  ASSUME TypeOK, JobsInv, RootsInv, NEW c \in Conns, NEW to, to # "ownBatch", Drop(c, to)
  PROVE  RootsInv'
<1>1. /\ proofID' = [proofID EXCEPT ![c] = 0]
      /\ jobs' = Known(jobs, proofID')
      /\ pc' = [pc EXCEPT ![c] = to]
  BY DEF Drop, Goto
<1>2. proofID' \in [Conns -> JobIds \cup {0}] /\ jobs \in [JobIds -> Job]
  BY <1>1 DEF TypeOK
<1>3. \A d \in Conns : pc'[d] = "ownBatch" =>
        pc[d] = "ownBatch" /\ proofID'[d] = proofID[d] /\ proofID[d] \in JobIds
  <2>. SUFFICES ASSUME NEW d \in Conns, pc'[d] = "ownBatch"
                PROVE  pc[d] = "ownBatch" /\ proofID'[d] = proofID[d] /\ proofID[d] \in JobIds
    OBVIOUS
  <2>1. d # c /\ pc[d] = "ownBatch" /\ proofID'[d] = proofID[d]
    BY <1>1 DEF TypeOK
  <2>2. pc[d] \in KnowsJob
    BY <2>1 DEF KnowsJob, Made
  <2>. QED  BY <2>1, <2>2 DEF JobsInv, KindsMatch, TypeOK
<1>. QED  BY <1>1, <1>2, <1>3, RootsByKept DEF RootsInv, TextsPresent

LEMMA RootsRequest ==
  ASSUME TypeOK, JobsInv, RootsInv, NEW c \in Conns, Request(c)
  PROVE  RootsInv'
<1>1. PICK id \in JobIds :
        /\ Free(id)
        /\ proofID' = [proofID EXCEPT ![c] = id]
        /\ jobs' = Known([jobs EXCEPT ![id] = [kind |-> Wanted[pc[c]], state |-> "pending",
                                              text |-> "none"]], proofID')
  BY DEF Request, NewID
<1>. DEFINE J == [jobs EXCEPT ![id] = [kind |-> Wanted[pc[c]], state |-> "pending",
                                       text |-> "none"]]
<1>2. pc' = [pc EXCEPT ![c] = WaitAfter[pc[c]]] /\ WaitAfter[pc[c]] \in Waiting
  BY MadeKinds DEF Request, Goto
<1>3. proofID' \in [Conns -> JobIds \cup {0}] /\ J \in [JobIds -> Job]
  BY <1>1, NextPlaces DEF TypeOK, Job, Request
<1>4. \A i \in JobIds : J[i].state = "done" /\ J[i].kind # "final" => J[i].text \in Texts
  BY DEF TypeOK, RootsInv, TextsPresent
<1>5. ASSUME NEW d \in Conns, pc'[d] = "ownBatch"
      PROVE  /\ pc[d] = "ownBatch" /\ proofID'[d] = proofID[d] /\ proofID[d] \in JobIds
             /\ J[proofID[d]].text = jobs[proofID[d]].text
  <2>1. d # c /\ pc[d] = "ownBatch" /\ proofID'[d] = proofID[d]
    BY <1>1, <1>2, <1>5 DEF TypeOK, Waiting
  <2>2. pc[d] \in KnowsJob
    BY <2>1 DEF KnowsJob, Made
  <2>3. proofID[d] \in JobIds
    BY <2>2 DEF JobsInv, KindsMatch, TypeOK
  <2>. QED  BY <1>1, <2>1, <2>3 DEF Free, TypeOK
<1>. QED  BY <1>1, <1>3, <1>4, <1>5, RootsByKept

LEMMA RootsEnd ==
  ASSUME TypeOK, RootsInv, ProcessEnds
  PROVE  RootsInv'
<1>1. proofID' = [d \in Conns |-> 0] /\ jobs' = Known(jobs, proofID')
      /\ \A d \in Conns : pc'[d] = "none"
  BY DEF ProcessEnds
<1>. QED  BY <1>1, RootsByKept DEF TypeOK, RootsInv, TextsPresent

(* The publics of a proof that is not a mock prover's hold a state root. *)
LEMMA RootsAnswer ==
  ASSUME "broken" \notin Texts, "unreadable" \notin Texts,
         TypeOK, JobsInv, RootsInv, NEW c \in Conns, WaitRecursiveProof(c), ~ ProcessEnds
  PROVE  RootsInv'
<1>1. /\ pc[c] \in {"waitAggregated", "waitBatch"} /\ proofID[c] \in JobIds
      /\ jobs[proofID[c]].state = "done" /\ jobs[proofID[c]].kind = KindAt(pc[c])
      /\ UNCHANGED <<proofID, jobs>>
  BY DEF WaitRecursiveProof, Answered, proverVars, JobsInv, KindsMatch, KnowsJob, Waiting,
         TypeOK
<1>2. jobs[proofID[c]].text \in Texts
  BY <1>1 DEF RootsInv, TextsPresent, KindAt
<1>3. /\ \A d \in Conns : d # c => pc'[d] = pc[d]
      /\ pc'[c] = "ownBatch" => Sane(jobs[proofID[c]].text)
  BY DEF WaitRecursiveProof, Goto, TypeOK
<1>4. Sane(jobs[proofID[c]].text) /\ SanityCheck => jobs[proofID[c]].text \in {"root", "mock"}
  BY <1>2, ChannelAssumption DEF Sane, GetStateRootFromProof, TextKinds
<1>. QED  BY <1>1, <1>3, <1>4 DEF RootsInv, TextsPresent, BatchStateRootsMatch

LEMMA RootsChannel ==
  ASSUME "broken" \notin Texts, "unreadable" \notin Texts,
         TypeOK, JobsInv, RootsInv, NEW c \in Conns, Channel(c)
  PROVE  RootsInv'
<1>. USE DEF Goto, proverVars
<1>1. CASE UNCHANGED <<proofID, jobs>> /\ \E to \in ConnPC \ {"ownBatch"} :
             pc' = [pc EXCEPT ![c] = to]
  BY <1>1 DEF RootsInv, TextsPresent, BatchStateRootsMatch, TypeOK
<1>2. CASE NoRequest(c) \/ NoProof(c)
  <2>1. PICK to \in WithoutProof[pc[c]] : Drop(c, to)
    BY <1>2 DEF NoRequest, NoProof
  <2>2. to # "ownBatch"
    BY <1>2, <2>1, PlacesWithout DEF NoRequest, NoProof, KnowsJob, Made
  <2>. QED  BY <2>1, <2>2, RootsDrop
<1>3. CASE HandOver(c)
  BY <1>3, RootsDrop DEF HandOver
<1>4. CASE ProcessEnds
  BY <1>4, RootsEnd
<1>5. CASE (WaitRecursiveProof(c) \/ WaitFinalProof(c)) /\ ~ ProcessEnds
  BY <1>1, <1>5, RootsAnswer DEF WaitFinalProof, ConnPC
<1>6. CASE New(c) \/ SupportsForkID(c) \/ IsIdle(c) \/ Leave(c)
  BY <1>1, <1>6 DEF New, SupportsForkID, IsIdle, Leave, ConnPC, Asking
<1>. QED  BY <1>2, <1>3, <1>4, <1>5, <1>6, RootsRequest DEF Channel

(* The prover works on jobs whose proofs nobody goes on with yet. *)
LEMMA RootsProver ==
  ASSUME TypeOK, JobsInv, RootsInv, NEW J \in [JobIds -> Job], jobs' = Known(J, proofID),
         \A i \in JobIds : J[i].state = "done" /\ J[i].kind # "final" => J[i].text \in Texts,
         \A i \in JobIds : ~ Pending(i) => J[i].text = jobs[i].text,
         UNCHANGED <<pc, proofID>>
  PROVE  RootsInv'
<1>1. ASSUME NEW c \in Conns, pc[c] = "ownBatch"
      PROVE  proofID[c] \in JobIds /\ J[proofID[c]].text = jobs[proofID[c]].text
  <2>1. pc[c] \in KnowsJob /\ pc[c] \in DOMAIN Made
    BY <1>1 DEF KnowsJob, Made
  <2>. QED  BY <2>1 DEF JobsInv, KindsMatch, AnsweredAtMade, TypeOK
<1>. QED  BY <1>1, RootsByKept DEF TypeOK

LEMMA RootsStep ==
  ASSUME "broken" \notin Texts, "unreadable" \notin Texts,
         TypeOK, JobsInv, RootsInv, [Next]_vars
  PROVE  RootsInv'
<1>0. jobs \in [JobIds -> Job]
  BY DEF TypeOK
<1>1. CASE UNCHANGED <<pc, proofID, jobs>>
  BY <1>1 DEF RootsInv, TextsPresent, BatchStateRootsMatch
<1>2. CASE Connect
  BY <1>2 DEF Connect, RootsInv, TextsPresent, BatchStateRootsMatch, TypeOK
<1>3. CASE Reboot
  <2>. DEFINE J == [i \in JobIds |-> [jobs[i] EXCEPT !.state = "lost"]]
  <2>1. J \in [JobIds -> Job]
    BY <1>0 DEF Job
  <2>2. \A i \in JobIds : J[i].state # "done" /\ J[i].text = jobs[i].text
    BY <1>0 DEF Job
  <2>. QED  BY <1>3, <2>1, <2>2, RootsProver DEF Reboot
<1>4. CASE Compute
  <2>1. PICK i \in JobIds :
          /\ Pending(i)
          /\ UNCHANGED <<pc, proofID>>
          /\ \/ jobs' = Known([jobs EXCEPT ![i].state = "failed"], proofID)
             \/ \E t \in IF jobs[i].kind = "final" THEN {"none"} ELSE Texts :
                  jobs' = Known([jobs EXCEPT ![i].state = "done", ![i].text = t], proofID)
    BY <1>4 DEF Compute
  <2>2. CASE jobs' = Known([jobs EXCEPT ![i].state = "failed"], proofID)
    <3>. DEFINE J == [jobs EXCEPT ![i].state = "failed"]
    <3>1. J \in [JobIds -> Job]
      BY <1>0 DEF Job
    <3>2. \A k \in JobIds :
            /\ J[k].state = "done" /\ J[k].kind # "final" => J[k].text \in Texts
            /\ ~ Pending(k) => J[k].text = jobs[k].text
      BY <1>0, <2>1 DEF Job, Pending, RootsInv, TextsPresent
    <3>. QED  BY <2>1, <2>2, <3>1, <3>2, RootsProver
  <2>3. CASE \E t \in IF jobs[i].kind = "final" THEN {"none"} ELSE Texts :
               jobs' = Known([jobs EXCEPT ![i].state = "done", ![i].text = t], proofID)
    <3>. PICK t \in IF jobs[i].kind = "final" THEN {"none"} ELSE Texts :
           jobs' = Known([jobs EXCEPT ![i].state = "done", ![i].text = t], proofID)
      BY <2>3
    <3>. DEFINE J == [jobs EXCEPT ![i].state = "done", ![i].text = t]
    <3>1. J \in [JobIds -> Job]
      BY <1>0 DEF Job
    <3>2. \A k \in JobIds :
            /\ J[k].state = "done" /\ J[k].kind # "final" => J[k].text \in Texts
            /\ ~ Pending(k) => J[k].text = jobs[k].text
      BY <1>0, <2>1 DEF Job, Pending, RootsInv, TextsPresent
    <3>. QED  BY <2>1, <3>1, <3>2, RootsProver
  <2>. QED  BY <2>1, <2>2, <2>3
<1>. QED
  BY <1>1, <1>2, <1>3, <1>4, RootsChannel
  DEF Next, Prover, StreamBreaks, Booted, Halt, proverVars, vars

(* With the sanity check on, a batch's proof whose publics can be read is for the state
   root of the batch.  The assumptions are those SanityCheck.cfg shows to be needed. *)
THEOREM StateRootsMatch ==
  ASSUME "broken" \notin Texts, "unreadable" \notin Texts
  PROVE  Spec => []BatchStateRootsMatch
<1>1. Init => RootsInv
  BY DEF Init, RootsInv, TextsPresent, BatchStateRootsMatch, NoJob
<1>2. TypeOK /\ JobsInv /\ RootsInv /\ [Next]_vars => RootsInv'
  BY RootsStep
<1>3. RootsInv => BatchStateRootsMatch
  BY DEF RootsInv
<1>. QED  BY ChannelTypeCorrect, JobsKept, <1>1, <1>2, <1>3, PTL DEF Spec
=============================================================================
