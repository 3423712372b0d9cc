--------------------------- MODULE OpsEngineProofs ---------------------------
(***************************************************************************)
(* That the run a writer compared is the one it replaces, for any number   *)
(* of writers; and of the action engine, for any keys, workers and number  *)
(* of jobs, that a job has a token exactly while it is claimed and that    *)
(* its audit tells its status, its attempts and its one end.               *)
(***************************************************************************)
EXTENDS RunStore, ActionExecution, SequenceTheorems, FiniteSetTheorems, TLAPS

LockHeld == \A w \in Writers : Holds(w) => lockFile /\ runBackend = "local"

OneHolder == \A v, w \in Writers : Holds(v) /\ Holds(w) => v = w

RunIndInv == RunTypeOK /\ LockHeld /\ OneHolder /\ ComparedRunStays

LEMMA RunInitInv == RunInit => RunIndInv
<1> SUFFICES ASSUME RunInit PROVE RunIndInv
  OBVIOUS
<1>1. RunTypeOK
  BY DEF RunInit, RunTypeOK, Steps
<1>2. \A w \in Writers : writerStep[w] = "idle"
  BY DEF RunInit
<1>3. LockHeld /\ OneHolder /\ ComparedRunStays
  BY <1>2 DEF LockHeld, OneHolder, ComparedRunStays, Holds
<1> QED
  BY <1>1, <1>3 DEF RunIndInv

\* A step keeps the types.
LEMMA RunTypeStep == RunTypeOK /\ [RunNext]_runVars => RunTypeOK'
<1> SUFFICES ASSUME RunTypeOK, [RunNext]_runVars PROVE RunTypeOK'
  OBVIOUS
<1> USE DEF RunTypeOK, Steps, Reach
<1>1. CASE UNCHANGED runVars
  BY <1>1 DEF runVars
<1>2. ASSUME NEW w \in Writers, CallSet(w) PROVE RunTypeOK'
  BY <1>2 DEF CallSet
<1>3. ASSUME NEW w \in Writers, SetRow(w) PROVE RunTypeOK'
  BY <1>3 DEF SetRow
<1>4. ASSUME NEW w \in Writers, OpenLock(w) PROVE RunTypeOK'
  BY <1>4 DEF OpenLock
<1>5. ASSUME NEW w \in Writers, ReadRun(w) PROVE RunTypeOK'
  BY <1>5 DEF ReadRun
<1>6. ASSUME NEW w \in Writers, RenameRun(w) PROVE RunTypeOK'
  BY <1>6 DEF RenameRun
<1>7. ASSUME NEW w \in Writers, UnlinkLock(w) PROVE RunTypeOK'
  BY <1>7 DEF UnlinkLock
<1>8. ASSUME NEW w \in Writers, DieWriting(w) PROVE RunTypeOK'
  BY <1>8 DEF DieWriting
<1> QED
  BY <1>1, <1>2, <1>3, <1>4, <1>5, <1>6, <1>7, <1>8 DEF RunNext

\* A step keeps the lock with one holder, and what the holder compared.
LEMMA RunLockStep == RunIndInv /\ [RunNext]_runVars => (LockHeld /\ OneHolder /\ ComparedRunStays)'
<1> DEFINE Goal == LockHeld /\ OneHolder /\ ComparedRunStays
<1> SUFFICES ASSUME RunIndInv, [RunNext]_runVars PROVE Goal'
  OBVIOUS
<1> USE DEF RunIndInv, RunTypeOK, Steps, Reach, LockHeld, OneHolder, ComparedRunStays, Holds
<1>1. CASE UNCHANGED runVars
  BY <1>1 DEF runVars
<1>2. ASSUME NEW w \in Writers, CallSet(w) PROVE Goal'
  BY <1>2 DEF CallSet
<1>3. ASSUME NEW w \in Writers, SetRow(w) PROVE Goal'
  BY <1>3 DEF SetRow
<1>4. ASSUME NEW w \in Writers, OpenLock(w) PROVE Goal'
  BY <1>4 DEF OpenLock
<1>5. ASSUME NEW w \in Writers, ReadRun(w) PROVE Goal'
  BY <1>5 DEF ReadRun
<1>6. ASSUME NEW w \in Writers, RenameRun(w) PROVE Goal'
  BY <1>6 DEF RenameRun
<1>7. ASSUME NEW w \in Writers, UnlinkLock(w) PROVE Goal'
  BY <1>7 DEF UnlinkLock
<1>8. ASSUME NEW w \in Writers, DieWriting(w) PROVE Goal'
  BY <1>8 DEF DieWriting
<1> QED
  BY <1>1, <1>2, <1>3, <1>4, <1>5, <1>6, <1>7, <1>8 DEF RunNext

LEMMA RunStepInv == RunIndInv /\ [RunNext]_runVars => RunIndInv'
  BY RunTypeStep, RunLockStep DEF RunIndInv

\* The state of the run store stays well formed.
THEOREM RunTypeCorrect == RunSpec => []RunTypeOK
<1>1. RunIndInv => RunTypeOK
  BY DEF RunIndInv
<1> QED
  BY <1>1, RunInitInv, RunStepInv, PTL DEF RunSpec

\* Of the writers that read one revision of a run at most one replaces it, in
\* both stores, whatever calls interleave and wherever a process dies.
THEOREM ComparedRunKept == RunSpec => []ComparedRunStays
<1>1. RunIndInv => ComparedRunStays
  BY DEF RunIndInv
<1> QED
  BY <1>1, RunInitInv, RunStepInv, PTL DEF RunSpec

-----------------------------------------------------------------------------
Claimed == {"running", "cancel-requested"}
Statuses == {"queued"} \cup Claimed \cup Ended
Job == [key : Keys, status : Statuses, attempts : Nat, token : Nat, expires : Nat, asked : BOOLEAN]
EventTypes == Statuses \cup {"admitted", "admission-reused", "claimed", "requeued", "cancellation-requested"}

SoundJob(job) == job \in Job /\ (job.token # 0) = (job.status \in Claimed)
SoundHolding(h) == h = Empty \/ h.job \in DOMAIN jobs

ActionIndInv ==
    /\ jobs \in Seq(Job) /\ \A i \in DOMAIN jobs : SoundJob(jobs[i])
    /\ audit \in Seq(Seq(EventTypes)) /\ Len(audit) = Len(jobs)
    /\ sequence \in Nat /\ actionTime \in Nat
    /\ holding = [w \in ActionWorkers |-> holding[w]] /\ \A w \in ActionWorkers : SoundHolding(holding[w])

LEMMA ActionInitInv == ActionInit => ActionIndInv
  BY DEF ActionInit, ActionIndInv, SoundHolding

\* One event more for a job.
LEMMA Audited ==
    ASSUME ActionIndInv, NEW i \in DOMAIN jobs, NEW type \in EventTypes, AppendAudit(i, type)
    PROVE  audit' \in Seq(Seq(EventTypes)) /\ Len(audit') = Len(audit)
<1>1. i \in 1 .. Len(audit) /\ audit[i] \in Seq(EventTypes)
  BY DEF ActionIndInv
<1>2. PICK events \in Seq(EventTypes) : events = Append(audit[i], type)
  <2>1. Append(audit[i], type) \in Seq(EventTypes)
    BY <1>1
  <2> QED
    BY <2>1
<1>3. audit' = [audit EXCEPT ![i] = events]
  BY <1>2 DEF AppendAudit
<1> QED
  BY <1>1, <1>3 DEF ActionIndInv

\* One job is replaced, the others and the length stay.
LEMMA OneJob ==
    ASSUME ActionIndInv, NEW i \in DOMAIN jobs, NEW job, SoundJob(job), jobs' = [jobs EXCEPT ![i] = job],
           audit' \in Seq(Seq(EventTypes)), Len(audit') = Len(audit), sequence' \in Nat, actionTime' = actionTime,
           holding' = [w \in ActionWorkers |-> holding'[w]],
           \A w \in ActionWorkers : holding'[w] \in {holding[w], Empty} \/ holding'[w].job = i
    PROVE  ActionIndInv'
<1>1. job \in Job /\ i \in 1 .. Len(jobs)
  BY DEF SoundJob, ActionIndInv
<1>2. /\ jobs' \in Seq(Job) /\ Len(jobs') = Len(jobs) /\ DOMAIN jobs' = DOMAIN jobs
      /\ jobs'[i] = job /\ \A k \in DOMAIN jobs \ {i} : jobs'[k] = jobs[k]
  BY <1>1 DEF ActionIndInv
<1>3. \A k \in DOMAIN jobs' : SoundJob(jobs'[k])
  BY <1>2 DEF ActionIndInv
<1>4. \A w \in ActionWorkers : SoundHolding(holding[w])'
  BY <1>2 DEF ActionIndInv, SoundHolding
<1> QED
  BY <1>2, <1>3, <1>4 DEF ActionIndInv

LEMMA AdmitInv ==
    ASSUME ActionIndInv, NEW k \in Keys, NEW same \in BOOLEAN, Admit(k, same)
    PROVE  ActionIndInv'
<1>1. UNCHANGED <<sequence, holding, actionTime>>
  BY DEF Admit
<1>2. ASSUME NEW i \in Admitted(k), UNCHANGED jobs,
             AppendAudit(i, "admission-reused") \/ UNCHANGED audit
      PROVE  ActionIndInv'
  <2>1. audit' \in Seq(Seq(EventTypes)) /\ Len(audit') = Len(audit)
    <3>1. CASE UNCHANGED audit
      BY <3>1 DEF ActionIndInv
    <3>2. CASE AppendAudit(i, "admission-reused")
      BY <1>2, <3>2, Audited DEF Admitted, EventTypes
    <3> QED
      BY <1>2, <3>1, <3>2
  <2> QED
    BY <1>1, <1>2, <2>1 DEF ActionIndInv, SoundHolding
<1>3. ASSUME NEW job, job = [key |-> k, status |-> "queued", attempts |-> 0, token |-> 0, expires |-> 0, asked |-> FALSE],
             jobs' = Append(jobs, job), audit' = Append(audit, <<"admitted">>)
      PROVE  ActionIndInv'
  <2>1. SoundJob(job) /\ job \in Job
    BY <1>3 DEF SoundJob, Job, Statuses, Claimed
  <2>2. <<"admitted">> \in Seq(EventTypes)
    BY DEF EventTypes
  <2>3. /\ jobs' \in Seq(Job) /\ Len(jobs') = Len(jobs) + 1
        /\ \A i \in DOMAIN jobs : i \in DOMAIN jobs' /\ jobs'[i] = jobs[i]
        /\ \A i \in DOMAIN jobs' : i \in DOMAIN jobs \/ jobs'[i] = job
    BY <1>3, <2>1 DEF ActionIndInv
  <2>4. audit' \in Seq(Seq(EventTypes)) /\ Len(audit') = Len(audit) + 1
    BY <1>3, <2>2 DEF ActionIndInv
  <2>5. \A i \in DOMAIN jobs' : SoundJob(jobs'[i])
    BY <2>1, <2>3 DEF ActionIndInv
  <2> QED
    BY <1>1, <2>3, <2>4, <2>5 DEF ActionIndInv, SoundHolding
<1> QED
  BY <1>2, <1>3 DEF Admit

LEMMA ClaimNextInv ==
    ASSUME ActionIndInv, NEW w \in ActionWorkers, ClaimNext(w)
    PROVE  ActionIndInv'
<1>1. PICK i \in DOMAIN jobs :
        /\ sequence' = sequence + 1
        /\ jobs' = [jobs EXCEPT ![i].status = "running", ![i].attempts = @ + 1,
                                ![i].token = sequence', ![i].expires = actionTime + ActionLease]
        /\ AppendAudit(i, "claimed")
        /\ holding' = [holding EXCEPT ![w] = [job |-> i, token |-> sequence']]
  BY DEF ClaimNext
<1>2. jobs[i] \in Job /\ i \in 1 .. Len(jobs) /\ sequence + 1 \in Nat \ {0} /\ actionTime + ActionLease \in Nat
  BY ActionAssumption DEF ActionIndInv
<1>3. PICK r \in Job, attempts \in Nat, token \in Nat \ {0}, expires \in Nat :
         r = jobs[i] /\ attempts = r.attempts + 1 /\ token = sequence' /\ expires = actionTime + ActionLease
  BY <1>1, <1>2 DEF Job
<1> DEFINE job == [r EXCEPT !.status = "running", !.attempts = attempts, !.token = token, !.expires = expires]
<1>4. SoundJob(job)
  BY DEF SoundJob, Job, Statuses, Claimed
<1>5. jobs' = [jobs EXCEPT ![i] = job]
  BY <1>1, <1>2, <1>3 DEF ActionIndInv
<1> HIDE DEF job
<1>6. audit' \in Seq(Seq(EventTypes)) /\ Len(audit') = Len(audit)
  BY <1>1, Audited DEF EventTypes
<1>7. /\ holding' = [v \in ActionWorkers |-> holding'[v]]
      /\ \A v \in ActionWorkers : holding'[v] \in {holding[v], Empty} \/ holding'[v].job = i
  BY <1>1 DEF ActionIndInv
<1>8. sequence' \in Nat /\ actionTime' = actionTime
  BY <1>1, <1>2 DEF ClaimNext
<1> QED
  BY <1>4, <1>5, <1>6, <1>7, <1>8, OneJob

\* A job whose claim is deleted with its status.
LEMMA JobWithoutClaim ==
    ASSUME NEW job, SoundJob(job), NEW status \in Statuses \ Claimed
    PROVE  SoundJob(WithoutClaim(job, status))
<1>1. [job EXCEPT !.status = status, !.token = 0, !.expires = 0] \in Job
      /\ [job EXCEPT !.status = status, !.token = 0, !.expires = 0].status = status
      /\ [job EXCEPT !.status = status, !.token = 0, !.expires = 0].token = 0
  BY DEF SoundJob, Job
<1> QED
  BY <1>1 DEF SoundJob, WithoutClaim

LEMMA DeliverInv ==
    ASSUME ActionIndInv, NEW w \in ActionWorkers, Deliver(w) \/ DieHolding(w)
    PROVE  ActionIndInv'
<1>1. /\ holding[w] # Empty /\ holding' = [holding EXCEPT ![w] = Empty] /\ UNCHANGED <<sequence, actionTime>>
  BY DEF Deliver, DieHolding
<1>2. holding[w].job \in DOMAIN jobs
  BY <1>1 DEF ActionIndInv, SoundHolding
<1>3. /\ holding' = [v \in ActionWorkers |-> holding'[v]]
      /\ \A v \in ActionWorkers : holding'[v] \in {holding[v], Empty}
  BY <1>1 DEF ActionIndInv
<1>4. CASE UNCHANGED <<jobs, audit>>
  BY <1>1, <1>3, <1>4 DEF ActionIndInv, SoundHolding
<1>5. ASSUME NEW outcome \in {"succeeded", "failed"}, NEW i \in DOMAIN jobs,
             jobs' = [jobs EXCEPT ![i] = WithoutClaim(@, Outcome(jobs[i].status, outcome))],
             AppendAudit(i, Outcome(jobs[i].status, outcome))
      PROVE  ActionIndInv'
  <2>1. PICK status \in Statuses \ Claimed : status = Outcome(jobs[i].status, outcome)
    BY DEF Outcome, Statuses, Claimed, Ended
  <2>2. audit' \in Seq(Seq(EventTypes)) /\ Len(audit') = Len(audit)
    BY <1>5, <2>1, Audited DEF EventTypes
  <2>3. SoundJob(WithoutClaim(jobs[i], status))
    BY JobWithoutClaim DEF ActionIndInv
  <2>4. jobs' = [jobs EXCEPT ![i] = WithoutClaim(jobs[i], status)]
    BY <1>5, <2>1
  <2>5. sequence' \in Nat /\ actionTime' = actionTime
    BY <1>1 DEF ActionIndInv
  <2> QED
    BY <1>3, <2>2, <2>3, <2>4, <2>5, OneJob
<1> QED
  BY <1>2, <1>4, <1>5 DEF Deliver, DieHolding

LEMMA CancelInv ==
    ASSUME ActionIndInv, NEW i \in DOMAIN jobs, Cancel(i)
    PROVE  ActionIndInv'
<1>1. UNCHANGED <<sequence, holding, actionTime>>
  BY DEF Cancel
<1>2. CASE UNCHANGED <<jobs, audit>>
  BY <1>1, <1>2 DEF ActionIndInv, SoundHolding
<1>3. ASSUME NEW status, NEW type, jobs[i].status \notin Ended,
             \/ jobs[i].status = "queued" /\ status = "cancelled" /\ type = "cancelled"
             \/ jobs[i].status # "queued" /\ status = "cancel-requested" /\ type = "cancellation-requested",
             jobs' = [jobs EXCEPT ![i].status = status, ![i].asked = TRUE],
             AppendAudit(i, type)
      PROVE  ActionIndInv'
  <2>1. SoundJob(jobs[i]) /\ type \in EventTypes
    BY <1>3 DEF ActionIndInv, EventTypes, Statuses, Ended
  <2>2. PICK r \in Job : r = jobs[i]
    BY <2>1 DEF SoundJob
  <2> DEFINE job == [r EXCEPT !.status = status, !.asked = TRUE]
  <2>3. status \in Statuses
    BY <1>3 DEF Statuses, Claimed, Ended
  <2>4. job \in Job /\ job.status = status /\ job.token = r.token
    BY <2>3 DEF Job
  <2>5. r.status \in Statuses
    BY DEF Job
  <2>6. jobs' = [jobs EXCEPT ![i] = job]
    BY <1>3, <2>2 DEF ActionIndInv
  <2> HIDE DEF job
  <2>7. SoundJob(job)
    BY <1>3, <2>1, <2>2, <2>4, <2>5 DEF SoundJob, Statuses, Claimed, Ended
  <2>8. audit' \in Seq(Seq(EventTypes)) /\ Len(audit') = Len(audit)
    BY <1>3, <2>1, Audited
  <2>9. /\ sequence' \in Nat /\ actionTime' = actionTime /\ holding' = [v \in ActionWorkers |-> holding'[v]]
        /\ \A v \in ActionWorkers : holding'[v] \in {holding[v], Empty}
    BY <1>1 DEF ActionIndInv
  <2> QED
    BY <2>6, <2>7, <2>8, <2>9, OneJob
<1>4. CASE jobs[i].status \notin Ended /\ jobs[i].status = "queued"
  BY <1>3, <1>4 DEF Cancel
<1>5. CASE jobs[i].status \notin Ended /\ jobs[i].status # "queued"
  BY <1>3, <1>5 DEF Cancel
<1> QED
  BY <1>2, <1>4, <1>5 DEF Cancel

LEMMA RecoverActionsInv ==
    ASSUME ActionIndInv, RecoverActions
    PROVE  ActionIndInv'
<1>1. /\ jobs' = [i \in DOMAIN jobs |-> IF Expired(i) THEN WithoutClaim(jobs[i], Recovered(jobs[i])) ELSE jobs[i]]
      /\ audit' = [i \in DOMAIN jobs |->
                      IF ~Expired(i) THEN audit[i]
                      ELSE Append(audit[i], IF Recovered(jobs[i]) = "queued" THEN "requeued" ELSE "cancelled")]
      /\ UNCHANGED <<sequence, holding, actionTime>>
  BY DEF RecoverActions
<1>2. DOMAIN jobs = 1 .. Len(jobs) /\ Len(jobs) \in Nat /\ DOMAIN audit = 1 .. Len(jobs)
  BY DEF ActionIndInv
<1>3. ASSUME NEW i \in DOMAIN jobs PROVE SoundJob(jobs'[i])
  <2>1. Recovered(jobs[i]) \in Statuses \ Claimed
    BY DEF Recovered, Statuses, Claimed, Ended
  <2>2. SoundJob(WithoutClaim(jobs[i], Recovered(jobs[i]))) /\ SoundJob(jobs[i])
    BY <2>1, JobWithoutClaim DEF ActionIndInv
  <2> QED
    BY <1>1, <2>2
<1>4. ASSUME NEW i \in DOMAIN jobs PROVE audit'[i] \in Seq(EventTypes)
  <2>1. audit[i] \in Seq(EventTypes)
    BY <1>2 DEF ActionIndInv
  <2>2. (IF Recovered(jobs[i]) = "queued" THEN "requeued" ELSE "cancelled") \in EventTypes
    BY DEF EventTypes, Statuses, Ended
  <2> QED
    BY <1>1, <2>1, <2>2
<1>5. jobs' \in [1 .. Len(jobs) -> Job] /\ audit' \in [1 .. Len(jobs) -> Seq(EventTypes)]
  BY <1>1, <1>2, <1>3, <1>4 DEF SoundJob
<1>6. /\ jobs' \in Seq(Job) /\ Len(jobs') = Len(jobs) /\ DOMAIN jobs' = DOMAIN jobs
      /\ audit' \in Seq(Seq(EventTypes)) /\ Len(audit') = Len(jobs)
  BY <1>2, <1>5, SeqDef, LenProperties
<1> QED
  BY <1>1, <1>3, <1>6 DEF ActionIndInv, SoundHolding

LEMMA ActionStepInv == ActionIndInv /\ [ActionNext]_actionVars => ActionIndInv'
<1> SUFFICES ASSUME ActionIndInv, [ActionNext]_actionVars PROVE ActionIndInv'
  OBVIOUS
<1>1. CASE UNCHANGED actionVars
  BY <1>1 DEF actionVars, ActionIndInv, SoundHolding
<1>2. CASE PassActionTime
  BY <1>2 DEF PassActionTime, ActionIndInv, SoundHolding
<1>3. ASSUME NEW k \in Keys, NEW same \in BOOLEAN, Admit(k, same) PROVE ActionIndInv'
  BY <1>3, AdmitInv
<1>4. ASSUME NEW w \in ActionWorkers, ClaimNext(w) PROVE ActionIndInv'
  BY <1>4, ClaimNextInv
<1>5. ASSUME NEW w \in ActionWorkers, Deliver(w) \/ DieHolding(w) PROVE ActionIndInv'
  BY <1>5, DeliverInv
<1>6. ASSUME NEW i \in DOMAIN jobs, Cancel(i) PROVE ActionIndInv'
  BY <1>6, CancelInv
<1>7. CASE RecoverActions
  BY <1>7, RecoverActionsInv
<1> QED
  BY <1>1, <1>2, <1>3, <1>4, <1>5, <1>6, <1>7 DEF ActionNext

\* A job has a token exactly while it is claimed, every job has its audit, and a
\* worker executes only a job that was admitted.
THEOREM ActionTypeCorrect == ActionSpec => []ActionTypeOK
<1>1. ActionIndInv => ActionTypeOK
  BY DEF ActionIndInv, ActionTypeOK, SoundJob, SoundHolding, Job, Statuses, Claimed
<1> QED
  BY <1>1, ActionInitInv, ActionStepInv, PTL DEF ActionSpec

-----------------------------------------------------------------------------
(***************************************************************************)
(* The audit of a job.  Its last event that leads to a status is that of   *)
(* the last change of the job, each claim is an attempt, and an end comes  *)
(* to a job that had none.                                                 *)
(***************************************************************************)
Ends(status) == IF status \in Ended THEN 1 ELSE 0

Accounted(types, status, attempts) ==
    /\ Tells(types, status)
    /\ attempts = Cardinality(Positions(types, {"claimed"}))
    /\ Ends(status) = Cardinality(Positions(types, Ended))

AuditInv == \A i \in DOMAIN jobs : Accounted(audit[i], jobs[i].status, jobs[i].attempts)

LEMMA PositionsFinite ==
    ASSUME NEW types \in Seq(EventTypes), NEW kinds
    PROVE  IsFiniteSet(Positions(types, kinds)) /\ Cardinality(Positions(types, kinds)) \in Nat
<1>1. DOMAIN types = 1 .. Len(types) /\ Len(types) \in Nat
  OBVIOUS
<1>2. IsFiniteSet(1 .. Len(types))
  BY <1>1, FS_Interval
<1> QED
  BY <1>1, <1>2, FS_Subset, FS_CardinalityType DEF Positions

\* One event more is one position more, if it is of the kinds that count.
LEMMA OneMorePosition ==
    ASSUME NEW types \in Seq(EventTypes), NEW type \in EventTypes, NEW kinds
    PROVE  Cardinality(Positions(Append(types, type), kinds)) =
             Cardinality(Positions(types, kinds)) + IF type \in kinds THEN 1 ELSE 0
<1> DEFINE n == Len(types) + 1
<1>1. /\ DOMAIN types = 1 .. Len(types) /\ Len(types) \in Nat
      /\ DOMAIN Append(types, type) = 1 .. n
      /\ Append(types, type)[n] = type
      /\ \A i \in 1 .. Len(types) : Append(types, type)[i] = types[i]
  OBVIOUS
<1>2. n \notin Positions(types, kinds)
  BY <1>1 DEF Positions
<1>3. CASE type \in kinds
  <2>1. Positions(Append(types, type), kinds) = Positions(types, kinds) \cup {n}
    BY <1>1, <1>3 DEF Positions
  <2> QED
    BY <1>2, <1>3, <2>1, PositionsFinite, FS_AddElement
<1>4. CASE type \notin kinds
  <2>1. Positions(Append(types, type), kinds) = Positions(types, kinds)
    BY <1>1, <1>4 DEF Positions
  <2> QED
    BY <1>4, <2>1, PositionsFinite
<1> QED
  BY <1>3, <1>4

\* The last event tells the status, unless it is a reused admission.
LEMMA LastTells ==
    ASSUME NEW types \in Seq(EventTypes), NEW type \in EventTypes, NEW status
    PROVE  /\ type # "admission-reused" => Tells(Append(types, type), Means(type))
           /\ type = "admission-reused" /\ Tells(types, status) => Tells(Append(types, type), status)
<1> DEFINE n == Len(types) + 1
<1>1. /\ DOMAIN types = 1 .. Len(types) /\ Len(types) \in Nat
      /\ DOMAIN Append(types, type) = 1 .. n
      /\ Append(types, type)[n] = type
      /\ \A i \in 1 .. Len(types) : Append(types, type)[i] = types[i]
  OBVIOUS
<1>2. ASSUME type # "admission-reused" PROVE Tells(Append(types, type), Means(type))
  <2>1. n \in 1 .. n /\ \A i \in 1 .. n : ~(i > n)
    BY <1>1
  <2> QED
    BY <1>1, <1>2, <2>1 DEF Tells
<1>3. ASSUME type = "admission-reused", Tells(types, status) PROVE Tells(Append(types, type), status)
  <2>1. PICK last \in DOMAIN types :
           /\ types[last] # "admission-reused" /\ status = Means(types[last])
           /\ \A i \in DOMAIN types : i > last => types[i] = "admission-reused"
    BY <1>3 DEF Tells
  <2>2. \A i \in 1 .. n : i > last => Append(types, type)[i] = "admission-reused"
    BY <1>1, <1>3, <2>1
  <2> QED
    BY <1>1, <2>1, <2>2 DEF Tells
<1> QED
  BY <1>2, <1>3

\* A job that has not ended, and its next event.
LEMMA AccountedEvent ==
    ASSUME NEW types \in Seq(EventTypes), NEW status \in Statuses \ Ended, NEW attempts \in Nat,
           Accounted(types, status, attempts), NEW type \in EventTypes, type # "admission-reused"
    PROVE  Accounted(Append(types, type), Means(type), IF type = "claimed" THEN attempts + 1 ELSE attempts)
<1>1. Tells(Append(types, type), Means(type))
  BY LastTells
<1>2. Cardinality(Positions(Append(types, type), {"claimed"})) =
        IF type = "claimed" THEN attempts + 1 ELSE attempts
  BY OneMorePosition DEF Accounted
<1>3. Ends(Means(type)) = IF type \in Ended THEN 1 ELSE 0
  BY DEF Ends, Means, Ended, EventTypes, Statuses, Claimed
<1>4. Cardinality(Positions(types, Ended)) = 0
  BY DEF Accounted, Ends
<1>5. Cardinality(Positions(Append(types, type), Ended)) = IF type \in Ended THEN 1 ELSE 0
  BY <1>4, OneMorePosition
<1> QED
  BY <1>1, <1>2, <1>3, <1>5 DEF Accounted

\* One job of many, and its event.
LEMMA AccountedJob ==
    ASSUME ActionIndInv, AuditInv, NEW i \in DOMAIN jobs, NEW type \in EventTypes \ {"admission-reused"},
           jobs[i].status \notin Ended, AppendAudit(i, type),
           NEW job, jobs' = [jobs EXCEPT ![i] = job], job.status = Means(type),
           job.attempts = IF type = "claimed" THEN jobs[i].attempts + 1 ELSE jobs[i].attempts
    PROVE  AuditInv'
<1>1. /\ DOMAIN jobs = 1 .. Len(jobs) /\ DOMAIN audit = 1 .. Len(jobs)
      /\ audit[i] \in Seq(EventTypes) /\ jobs[i] \in Job
  BY DEF ActionIndInv, SoundJob
<1>2. jobs[i].status \in Statuses \ Ended /\ jobs[i].attempts \in Nat
  BY <1>1 DEF Job
<1>3. Accounted(Append(audit[i], type), job.status, job.attempts)
  BY <1>1, <1>2, AccountedEvent DEF AuditInv
<1>4. /\ DOMAIN jobs' = DOMAIN jobs /\ jobs'[i] = job /\ audit'[i] = Append(audit[i], type)
      /\ \A k \in DOMAIN jobs \ {i} : jobs'[k] = jobs[k] /\ audit'[k] = audit[k]
  BY <1>1 DEF AppendAudit
<1> QED
  BY <1>3, <1>4 DEF AuditInv

LEMMA AdmitAudited ==
    ASSUME ActionIndInv, AuditInv, NEW k \in Keys, NEW same \in BOOLEAN, Admit(k, same)
    PROVE  AuditInv'
<1>t. /\ DOMAIN jobs = 1 .. Len(jobs) /\ DOMAIN audit = 1 .. Len(jobs) /\ Len(jobs) \in Nat
      /\ \A i \in DOMAIN jobs : audit[i] \in Seq(EventTypes)
  BY DEF ActionIndInv
<1>1. CASE UNCHANGED <<jobs, audit>>
  BY <1>1 DEF AuditInv
<1>2. ASSUME NEW i \in DOMAIN jobs, UNCHANGED jobs, AppendAudit(i, "admission-reused")
      PROVE  AuditInv'
  <2>1. "admission-reused" \in EventTypes /\ "admission-reused" \notin Ended
    BY DEF EventTypes, Ended
  <2>2. Accounted(Append(audit[i], "admission-reused"), jobs[i].status, jobs[i].attempts)
    <3>1. Accounted(audit[i], jobs[i].status, jobs[i].attempts)
      BY DEF AuditInv
    <3>2. /\ Cardinality(Positions(Append(audit[i], "admission-reused"), {"claimed"}))
                = Cardinality(Positions(audit[i], {"claimed"}))
          /\ Cardinality(Positions(Append(audit[i], "admission-reused"), Ended))
                = Cardinality(Positions(audit[i], Ended))
      BY <1>t, <2>1, OneMorePosition, PositionsFinite
    <3> QED
      BY <1>t, <2>1, <3>1, <3>2, LastTells DEF Accounted
  <2>3. /\ audit'[i] = Append(audit[i], "admission-reused")
        /\ \A j \in DOMAIN jobs \ {i} : audit'[j] = audit[j]
    BY <1>2, <1>t DEF AppendAudit
  <2> QED
    BY <1>2, <2>2, <2>3 DEF AuditInv
<1>3. ASSUME NEW job, job.status = "queued", job.attempts = 0,
             jobs' = Append(jobs, job), audit' = Append(audit, <<"admitted">>)
      PROVE  AuditInv'
  <2>1. Accounted(<<"admitted">>, "queued", 0)
    <3>1. /\ "admitted" \in EventTypes /\ "admitted" \notin Ended
          /\ Means("admitted") = "queued" /\ Ends("queued") = 0
      BY DEF EventTypes, Ended, Means, Ends
    <3>2. <<>> \in Seq(EventTypes) /\ Append(<<>>, "admitted") = <<"admitted">>
      OBVIOUS
    <3>3. \A kinds : Cardinality(Positions(<<>>, kinds)) = 0
      <4> TAKE kinds
      <4>1. Positions(<<>>, kinds) = {}
        BY DEF Positions
      <4> QED
        BY <4>1, FS_EmptySet
    <3>4. \A kinds : "admitted" \notin kinds => Cardinality(Positions(<<"admitted">>, kinds)) = 0
      <4> SUFFICES ASSUME NEW kinds, "admitted" \notin kinds
                   PROVE  Cardinality(Positions(<<"admitted">>, kinds)) = 0
        OBVIOUS
      <4>1. Cardinality(Positions(Append(<<>>, "admitted"), kinds)) =
              Cardinality(Positions(<<>>, kinds)) + IF "admitted" \in kinds THEN 1 ELSE 0
        BY <3>1, <3>2, OneMorePosition
      <4> QED
        BY <3>2, <3>3, <4>1
    <3> QED
      BY <3>1, <3>2, <3>4, LastTells DEF Accounted
  <2>2. /\ DOMAIN jobs' = 1 .. Len(jobs) + 1
        /\ \A i \in 1 .. Len(jobs) : jobs'[i] = jobs[i] /\ audit'[i] = audit[i]
        /\ jobs'[Len(jobs) + 1] = job /\ audit'[Len(jobs) + 1] = <<"admitted">>
    BY <1>3, <1>t DEF ActionIndInv
  <2> QED
    BY <1>3, <1>t, <2>1, <2>2 DEF AuditInv
<1>4. CASE /\ jobs' = Append(jobs, [key |-> k, status |-> "queued", attempts |-> 0,
                                    token |-> 0, expires |-> 0, asked |-> FALSE])
           /\ audit' = Append(audit, <<"admitted">>)
  BY <1>3, <1>4
<1> QED
  BY <1>1, <1>2, <1>4 DEF Admit, Admitted

LEMMA ClaimAudited ==
    ASSUME ActionIndInv, AuditInv, NEW w \in ActionWorkers, ClaimNext(w)
    PROVE  AuditInv'
<1>1. PICK i \in DOMAIN jobs :
        /\ jobs[i].status = "queued"
        /\ jobs' = [jobs EXCEPT ![i].status = "running", ![i].attempts = @ + 1,
                                ![i].token = sequence', ![i].expires = actionTime + ActionLease]
        /\ AppendAudit(i, "claimed")
  BY DEF ClaimNext
<1>2. PICK r \in Job, attempts \in Nat : r = jobs[i] /\ attempts = r.attempts + 1
  BY DEF ActionIndInv, SoundJob, Job
<1> DEFINE job == [r EXCEPT !.status = "running", !.attempts = attempts, !.token = sequence',
                            !.expires = actionTime + ActionLease]
<1>3. job.status = "running" /\ job.attempts = attempts
  BY DEF Job
<1>4. jobs' = [jobs EXCEPT ![i] = job]
  BY <1>1, <1>2 DEF ActionIndInv
<1> HIDE DEF job
<1>5. "claimed" \in EventTypes \ {"admission-reused"} /\ Means("claimed") = "running" /\ "queued" \notin Ended
  BY DEF EventTypes, Means, Ended
<1>6. PICK type \in EventTypes \ {"admission-reused"} : type = "claimed"
  BY <1>5
<1>7. /\ jobs[i].status \notin Ended /\ AppendAudit(i, type) /\ job.status = Means(type)
      /\ job.attempts = IF type = "claimed" THEN jobs[i].attempts + 1 ELSE jobs[i].attempts
  BY <1>1, <1>2, <1>3, <1>5, <1>6
<1> QED
  BY <1>4, <1>7, AccountedJob

\* A claim that is deleted with the status leaves the attempts alone.
LEMMA WithoutClaimFields ==
    ASSUME NEW job \in Job, NEW status
    PROVE  WithoutClaim(job, status).status = status /\ WithoutClaim(job, status).attempts = job.attempts
  BY DEF WithoutClaim, Job

LEMMA DeliverAudited ==
    ASSUME ActionIndInv, AuditInv, NEW w \in ActionWorkers, Deliver(w)
    PROVE  AuditInv'
<1>1. CASE UNCHANGED <<jobs, audit>>
  BY <1>1 DEF AuditInv
<1>2. ASSUME HoldsClaim(holding[w]), NEW outcome \in {"succeeded", "failed"}, NEW i, i = holding[w].job,
             jobs' = [jobs EXCEPT ![i] = WithoutClaim(@, Outcome(jobs[i].status, outcome))],
             AppendAudit(i, Outcome(jobs[i].status, outcome))
      PROVE  AuditInv'
  <2>1. i \in DOMAIN jobs /\ jobs[i].status \in Claimed
    BY <1>2 DEF Deliver, ActionIndInv, SoundHolding, HoldsClaim, Claimed
  <2>2. PICK type \in Ended : type = Outcome(jobs[i].status, outcome)
    BY <1>2 DEF Outcome, Ended
  <2>3. type \in EventTypes \ {"admission-reused"} /\ Means(type) = type /\ type # "claimed"
    BY DEF EventTypes, Statuses, Ended, Means
  <2>4. jobs[i] \in Job
    BY <2>1 DEF ActionIndInv, SoundJob
  <2> DEFINE job == WithoutClaim(jobs[i], type)
  <2>5. job.status = type /\ job.attempts = jobs[i].attempts
    BY <2>4, WithoutClaimFields
  <2>6. jobs' = [jobs EXCEPT ![i] = job]
    BY <1>2, <2>2
  <2>7. jobs[i].status \notin Ended
    BY <2>1 DEF Claimed, Ended
  <2> HIDE DEF job
  <2>8. /\ AppendAudit(i, type) /\ job.status = Means(type)
        /\ job.attempts = IF type = "claimed" THEN jobs[i].attempts + 1 ELSE jobs[i].attempts
    BY <1>2, <2>2, <2>3, <2>5
  <2> QED
    BY <2>1, <2>3, <2>6, <2>7, <2>8, AccountedJob
<1> QED
  BY <1>1, <1>2 DEF Deliver

LEMMA CancelAudited ==
    ASSUME ActionIndInv, AuditInv, NEW i \in DOMAIN jobs, Cancel(i)
    PROVE  AuditInv'
<1>1. CASE UNCHANGED <<jobs, audit>>
  BY <1>1 DEF AuditInv
<1>2. ASSUME NEW status, NEW type, jobs[i].status \notin Ended,
             \/ status = "cancelled" /\ type = "cancelled"
             \/ status = "cancel-requested" /\ type = "cancellation-requested",
             jobs' = [jobs EXCEPT ![i].status = status, ![i].asked = TRUE],
             AppendAudit(i, type)
      PROVE  AuditInv'
  <2>1. /\ type \in EventTypes \ {"admission-reused"} /\ Means(type) = status /\ type # "claimed"
    BY <1>2 DEF EventTypes, Statuses, Ended, Means
  <2>2. PICK r \in Job : r = jobs[i]
    BY DEF ActionIndInv, SoundJob
  <2> DEFINE job == [r EXCEPT !.status = status, !.asked = TRUE]
  <2>3. job.status = status /\ job.attempts = r.attempts
    BY DEF Job
  <2>4. jobs' = [jobs EXCEPT ![i] = job]
    BY <1>2, <2>2 DEF ActionIndInv
  <2> HIDE DEF job
  <2>5. /\ jobs[i].status \notin Ended /\ AppendAudit(i, type) /\ job.status = Means(type)
        /\ job.attempts = IF type = "claimed" THEN jobs[i].attempts + 1 ELSE jobs[i].attempts
    BY <1>2, <2>1, <2>2, <2>3
  <2> QED
    BY <2>1, <2>4, <2>5, AccountedJob
<1>3. CASE jobs[i].status \notin Ended /\ jobs[i].status = "queued"
  BY <1>2, <1>3 DEF Cancel
<1>4. CASE jobs[i].status \notin Ended /\ jobs[i].status # "queued"
  BY <1>2, <1>4 DEF Cancel
<1> QED
  BY <1>1, <1>3, <1>4 DEF Cancel

LEMMA RecoverAudited ==
    ASSUME ActionIndInv, AuditInv, RecoverActions
    PROVE  AuditInv'
<1>1. /\ jobs' = [i \in DOMAIN jobs |-> IF Expired(i) THEN WithoutClaim(jobs[i], Recovered(jobs[i])) ELSE jobs[i]]
      /\ audit' = [i \in DOMAIN jobs |->
                      IF ~Expired(i) THEN audit[i]
                      ELSE Append(audit[i], IF Recovered(jobs[i]) = "queued" THEN "requeued" ELSE "cancelled")]
  BY DEF RecoverActions
<1>2. ASSUME NEW i \in DOMAIN jobs, Expired(i)
      PROVE  Accounted(audit'[i], jobs'[i].status, jobs'[i].attempts)
  <2>1. jobs[i] \in Job /\ audit[i] \in Seq(EventTypes) /\ Accounted(audit[i], jobs[i].status, jobs[i].attempts)
    BY DEF ActionIndInv, SoundJob, AuditInv
  <2>2. jobs[i].status \in Statuses \ Ended /\ jobs[i].attempts \in Nat
    BY <1>2, <2>1 DEF Expired, Job, Statuses, Claimed, Ended
  <2>3. PICK type \in EventTypes :
           type = IF Recovered(jobs[i]) = "queued" THEN "requeued" ELSE "cancelled"
    BY DEF EventTypes, Statuses, Ended
  <2>4. type \notin {"admission-reused", "claimed"} /\ Means(type) = Recovered(jobs[i])
    BY <2>3 DEF Means, Recovered
  <2>5. /\ jobs'[i].status = Recovered(jobs[i]) /\ jobs'[i].attempts = jobs[i].attempts
        /\ audit'[i] = Append(audit[i], type)
    BY <1>1, <1>2, <2>1, <2>3, WithoutClaimFields
  <2> QED
    BY <2>1, <2>2, <2>4, <2>5, AccountedEvent
<1>3. ASSUME NEW i \in DOMAIN jobs, ~Expired(i)
      PROVE  Accounted(audit'[i], jobs'[i].status, jobs'[i].attempts)
  BY <1>1, <1>3 DEF AuditInv
<1> QED
  BY <1>1, <1>2, <1>3 DEF AuditInv

LEMMA AuditStepInv == ActionIndInv /\ AuditInv /\ [ActionNext]_actionVars => AuditInv'
<1> SUFFICES ASSUME ActionIndInv, AuditInv, [ActionNext]_actionVars PROVE AuditInv'
  OBVIOUS
<1>1. CASE UNCHANGED <<jobs, audit>>
  BY <1>1 DEF AuditInv
<1>2. ASSUME NEW k \in Keys, NEW same \in BOOLEAN, Admit(k, same) PROVE AuditInv'
  BY <1>2, AdmitAudited
<1>3. ASSUME NEW w \in ActionWorkers, ClaimNext(w) PROVE AuditInv'
  BY <1>3, ClaimAudited
<1>4. ASSUME NEW w \in ActionWorkers, Deliver(w) PROVE AuditInv'
  BY <1>4, DeliverAudited
<1>5. ASSUME NEW i \in DOMAIN jobs, Cancel(i) PROVE AuditInv'
  BY <1>5, CancelAudited
<1>6. CASE RecoverActions
  BY <1>6, RecoverAudited
<1>7. ASSUME UNCHANGED actionVars \/ PassActionTime \/ \E w \in ActionWorkers : DieHolding(w)
      PROVE  AuditInv'
  BY <1>1, <1>7 DEF actionVars, PassActionTime, DieHolding
<1> QED
  BY <1>2, <1>3, <1>4, <1>5, <1>6, <1>7 DEF ActionNext

\* The audit of a job alone tells its status and its attempts, and of one end
\* at most, whichever workers, cancellations and recoveries met in it.
THEOREM AuditsTell == ActionSpec => []AuditTells
<1>1. ActionInit => AuditInv
  BY DEF ActionInit, AuditInv
<1>2. AuditInv => AuditTells
  BY DEF AuditInv, AuditTells, Accounted, Ends
<1> QED
  BY <1>1, <1>2, ActionInitInv, ActionStepInv, AuditStepInv, PTL DEF ActionSpec
=============================================================================
