----------------------------- MODULE HostedRead -----------------------------
(***************************************************************************)
(* The hosted read runtime: the gateway admits read jobs into PostgreSQL   *)
(* and several worker processes drain them.  A job row, its dispatch rows  *)
(* (the outbox), its audit facts and its result artifact live in one       *)
(* database; every store call is one transaction and therefore one action  *)
(* here, and whatever a worker keeps between two calls is local to it and  *)
(* lost when the process dies.                                             *)
(*                                                                         *)
(* Time.  A deadline is kept as the time left until it, floored at zero    *)
(* and counted down by Tick.  Skew[w] is how far the clock of worker w     *)
(* runs ahead of the slowest one, so w sees a deadline as passed when the  *)
(* time left is at most Skew[w], and stamps its own deadlines Skew[w]      *)
(* further away.                                                           *)
(***************************************************************************)
EXTENDS Integers, FiniteSets

CONSTANTS
    Workers,        \* worker processes, all with their own clock
    Jobs,           \* job identities read.<idempotencyKey>
    Outputs,        \* what a provider read can return
    Nil,            \* the SQL NULL
    Lease,          \* leaseMs and dispatchLeaseMs: one setting feeds both
    Retry,          \* retryMs
    RecoveryLimit,  \* recoveryLimit of one listExpiredJobIds
    Skew,           \* [Workers -> Nat]
    MaxSkew,        \* the largest of them
    MaxFaults,      \* bound: crashes and failed store calls
    MaxRevision     \* bound: the revision after which a live holder is punctual

ASSUME ClockAssumption ==
    /\ Lease \in Nat
    /\ Retry \in Nat
    /\ MaxSkew \in Nat
    /\ Skew \in [Workers -> 0..MaxSkew]

ASSUME BoundAssumption ==
    /\ RecoveryLimit \in Nat
    /\ MaxFaults \in Nat
    /\ MaxRevision \in Nat

ASSUME ValueAssumption ==
    /\ Nil \notin Outputs \cup Workers \cup Jobs \cup {"action-failed", "result-conflict"}
    /\ Outputs \cap {"action-failed", "result-conflict"} = {}
    /\ Nil \notin Jobs \X Nat

VARIABLES
    job,        \* the row of ops_hosted_read_job of each identity
    dispatch,   \* ops_hosted_read_dispatch: the rows written so far, by id
    artifact,   \* ops_hosted_read_result: the stored value of a job, or Nil
    audit,      \* ops_hosted_read_audit: facts <<kind, revision>> of a job
    pc,         \* where each worker stands in workOnce
    todo,       \* expired job ids listed by recoverExpired, not yet recovered
    target,     \* the job a worker recovers or executes
    hand,       \* the dispatch row a worker has claimed
    seen,       \* the job revision a worker has read, or has been given
    outcome,    \* what the worker will record for its job
    faults      \* faults so far

store == <<job, dispatch, artifact, audit>>
local == <<pc, todo, target, hand, seen, outcome>>
vars  == <<job, dispatch, artifact, audit, pc, todo, target, hand, seen,
           outcome, faults>>

-----------------------------------------------------------------------------
Terminal == {"succeeded", "failed"}
Live     == {"queued", "running"}
Phases   == {"absent"} \cup Live \cup Terminal
Failures == {"action-failed", "result-conflict"}
Kinds    == {"admitted", "started", "recovered"} \cup Terminal

Token == [owner : Workers, revision : Nat]

JobRow ==
    [phase    : Phases,
     revision : Nat,
     token    : Token \cup {Nil},
     expires  : Nat,
     result   : Outputs \cup {Nil},
     failure  : Failures \cup {Nil}]

DispatchRow ==
    [available : Nat,
     claim     : Workers \cup {Nil},
     expires   : Nat,
     completed : BOOLEAN]

Steps ==
    {"down", "idle", "recovering", "recoverCommit", "polling", "executing",
     "claiming", "acting", "putting", "completing", "acking", "deferring"}

NoJob ==
    [phase |-> "absent", revision |-> 0, token |-> Nil, expires |-> 0,
     result |-> Nil, failure |-> Nil]

NewDispatch(left) ==
    [available |-> left, claim |-> Nil, expires |-> 0, completed |-> FALSE]

Lapsed(left, w) == left <= Skew[w]
Stamp(w, delay) == delay + Skew[w]

\* The three updates of a job row; each one bumps the revision.
Started(row, w) ==
    [row EXCEPT !.phase = "running", !.revision = @ + 1,
                !.token = [owner |-> w, revision |-> row.revision + 1],
                !.expires = Stamp(w, Lease)]

RequeuedInPlace(row) ==    \* mutant: the revision is not bumped
    [row EXCEPT !.phase = "queued", !.token = Nil, !.expires = 0]
Requeued(row) ==
    [row EXCEPT !.phase = "queued", !.revision = @ + 1, !.token = Nil, !.expires = 0]

SettledAsResult(row, o) ==   \* mutant: a failure is stored as a result
    [row EXCEPT !.phase = IF o \in Failures THEN "failed" ELSE "succeeded",
                !.revision = @ + 1, !.token = Nil, !.expires = 0, !.result = o]
Settled(row, o) ==
    IF o \in Failures
    THEN [row EXCEPT !.phase = "failed", !.revision = @ + 1, !.token = Nil,
                     !.expires = 0, !.failure = o]
    ELSE [row EXCEPT !.phase = "succeeded", !.revision = @ + 1, !.token = Nil,
                     !.expires = 0, !.result = o]

Goto(w, step) == pc' = [pc EXCEPT ![w] = step]

\* What a worker keeps is scoped to one pass of workOnce.
Forget(w) ==
    /\ todo'    = [todo EXCEPT ![w] = {}]
    /\ target'  = [target EXCEPT ![w] = Nil]
    /\ hand'    = [hand EXCEPT ![w] = Nil]
    /\ seen'    = [seen EXCEPT ![w] = 0]
    /\ outcome' = [outcome EXCEPT ![w] = Nil]

\* An error thrown out of workOnce, or a kill: the role ends.
Die(w) == Goto(w, "down") /\ Forget(w)

\* The transaction of admit and recover writes the row of the next dispatch.
InsertDispatchOnce(id, left) ==   \* mutant: one dispatch id for all offers
    dispatch' = [d \in DOMAIN dispatch \cup {<<id[1], 1>>} |->
                   IF d[1] = id[1] THEN NewDispatch(left) ELSE dispatch[d]]
InsertDispatch(id, left) ==
    dispatch' = [d \in DOMAIN dispatch \cup {id} |->
                   IF d = id THEN NewDispatch(left) ELSE dispatch[d]]

InsertAuditAfter(j, kind, revision) ==   \* mutant: the id is taken after the update
    audit' = [audit EXCEPT ![j] = @ \cup {<<kind, job'[j].revision>>}]
InsertAudit(j, kind, revision) ==
    audit' = [audit EXCEPT ![j] = @ \cup {<<kind, revision>>}]

Init ==
    /\ job      = [j \in Jobs |-> NoJob]
    /\ dispatch = [d \in {} |-> NewDispatch(0)]
    /\ artifact = [j \in Jobs |-> Nil]
    /\ audit    = [j \in Jobs |-> {}]
    /\ pc       = [w \in Workers |-> "idle"]
    /\ todo     = [w \in Workers |-> {}]
    /\ target   = [w \in Workers |-> Nil]
    /\ hand     = [w \in Workers |-> Nil]
    /\ seen     = [w \in Workers |-> 0]
    /\ outcome  = [w \in Workers |-> Nil]
    /\ faults   = 0

-----------------------------------------------------------------------------
(***************************************************************************)
(* The gateway.  A repeated admission of an identity finds the row and     *)
(* changes nothing, so only the first one is a step.                       *)
(***************************************************************************)
Admit(j) ==
    /\ job[j].phase = "absent"
    /\ job' = [job EXCEPT ![j] = [NoJob EXCEPT !.phase = "queued", !.revision = 1]]
    /\ InsertDispatch(<<j, 1>>, 0)
    /\ InsertAudit(j, "admitted", 1)
    /\ UNCHANGED <<artifact, local, faults>>

-----------------------------------------------------------------------------
(***************************************************************************)
(* recoverExpired: list the expired jobs, then read and recover each one.  *)
(***************************************************************************)
ExpiredQueued(w) ==   \* mutant: the wrong phase is listed
    {j \in Jobs : job[j].phase = "queued" /\ Lapsed(job[j].expires, w)}
Expired(w) == {j \in Jobs : job[j].phase = "running" /\ Lapsed(job[j].expires, w)}

ListExpired(w) ==
    /\ pc[w] = "idle"
    /\ \E listed \in SUBSET Expired(w) :
          /\ Cardinality(listed) <= RecoveryLimit
          /\ listed # Expired(w) => Cardinality(listed) = RecoveryLimit
          /\ \A a \in listed, b \in Expired(w) \ listed :
                job[a].expires <= job[b].expires
          /\ todo' = [todo EXCEPT ![w] = listed]
    /\ Goto(w, "recovering")
    /\ UNCHANGED <<store, target, hand, seen, outcome, faults>>

RecoverableUnchecked(w, j) == TRUE   \* mutant: no not-expired answer
Recoverable(w, j) == Lapsed(job[j].expires, w)

\* worker.recover reads the job.  A job that is no longer running is skipped.
\* A running job whose lease is not over on this clock (another worker
\* recovered and claimed it since the list) makes the store answer
\* not-expired, which is thrown out of workOnce and ends the role; the store
\* compares the lease with the time of this read, at the revision of this read.
RecoverGet(w, j) ==
    /\ pc[w] = "recovering"
    /\ j \in todo[w]
    /\ \/ /\ job[j].phase # "running"
          /\ todo' = [todo EXCEPT ![w] = @ \ {j}]
          /\ UNCHANGED <<pc, target, hand, seen, outcome>>
       \/ /\ job[j].phase = "running"
          /\ Recoverable(w, j)
          /\ Goto(w, "recoverCommit")
          /\ target' = [target EXCEPT ![w] = j]
          /\ seen'   = [seen EXCEPT ![w] = job[j].revision]
          /\ UNCHANGED <<todo, hand, outcome>>
       \/ /\ job[j].phase = "running"
          /\ ~Recoverable(w, j)
          /\ Die(w)
    /\ UNCHANGED <<store, faults>>

RecoverCommit(w) ==
    LET j == target[w] IN
    /\ pc[w] = "recoverCommit"
    /\ job[j].phase = "running"
    /\ job[j].revision = seen[w]
    /\ job' = [job EXCEPT ![j] = Requeued(@)]
    /\ InsertDispatch(<<j, seen[w] + 1>>, Stamp(w, 0))
    /\ InsertAudit(j, "recovered", seen[w])
    /\ Goto(w, "recovering")
    /\ todo'   = [todo EXCEPT ![w] = @ \ {j}]
    /\ target' = [target EXCEPT ![w] = Nil]
    /\ seen'   = [seen EXCEPT ![w] = 0]
    /\ UNCHANGED <<artifact, hand, outcome, faults>>

\* The job moved between the read and the transaction: job-recovery-conflict
\* is not caught by workOnce, the role fails.
RecoverConflict(w) ==
    /\ pc[w] = "recoverCommit"
    /\ \/ job[target[w]].phase # "running"
       \/ job[target[w]].revision # seen[w]
    /\ Die(w)
    /\ UNCHANGED <<store, faults>>

RecoverDone(w) ==
    /\ pc[w] = "recovering"
    /\ todo[w] = {}
    /\ Goto(w, "polling")
    /\ UNCHANGED <<store, todo, target, hand, seen, outcome, faults>>

-----------------------------------------------------------------------------
(***************************************************************************)
(* claimAvailable: a dispatch row that is open, due, and unclaimed or      *)
(* claimed by a lease that is over.                                        *)
(***************************************************************************)
AvailableUnclaimed(w, d) ==   \* mutant: an expired claim is not taken over
    /\ ~dispatch[d].completed
    /\ Lapsed(dispatch[d].available, w)
    /\ dispatch[d].claim = Nil
Available(w, d) ==
    /\ ~dispatch[d].completed
    /\ Lapsed(dispatch[d].available, w)
    /\ dispatch[d].claim = Nil \/ Lapsed(dispatch[d].expires, w)

ClaimDispatch(w, d) ==
    /\ pc[w] = "polling"
    /\ Available(w, d)
    /\ dispatch' = [dispatch EXCEPT ![d] = [@ EXCEPT !.claim = w,
                                                     !.expires = Stamp(w, Lease)]]
    /\ hand'   = [hand EXCEPT ![w] = d]
    /\ target' = [target EXCEPT ![w] = d[1]]
    /\ Goto(w, "executing")
    /\ UNCHANGED <<job, artifact, audit, todo, seen, outcome, faults>>

NothingAvailable(w) ==
    /\ pc[w] = "polling"
    /\ \A d \in DOMAIN dispatch : ~Available(w, d)
    /\ Goto(w, "idle")
    /\ UNCHANGED <<store, todo, target, hand, seen, outcome, faults>>

-----------------------------------------------------------------------------
(***************************************************************************)
(* worker.execute.  A transaction whose reply is lost has had its effect   *)
(* although the worker sees an error; errors of the store calls that       *)
(* execute makes outside its own try block defer the dispatch.             *)
(***************************************************************************)
Fault == faults < MaxFaults /\ faults' = faults + 1

Reply(w, next) ==
    \/ Goto(w, next) /\ UNCHANGED faults
    \/ Goto(w, "deferring") /\ Fault

ExecuteGet(w) ==
    LET row == job[target[w]] IN
    /\ pc[w] = "executing"
    /\ \/ row.phase \in Terminal /\ Goto(w, "acking")    /\ UNCHANGED seen
       \/ row.phase = "running"  /\ Goto(w, "deferring") /\ UNCHANGED seen
       \/ /\ row.phase = "queued"
          /\ Goto(w, "claiming")
          /\ seen' = [seen EXCEPT ![w] = row.revision]
    /\ UNCHANGED <<store, todo, target, hand, outcome, faults>>

ClaimJob(w) ==
    LET j == target[w] IN
    /\ pc[w] = "claiming"
    /\ job[j].phase = "queued"
    /\ job[j].revision = seen[w]
    /\ job' = [job EXCEPT ![j] = Started(@, w)]
    /\ InsertAudit(j, "started", seen[w])
    /\ seen' = [seen EXCEPT ![w] = @ + 1]
    /\ Reply(w, "acting")
    /\ UNCHANGED <<dispatch, artifact, todo, target, hand, outcome>>

ClaimConflict(w) ==
    /\ pc[w] = "claiming"
    /\ \/ job[target[w]].phase # "queued"
       \/ job[target[w]].revision # seen[w]
    /\ Goto(w, "deferring")
    /\ UNCHANGED <<store, todo, target, hand, seen, outcome, faults>>

\* The provider call: an output, or an error the job can record (unknown
\* action, invalid input or output, oversized result, provider error).
Act(w) ==
    /\ pc[w] = "acting"
    /\ \/ \E o \in Outputs :
             /\ outcome' = [outcome EXCEPT ![w] = o]
             /\ Goto(w, "putting")
       \/ /\ outcome' = [outcome EXCEPT ![w] = "action-failed"]
          /\ Goto(w, "completing")
    /\ UNCHANGED <<store, todo, target, hand, seen, faults>>

\* An error whose code or message the failure schema refuses: parsing it
\* throws inside the catch block, execute rejects and the job stays running.
ActUnreportable(w) ==
    /\ pc[w] = "acting"
    /\ Goto(w, "deferring")
    /\ Fault
    /\ UNCHANGED <<store, todo, target, hand, seen, outcome>>

\* results.put: the artifact is written once; the same digest is accepted
\* again, another one is refused and fails the job for good.
Stored(j, o) == IF artifact[j] = Nil THEN o ELSE artifact[j]

PutAnswerUnchecked(j, o) == o   \* mutant: the digests are not compared
PutAnswer(j, o) == IF artifact[j] \in {Nil, o} THEN o ELSE "result-conflict"

PutResult(w) ==
    LET j == target[w] IN
    /\ pc[w] = "putting"
    /\ artifact' = [artifact EXCEPT ![j] = Stored(j, outcome[w])]
    /\ outcome'  = [outcome EXCEPT ![w] = PutAnswer(j, outcome[w])]
    /\ Goto(w, "completing")
    /\ UNCHANGED <<job, dispatch, audit, todo, target, hand, seen, faults>>

\* results.put fails, before or after its commit: inside the try block any
\* error becomes a failed job.
PutError(w) ==
    LET j == target[w] IN
    /\ pc[w] = "putting"
    /\ Fault
    /\ \/ UNCHANGED artifact
       \/ artifact' = [artifact EXCEPT ![j] = Stored(j, outcome[w])]
    /\ outcome' = [outcome EXCEPT ![w] = "action-failed"]
    /\ Goto(w, "completing")
    /\ UNCHANGED <<job, dispatch, audit, todo, target, hand, seen>>

Holds(w, row) ==
    /\ row.phase = "running"
    /\ row.revision = seen[w]
    /\ row.token = [owner |-> w, revision |-> seen[w]]

Complete(w) ==
    LET j == target[w] IN
    /\ pc[w] = "completing"
    /\ Holds(w, job[j])
    /\ job' = [job EXCEPT ![j] = Settled(@, outcome[w])]
    /\ InsertAudit(j, Settled(job[j], outcome[w]).phase, seen[w] + 1)
    /\ Reply(w, "acking")
    /\ UNCHANGED <<dispatch, artifact, todo, target, hand, seen, outcome>>

CompleteConflict(w) ==
    /\ pc[w] = "completing"
    /\ ~Holds(w, job[target[w]])
    /\ Goto(w, "deferring")
    /\ UNCHANGED <<store, todo, target, hand, seen, outcome, faults>>

-----------------------------------------------------------------------------
(***************************************************************************)
(* The end of workOnce: acknowledge, or release with a delay.              *)
(***************************************************************************)
OwnsAnyDispatch(w) == ~dispatch[hand[w]].completed   \* mutant: no claim token
OwnsDispatch(w) == dispatch[hand[w]].claim = w /\ ~dispatch[hand[w]].completed

Acknowledge(w) ==
    /\ pc[w] = "acking"
    /\ OwnsDispatch(w)
    /\ dispatch' = [dispatch EXCEPT ![hand[w]] = [@ EXCEPT !.completed = TRUE,
                                                           !.claim = Nil,
                                                           !.expires = 0]]
    /\ \/ Goto(w, "idle") /\ Forget(w) /\ UNCHANGED faults
       \/ /\ Goto(w, "deferring") /\ Fault
          /\ UNCHANGED <<todo, target, hand, seen, outcome>>
    /\ UNCHANGED <<job, artifact, audit>>

AcknowledgeConflict(w) ==
    /\ pc[w] = "acking"
    /\ ~OwnsDispatch(w)
    /\ Goto(w, "deferring")
    /\ UNCHANGED <<store, todo, target, hand, seen, outcome, faults>>

\* release answers conflict when the claim was taken over; nobody looks.
Release(w) ==
    /\ pc[w] = "deferring"
    /\ dispatch' = IF OwnsDispatch(w)
                   THEN [dispatch EXCEPT ![hand[w]] =
                           [@ EXCEPT !.available = Stamp(w, Retry),
                                     !.claim = Nil,
                                     !.expires = 0]]
                   ELSE dispatch
    /\ Goto(w, "idle")
    /\ Forget(w)
    /\ UNCHANGED <<job, artifact, audit, faults>>

-----------------------------------------------------------------------------
(***************************************************************************)
(* The environment: failed store calls, crashes, restarts and the clock.   *)
(***************************************************************************)
\* A store call fails, before or after its commit.  Its error is retryable, or
\* none of the program's own, so that the dispatch is released: the errors that
\* make workOnce discard a dispatch instead are of a job row that is missing,
\* which the foreign key of the dispatch excludes, or that holds a time that is
\* none, which no statement of the store writes.
StoreError(w) ==
    /\ pc[w] \in {"executing", "claiming", "completing", "acking"}
    /\ Fault
    /\ Goto(w, "deferring")
    /\ UNCHANGED <<store, todo, target, hand, seen, outcome>>

\* A killed process, or an error outside the try block of workOnce: the
\* role stops and its memory is gone.
Crash(w) ==
    /\ pc[w] # "down"
    /\ Fault
    /\ Die(w)
    /\ UNCHANGED store

Restart(w) ==
    /\ pc[w] = "down"
    /\ Goto(w, "idle")
    /\ UNCHANGED <<store, todo, target, hand, seen, outcome, faults>>

Working(w) == pc[w] \in {"acting", "putting", "completing"}

\* Bound: from MaxRevision on, a live holder finishes within its lease.
Punctual ==
    \A w \in Workers :
        /\ Working(w)
        /\ Holds(w, job[target[w]])
        /\ job[target[w]].revision >= MaxRevision
        => job[target[w]].expires > MaxSkew + 1

CountDown(left) == IF left = 0 THEN 0 ELSE left - 1

Tick ==
    /\ Punctual
    /\ job' = [j \in Jobs |-> [job[j] EXCEPT !.expires = CountDown(@)]]
    /\ dispatch' = [d \in DOMAIN dispatch |->
                      [dispatch[d] EXCEPT !.available = CountDown(@),
                                          !.expires = CountDown(@)]]
    /\ UNCHANGED <<artifact, audit, local, faults>>

-----------------------------------------------------------------------------
WorkerStep(w) ==
    \/ ListExpired(w)
    \/ \E j \in Jobs : RecoverGet(w, j)
    \/ RecoverCommit(w)
    \/ RecoverConflict(w)
    \/ RecoverDone(w)
    \/ \E d \in DOMAIN dispatch : ClaimDispatch(w, d)
    \/ NothingAvailable(w)
    \/ ExecuteGet(w)
    \/ ClaimJob(w)
    \/ ClaimConflict(w)
    \/ Act(w)
    \/ PutResult(w)
    \/ Complete(w)
    \/ CompleteConflict(w)
    \/ Acknowledge(w)
    \/ AcknowledgeConflict(w)
    \/ Release(w)
    \/ Restart(w)

FaultStep(w) ==
    \/ ActUnreportable(w)
    \/ PutError(w)
    \/ StoreError(w)
    \/ Crash(w)

Next ==
    \/ \E j \in Jobs : Admit(j)
    \/ \E w \in Workers : WorkerStep(w) \/ FaultStep(w)
    \/ Tick

Spec == Init /\ [][Next]_vars

(***************************************************************************)
(* Fairness.  A worker is a loop that never stops by itself and the        *)
(* deployment restarts it when it fails, so its steps are weakly fair, and *)
(* the clock runs.  Nothing in the code bounds how long an execution takes *)
(* or renews a claim under it; that executions are, from some moment on,   *)
(* shorter than the dispatch lease is assumed.                             *)
(***************************************************************************)
Timely ==
    \A w \in Workers :
        hand[w] # Nil /\ OwnsDispatch(w) => dispatch[hand[w]].expires > MaxSkew + 1

Fairness ==
    /\ \A w \in Workers : WF_vars(WorkerStep(w))
    /\ WF_vars(Tick)
    /\ <>[][Tick => Timely]_vars

FairSpec == Spec /\ Fairness

-----------------------------------------------------------------------------
(***************************************************************************)
(* Properties.                                                             *)
(***************************************************************************)

\* Every variable stays in its domain: the column types and CHECKs of the
\* tables and the locals of workOnce.
TypeOK ==
    /\ job \in [Jobs -> JobRow]
    /\ DOMAIN dispatch \subseteq Jobs \X (Nat \ {0})
    /\ dispatch \in [DOMAIN dispatch -> DispatchRow]
    /\ artifact \in [Jobs -> Outputs \cup {Nil}]
    /\ audit \in [Jobs -> SUBSET (Kinds \X Nat)]
    /\ pc \in [Workers -> Steps]
    /\ todo \in [Workers -> SUBSET Jobs]
    /\ target \in [Workers -> Jobs \cup {Nil}]
    /\ hand \in [Workers -> DOMAIN dispatch \cup {Nil}]
    /\ seen \in [Workers -> Nat]
    /\ outcome \in [Workers -> Outputs \cup Failures \cup {Nil}]
    /\ faults \in 0..MaxFaults

-----------------------------------------------------------------------------
\* A job is queued at its odd revisions, the offers, and running at its even
\* ones, the attempts; it ends at an odd revision that is not an offer.
Offers(row)   == {r \in 1..row.revision :
                    r % 2 = 1 /\ (row.phase \in Terminal => r # row.revision)}
Attempts(row) == {r \in 1..row.revision : r % 2 = 0}

\* Starts and recoveries are recorded with the revision they leave.
Before(kind, revisions) == {<<kind, r - 1>> : r \in revisions}

\* What the audit trail must say of a job that has come this far.
Ledger(row) ==
    {<<"admitted", r>> : r \in Offers(row) \cap {1}}
    \cup Before("recovered", Offers(row) \ {1})
    \cup Before("started", Attempts(row))
    \cup {<<p, row.revision>> : p \in Terminal \cap {row.phase}}

\* The audit trail is exactly the history of the job, whatever crashed or was
\* retried on the way: no fact is lost, doubled or written by a worker whose
\* transition was refused, and the audit id <job>.<revision>.<kind> (a
\* primary key) never collides.  hosted-postgresql, insertAudit.
AuditLedger == \A j \in Jobs : audit[j] = Ledger(job[j])

\* The outbox holds one row per offer of the job, and a row is completed only
\* when its job has ended: no worker that lost its claim completes a row of a
\* job that somebody still has to run, so that "a committed job cannot be
\* silently lost between the database and worker queue".
DispatchLedger ==
    /\ DOMAIN dispatch = UNION {{j} \X Offers(job[j]) : j \in Jobs}
    /\ \A d \in DOMAIN dispatch :
          dispatch[d].completed => job[d[1]].phase \in Terminal

\* A worker between claim and complete either still holds the job row or has
\* been fenced out for good by a later revision, and no two workers run the
\* same attempt of a job.
FencedOut ==
    /\ \A w \in Workers :
          Working(w) =>
              \/ Holds(w, job[target[w]])
              \/ seen[w] < job[target[w]].revision
    /\ \A v, w \in Workers :
          v # w /\ Working(v) /\ Working(w) /\ target[v] = target[w]
              => seen[v] # seen[w]

\* A job that succeeded refers to the artifact that is stored, whichever
\* attempt stored it; a worker about to report success has its artifact
\* stored; only a terminal job carries a result or a failure.
ArtifactMatches ==
    /\ \A j \in Jobs :
          /\ job[j].phase = "succeeded" =>
                job[j].result # Nil /\ job[j].result = artifact[j]
          /\ job[j].phase # "succeeded" => job[j].result = Nil
          /\ job[j].phase = "failed" <=> job[j].failure # Nil
    /\ \A w \in Workers :
          pc[w] = "completing" /\ outcome[w] \notin Failures =>
              outcome[w] = artifact[target[w]]

\* While the lease of a running job lasts on every clock, nobody but its
\* holder moves the job: a worker that listed it as expired, and finds it
\* recovered and claimed again, must not take it from the new holder.
LeaseProtectsHolder ==
    [][\A j \in Jobs :
          job[j].phase = "running" /\ job'[j].revision # job[j].revision =>
              \/ job[j].expires <= MaxSkew
              \/ \E w \in Workers :
                    pc[w] = "completing" /\ target[w] = j /\ Holds(w, job[j])]_vars

\* A claimed dispatch changes hands only through its claimant or after its
\* lease: a worker whose claim was taken over neither completes nor delays
\* the row of the worker that has it now.
OnlyOwnerClosesDispatch ==
    [][\A d \in DOMAIN dispatch :
          dispatch[d].claim # Nil /\ dispatch'[d].claim # dispatch[d].claim =>
              \/ dispatch[d].expires <= MaxSkew
              \/ hand[dispatch[d].claim] = d
                 /\ pc[dispatch[d].claim] \in {"acking", "deferring"}]_vars

\* Every admitted job ends, through crashes, conflicts and lost replies, once
\* attempts are punctual.
EveryJobSettles ==
    \A j \in Jobs : job[j].phase = "queued" ~> job[j].phase \in Terminal

\* Every dispatch row is completed in the end, the stale ones of earlier
\* attempts included, so workers do not poll for a finished job for ever.
OutboxDrains ==
    \A j \in Jobs : <>[](\A d \in DOMAIN dispatch : d[1] = j => dispatch[d].completed)

\* The runtime implements the contract with the client.
Verdict(row) ==
    CASE row.phase = "absent"    -> "unknown"
      [] row.phase = "succeeded" -> row.result
      [] row.phase = "failed"    -> row.failure
      [] OTHER                   -> "open"

Contract == INSTANCE ReadContract WITH
    Reads <- Jobs, Values <- Outputs, Reasons <- Failures, None <- Nil,
    verdict <- [j \in Jobs |-> Verdict(job[j])],
    stored <- artifact

ImplementsContract == Contract!Spec

\* "an at-least-once worker contract ... Expired claims are recoverable"
\* (packages/ops-engine/README.md): a read that is run again after its claim
\* expired does not fail because its earlier run got as far as storing a value.
RecoveredReadNotRefused == \A j \in Jobs : job[j].failure # "result-conflict"
=============================================================================
