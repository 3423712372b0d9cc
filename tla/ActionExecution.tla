--------------------------- MODULE ActionExecution ---------------------------
(***************************************************************************)
(* Read action jobs and the runtime that admits, claims, executes, ends    *)
(* and cancels them.  A job is admitted once for its idempotency key; a    *)
(* worker claims the oldest queued one under a token and a lease, executes *)
(* its action and hands in the outcome under the token; who asks for a     *)
(* cancellation while the job runs gets it when the outcome arrives or the *)
(* lease ends.                                                             *)
(*                                                                         *)
(* An operation of the store is one step.  Nothing ends a claim whose      *)
(* worker is gone but the recovery, which the host calls from time to time *)
(* (external).                                                             *)
(***************************************************************************)
EXTENDS Naturals, SequencesExt, FiniteSets

CONSTANTS
    Keys,       \* idempotency identities
    ActionWorkers,
    ActionLease,    \* leaseMs
    MaxActionTime, MaxActionCalls, MaxWorkerDeaths  \* bounds: time; admissions and
                    \* cancellations; workers that die

ASSUME ActionAssumption ==
    /\ ActionLease \in Nat \ {0}
    /\ MaxActionTime \in Nat /\ MaxActionCalls \in Nat /\ MaxWorkerDeaths \in Nat

VARIABLES
    jobs,       \* the jobs in the order of their admission
    audit,      \* of each job: the types of its events
    sequence,   \* the source of tokens
    holding,    \* of each worker: the job it executes and the token, or Empty
    actionTime, actionCalls, workerDeaths

actionVars == <<jobs, audit, sequence, holding, actionTime, actionCalls, workerDeaths>>

Empty == [job |-> 0, token |-> 0]
Ended == {"cancelled", "succeeded", "failed"}

ActionTypeOK ==
    /\ \A i \in DOMAIN jobs :
        /\ jobs[i].status \in {"queued", "running", "cancel-requested"} \cup Ended
        /\ (jobs[i].token # 0) = (jobs[i].status \in {"running", "cancel-requested"})
    /\ DOMAIN audit = DOMAIN jobs
    /\ \A w \in ActionWorkers : holding[w] = Empty \/ holding[w].job \in DOMAIN jobs

ActionInit ==
    /\ jobs = <<>> /\ audit = <<>>
    /\ sequence = 0
    /\ holding = [w \in ActionWorkers |-> Empty]
    /\ actionTime = 0 /\ actionCalls = 0 /\ workerDeaths = 0

AppendAudit(i, type) == audit' = [audit EXCEPT ![i] = Append(@, type)]

Admitted(k) == {i \in DOMAIN jobs : jobs[i].key = k}

\* A key is admitted again, with the request of its job or with another one:
\* the job is reused, or the admission refused.
Admit(k, same) ==
    /\ actionCalls < MaxActionCalls /\ actionCalls' = actionCalls + 1
    /\ \/ /\ Admitted(k) = {} /\ same
          /\ jobs' = Append(jobs, [key |-> k, status |-> "queued", attempts |-> 0,
                                   token |-> 0, expires |-> 0, asked |-> FALSE])
          /\ audit' = Append(audit, <<"admitted">>)
       \/ \E i \in Admitted(k) :
            /\ UNCHANGED jobs
            /\ IF same THEN AppendAudit(i, "admission-reused") ELSE UNCHANGED audit
    /\ UNCHANGED <<sequence, holding, actionTime, workerDeaths>>

\* claimNext: the first queued job.
ClaimNext(w) ==
    /\ holding[w] = Empty
    /\ \E i \in DOMAIN jobs :
        /\ jobs[i].status = "queued" /\ \A j \in 1 .. i - 1 : jobs[j].status # "queued"
        /\ sequence' = sequence + 1
        /\ jobs' = [jobs EXCEPT ![i].status = "running", ![i].attempts = @ + 1,
                                ![i].token = sequence', ![i].expires = actionTime + ActionLease]
        /\ AppendAudit(i, "claimed")
        /\ holding' = [holding EXCEPT ![w] = [job |-> i, token |-> sequence']]
    /\ UNCHANGED <<actionTime, actionCalls, workerDeaths>>

\* The claim is deleted with the status that replaces it.
WithoutClaim(job, status) == [job EXCEPT !.status = status, !.token = 0, !.expires = 0]

\* mutant: whoever claimed the job last or before may end it
AnyClaim(h) == jobs[h.job].status # "queued"

\* assertClaim
HoldsClaim(h) ==
    /\ jobs[h.job].token = h.token
    /\ jobs[h.job].status \in {"running", "cancel-requested"}

\* mutant: the outcome of a job that is being cancelled counts
OutcomeAnyway(status, outcome) == outcome

\* complete and fail: the status the outcome of an action leads to.
Outcome(status, outcome) == IF status = "cancel-requested" THEN "cancelled" ELSE outcome

\* The action is gone, fails, returns what its schema refuses, or succeeds.  A
\* worker without the claim is refused, and knows no more of the job.
Deliver(w) ==
    /\ holding[w] # Empty
    /\ LET h == holding[w] IN
       \/ /\ HoldsClaim(h)
          /\ \E outcome \in {"succeeded", "failed"} :
             LET status == Outcome(jobs[h.job].status, outcome) IN
                /\ jobs' = [jobs EXCEPT ![h.job] = WithoutClaim(@, status)]
                /\ AppendAudit(h.job, status)
       \/ ~HoldsClaim(h) /\ UNCHANGED <<jobs, audit>>
    /\ holding' = [holding EXCEPT ![w] = Empty]
    /\ UNCHANGED <<sequence, actionTime, actionCalls, workerDeaths>>

\* requestCancellation
Cancel(i) ==
    /\ actionCalls < MaxActionCalls /\ actionCalls' = actionCalls + 1
    /\ IF jobs[i].status \in Ended THEN UNCHANGED <<jobs, audit>>
       ELSE LET queued == jobs[i].status = "queued" IN
            /\ jobs' = [jobs EXCEPT ![i].status = IF queued THEN "cancelled" ELSE "cancel-requested",
                                    ![i].asked = TRUE]
            /\ AppendAudit(i, IF queued THEN "cancelled" ELSE "cancellation-requested")
    /\ UNCHANGED <<sequence, holding, actionTime, workerDeaths>>

Expired(i) ==
    /\ jobs[i].status \in {"running", "cancel-requested"}
    /\ jobs[i].expires <= actionTime

Recovered(job) == IF job.status = "cancel-requested" THEN "cancelled" ELSE "queued"

\* recoverExpired: all of them, in one call.
RecoverActions ==
    /\ \E i \in DOMAIN jobs : Expired(i)
    /\ jobs' = [i \in DOMAIN jobs |-> IF Expired(i) THEN WithoutClaim(jobs[i], Recovered(jobs[i])) ELSE jobs[i]]
    /\ audit' = [i \in DOMAIN jobs |->
                    IF ~Expired(i) THEN audit[i]
                    ELSE Append(audit[i], IF Recovered(jobs[i]) = "queued" THEN "requeued" ELSE "cancelled")]
    /\ UNCHANGED <<sequence, holding, actionTime, actionCalls, workerDeaths>>

\* While there is time left for the lease of its job to end.
DieHolding(w) ==
    /\ holding[w] # Empty
    /\ workerDeaths < MaxWorkerDeaths /\ actionTime + ActionLease <= MaxActionTime
    /\ workerDeaths' = workerDeaths + 1
    /\ holding' = [holding EXCEPT ![w] = Empty]
    /\ UNCHANGED <<jobs, audit, sequence, actionTime, actionCalls>>

PassActionTime ==
    /\ actionTime < MaxActionTime
    /\ actionTime' = actionTime + 1
    /\ UNCHANGED <<jobs, audit, sequence, holding, actionCalls, workerDeaths>>

ActionNext ==
    \/ \E k \in Keys, same \in BOOLEAN : Admit(k, same)
    \/ \E w \in ActionWorkers : ClaimNext(w) \/ Deliver(w) \/ DieHolding(w)
    \/ \E i \in DOMAIN jobs : Cancel(i)
    \/ RecoverActions
    \/ PassActionTime

\* Workers poll and end their executions, the host calls the recovery, and
\* time passes.
ActionFairness ==
    /\ \A w \in ActionWorkers : WF_actionVars(ClaimNext(w)) /\ WF_actionVars(Deliver(w))
    /\ WF_actionVars(RecoverActions) /\ WF_actionVars(PassActionTime)

ActionSpec == ActionInit /\ [][ActionNext]_actionVars /\ ActionFairness

-----------------------------------------------------------------------------
\* The status that an event leads to; a reused admission leads to none.
Means(type) ==
    CASE type \in {"admitted", "requeued"} -> "queued"
      [] type = "claimed" -> "running"
      [] type = "cancellation-requested" -> "cancel-requested"
      [] OTHER -> type

\* The last event of a job that leads to a status leads to this one.
Tells(types, status) ==
    \E last \in DOMAIN types :
        /\ types[last] # "admission-reused" /\ status = Means(types[last])
        /\ \A i \in DOMAIN types : i > last => types[i] = "admission-reused"

\* Where in the audit of a job there are events of these types.
Positions(types, kinds) == {i \in DOMAIN types : types[i] \in kinds}

\* Who reads the audit of a job alone knows its status and its attempts, and
\* reads of one end at most, whichever workers, cancellations and recoveries
\* met in it.
AuditTells ==
    \A i \in DOMAIN jobs :
        /\ Tells(audit[i], jobs[i].status)
        /\ jobs[i].attempts = Cardinality(Positions(audit[i], {"claimed"}))
        /\ Cardinality(Positions(audit[i], Ended)) <= 1

\* Every job ends, and one somebody asked to cancel before it ended is
\* cancelled.
JobsSettled ==
    \A i \in DOMAIN jobs : jobs[i].status \in Ended /\ (jobs[i].asked => jobs[i].status = "cancelled")
JobsSettle == []<>JobsSettled
=============================================================================
