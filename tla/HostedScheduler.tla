--------------------------- MODULE HostedScheduler ---------------------------
(***************************************************************************)
(* Scheduler processes that turn due schedules into read jobs.  A schedule *)
(* is a row with a revision and the time it is next due; a scheduler       *)
(* recovers lapsed claims, claims one due row under a token of its own and *)
(* materializes it: in one transaction the job is admitted, the occurrence *)
(* recorded and the row advanced.  Whatever goes wrong ends the process,   *)
(* and the host starts it anew.                                            *)
(*                                                                         *)
(* The time of a claim is read once, before the recovery.  The job of an   *)
(* occurrence carries its identity, which no other request uses.           *)
(***************************************************************************)
EXTENDS Naturals, FiniteSets

CONSTANTS
    Schedulers, Schedules,
    Cadence,        \* of each schedule, cadence.milliseconds
    LeaseMs, RecoveryLimit,
    MaxClock,       \* bound: time
    MaxSchedulerFaults  \* bound: store calls that fail and processes that die

ASSUME SchedulerAssumption ==
    /\ Cadence \in [Schedules -> Nat \ {0}]
    /\ LeaseMs \in Nat \ {0} /\ RecoveryLimit \in Nat \ {0}
    /\ MaxClock \in Nat \ {0} /\ MaxSchedulerFaults \in Nat

VARIABLES
    clock,
    schedule,       \* ops_hosted_read_schedule
    occurrences,    \* ops_hosted_read_schedule_occurrence
    admitted,       \* jobs admitted for an occurrence
    duty,           \* where each scheduler is in its workOnce
    claimedAt,      \* the time it read
    claim,          \* what claimDue returned to it
    claims,         \* claims so far: the source of tokens
    schedulerFaults

schedulerLocal == <<duty, claimedAt, claim>>
schedulerVars == <<clock, schedule, occurrences, admitted, schedulerLocal, claims, schedulerFaults>>

Unclaimed == 0      \* no token: lease_expires_at IS NULL
NoClaim == [id |-> "none", revision |-> 0, dueAt |-> 0, token |-> Unclaimed]

SchedulerTypeOK ==
    /\ \A s \in Schedules :
        /\ schedule[s].token \in 0 .. claims
        /\ schedule[s].token = Unclaimed <=> schedule[s].expires = 0
    /\ duty \in [Schedulers -> {"down", "polling", "recovering", "claiming", "materializing"}]
    /\ \A p \in Schedulers : claimedAt[p] <= clock /\ (duty[p] = "materializing" => claim[p].token # Unclaimed)

SchedulerInit ==
    /\ clock = 1
    /\ schedule = [s \in Schedules |-> [revision |-> 1, nextDueAt |-> 1, token |-> Unclaimed, expires |-> 0]]
    /\ occurrences = {} /\ admitted = {}
    /\ duty = [p \in Schedulers |-> "polling"]
    /\ claimedAt = [p \in Schedulers |-> 0]
    /\ claim = [p \in Schedulers |-> NoClaim]
    /\ claims = 0
    /\ schedulerFaults = 0

Turn(p, d) == duty' = [duty EXCEPT ![p] = d]

StartWork(p) ==
    /\ duty[p] = "polling"
    /\ Turn(p, "recovering")
    /\ claimedAt' = [claimedAt EXCEPT ![p] = clock]
    /\ UNCHANGED <<clock, schedule, occurrences, admitted, claim, claims, schedulerFaults>>

Unclaim(row) == [row EXCEPT !.token = Unclaimed, !.expires = 0]

LapsedRow(s, time) == schedule[s].token # Unclaimed /\ schedule[s].expires <= time

\* recoverExpired: as many of the lapsed rows as the limit allows.
RecoverSchedules(p) ==
    /\ duty[p] = "recovering"
    /\ LET lapsed == {s \in Schedules : LapsedRow(s, claimedAt[p])} IN
       \E some \in SUBSET lapsed :
        /\ Cardinality(some) = IF Cardinality(lapsed) < RecoveryLimit THEN Cardinality(lapsed) ELSE RecoveryLimit
        /\ schedule' = [s \in Schedules |-> IF s \in some THEN Unclaim(schedule[s]) ELSE schedule[s]]
    /\ Turn(p, "claiming")
    /\ UNCHANGED <<clock, occurrences, admitted, claimedAt, claim, claims, schedulerFaults>>

DueRows(time) ==
    {s \in Schedules :
        /\ schedule[s].nextDueAt <= time
        /\ schedule[s].token = Unclaimed \/ LapsedRow(s, time)}

\* A row that another transaction has locked is skipped, so that it need not be
\* the first that is due.
ClaimDue(p) ==
    /\ duty[p] = "claiming"
    /\ \/ /\ DueRows(claimedAt[p]) = {}
          /\ Turn(p, "polling")
          /\ UNCHANGED <<schedule, claim, claims>>
       \/ \E s \in DueRows(claimedAt[p]) :
            /\ claims' = claims + 1
            /\ schedule' = [schedule EXCEPT ![s].token = claims + 1, ![s].expires = claimedAt[p] + LeaseMs]
            /\ claim' = [claim EXCEPT ![p] = [id |-> s, revision |-> schedule[s].revision,
                                              dueAt |-> schedule[s].nextDueAt, token |-> claims + 1]]
            /\ Turn(p, "materializing")
    /\ UNCHANGED <<clock, occurrences, admitted, claimedAt, schedulerFaults>>

Claimed(c) ==
    /\ schedule[c.id].revision = c.revision
    /\ schedule[c.id].token = c.token
    /\ schedule[c.id].nextDueAt = c.dueAt

\* mutant: the next time is counted from now
AdvancedFromNow(row, s) ==
    [Unclaim(row) EXCEPT !.revision = @ + 1, !.nextDueAt = clock + Cadence[s]]

Advanced(row, s) ==
    [Unclaim(row) EXCEPT !.revision = @ + 1, !.nextDueAt = @ + Cadence[s]]

\* The transaction takes effect.
RecordOccurrence(c) ==
    /\ admitted' = admitted \cup {<<c.id, c.dueAt>>}
    /\ occurrences' = occurrences \cup {<<c.id, c.dueAt>>}
    /\ schedule' = [schedule EXCEPT ![c.id] = Advanced(@, c.id)]

Admissible(c) == Claimed(c) /\ <<c.id, c.dueAt>> \notin admitted

\* mutant: the job is admitted in a transaction of its own
MaterializeInTwo(p) ==
    /\ duty[p] = "materializing"
    /\ claim' = [claim EXCEPT ![p] = NoClaim]
    /\ \/ Admissible(claim[p]) /\ RecordOccurrence(claim[p]) /\ Turn(p, "polling") /\ UNCHANGED schedulerFaults
       \/ /\ Admissible(claim[p]) /\ schedulerFaults < MaxSchedulerFaults
          /\ schedulerFaults' = schedulerFaults + 1
          /\ admitted' = admitted \cup {<<claim[p].id, claim[p].dueAt>>}
          /\ Turn(p, "down") /\ UNCHANGED <<schedule, occurrences>>
       \/ /\ ~Admissible(claim[p]) /\ Turn(p, "down")
          /\ UNCHANGED <<schedule, occurrences, admitted, schedulerFaults>>
    /\ UNCHANGED <<clock, claimedAt, claims>>

\* A conflict is thrown, and ends the process.
Materialize(p) ==
    /\ duty[p] = "materializing"
    /\ claim' = [claim EXCEPT ![p] = NoClaim]
    /\ \/ Admissible(claim[p]) /\ RecordOccurrence(claim[p]) /\ Turn(p, "polling")
       \/ ~Admissible(claim[p]) /\ Turn(p, "down") /\ UNCHANGED <<schedule, occurrences, admitted>>
    /\ UNCHANGED <<clock, claimedAt, claims, schedulerFaults>>

\* A store call fails, or its answer is lost, or the process dies; while there
\* is time left for the claim it may hold to lapse.
FailScheduler(p) ==
    /\ duty[p] \notin {"down", "polling"}
    /\ schedulerFaults < MaxSchedulerFaults
    /\ clock + LeaseMs <= MaxClock
    /\ schedulerFaults' = schedulerFaults + 1
    /\ Turn(p, "down")
    /\ claim' = [claim EXCEPT ![p] = NoClaim]
    /\ \/ UNCHANGED <<schedule, occurrences, admitted>>
       \/ duty[p] = "materializing" /\ Admissible(claim[p]) /\ RecordOccurrence(claim[p])
    /\ UNCHANGED <<clock, claimedAt, claims>>

RestartScheduler(p) ==
    /\ duty[p] = "down"
    /\ Turn(p, "polling")
    /\ UNCHANGED <<clock, schedule, occurrences, admitted, claimedAt, claim, claims, schedulerFaults>>

PassSchedulerTime ==
    /\ clock < MaxClock
    /\ clock' = clock + 1
    /\ UNCHANGED <<schedule, occurrences, admitted, schedulerLocal, claims, schedulerFaults>>

WorkOnce(p) == StartWork(p) \/ RecoverSchedules(p) \/ ClaimDue(p) \/ Materialize(p)

SchedulerNext ==
    \/ \E p \in Schedulers : WorkOnce(p) \/ FailScheduler(p) \/ RestartScheduler(p)
    \/ PassSchedulerTime

\* Each process runs on and is started anew; time passes.
SchedulerFairness ==
    /\ \A p \in Schedulers : WF_schedulerVars(WorkOnce(p) \/ RestartScheduler(p))
    /\ WF_schedulerVars(PassSchedulerTime)

SchedulerSpec == SchedulerInit /\ [][SchedulerNext]_schedulerVars /\ SchedulerFairness

-----------------------------------------------------------------------------
\* Every time a schedule was due up to now has one occurrence and one job, none
\* is left out after a pause, and none is there ahead of the schedule.
DueTimes(s) == {d \in 1 .. MaxClock : d < schedule[s].nextDueAt /\ (d - 1) % Cadence[s] = 0}

OccurrencesExact ==
    /\ occurrences = UNION {{<<s, d>> : d \in DueTimes(s)} : s \in Schedules}
    /\ admitted = occurrences
    /\ \A s \in Schedules : schedule[s].revision = Cardinality(DueTimes(s)) + 1

\* What is due is materialized, although claims lapse, conflicts end processes
\* and processes die: again and again nothing is due.
DueMaterialized == \A s \in Schedules : schedule[s].nextDueAt > clock
DueMaterializes == []<>DueMaterialized
=============================================================================
