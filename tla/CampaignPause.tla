--------------------------- MODULE CampaignPause ----------------------------
(***************************************************************************)
(* The durable campaign pause workflow: plan, approve, apply, verify and   *)
(* recover one advertising campaign's pause.  Every call of the host is a  *)
(* caller here, a process of its own; callers share the execution store    *)
(* (runs, the target guard, approvals, receipts, the lease of the target)  *)
(* and every store call is one step.  All runs are on one target: runs on  *)
(* different targets share neither lease nor guard.                        *)
(*                                                                         *)
(* What the caller cannot know is a free choice.  Anyone may pause or      *)
(* enable the campaign at the provider at any time, so a status read may   *)
(* return anything, and may or may not match the evidence of the plan; and *)
(* a plan expires on a clock of its own, so approve and preflight may      *)
(* always find it stale.                                                   *)
(*                                                                         *)
(* The revision that a compare-and-set checks is kept as who has read the  *)
(* latest one: a store of a record makes every earlier read of it stale.   *)
(* The deadlines that race each other, of the lease, the recovery and the  *)
(* provider request, are kept as the time left and counted down by Tick.   *)
(***************************************************************************)
EXTENDS Naturals, FiniteSets

CONSTANTS
    Callers,        \* concurrent calls of executeCampaignPauseWorkflow
    Runs,           \* run identities, one per plan
    None,
    Answers,        \* what the provider may answer: "succeeded", "rejected"
    ApprovalsFinal, \* sqlite refuses to overwrite an approval, local files do not
    LockTtl,        \* lockTtlMs
    Delay,          \* verificationDelayMs
    Margin,         \* the 30 s that recovery waits beyond the lease
    CallLimit,      \* the 30 s after which a provider request is aborted
    MaxApprovals,   \* bound: approvals put for one plan
    MaxFaults       \* bound: crashes and failed store calls

ASSUME ValueAssumption ==
    /\ Answers \subseteq {"succeeded", "rejected"}
    /\ None \notin Runs \cup Callers \cup {"succeeded", "rejected", "unknown", "recovery"}

ASSUME TimeAssumption ==
    /\ ApprovalsFinal \in BOOLEAN
    /\ LockTtl \in Nat \ {0}
    /\ Delay \in Nat
    /\ Margin \in Nat
    /\ CallLimit \in Nat
    /\ CallLimit <= Margin

ASSUME BoundAssumption ==
    /\ MaxApprovals \in Nat
    /\ MaxFaults \in Nat

VARIABLES
    run,        \* the mutation run of each plan
    guard,      \* the run that holds the target, and whether it still does
    issued,     \* approvals put so far: the last one is the one in the store
    lapsed,     \* approvals past their expiresAt
    receipt,    \* the immutable receipt of each plan
    lease,      \* the lease of the target
    pc,         \* where each caller stands
    subject,    \* the run it works on
    fresh,      \* the records whose latest revision it has read
    ticket,     \* the approval it carries
    outcome,    \* what the provider told it
    left,       \* time left until its provider request is aborted
    asked,      \* history: provider requests made for a run
    answered,   \* history: what the provider answered
    observed,   \* history: runs whose effect has been observed
    faults      \* faults so far

store   == <<run, guard, issued, receipt, lease>>
local   == <<pc, subject, fresh, ticket, outcome, left>>
history == <<asked, answered, observed>>
vars    == <<run, guard, issued, receipt, lease, pc, subject, fresh, ticket,
             outcome, left, lapsed, asked, answered, observed, faults>>

-----------------------------------------------------------------------------
Phases   == {"absent", "planned", "approved", "verifying", "applied",
             "attention", "verified"}
Outcomes == Answers \cup {"unknown"}
Decisive == {"paused", "active"}
Statuses == Decisive \cup {"unknown", "pending"}

RunRow ==
    [phase    : Phases,
     approval : Nat,                        \* 0: none
     attempt  : BOOLEAN,
     wait     : Nat,                        \* until recovery may begin
     output   : Outcomes \cup {None},
     opens    : Nat]                        \* until the verification window

Receipts == Outcomes \cup {"recovery", None}

ApplySteps ==
    {"locking", "preflight", "attempting", "checkingGuard", "starting",
     "guarding", "sending", "inFlight", "recording", "applying",
     "storing"}
VerifySteps ==
    {"recovering", "recoverRead", "recoverStore", "observing",
     "observedRead", "observedStore", "guardRead", "guardClose"}
ApproveSteps == {"approving", "approvalRead", "approvalStore", "refused"}
Steps == {"idle", "releasing"} \cup ApplySteps \cup VerifySteps \cup ApproveSteps

NoRun ==
    [phase |-> "absent", approval |-> 0, attempt |-> FALSE, wait |-> 0,
     output |-> None, opens |-> 0]

NoLease == [owner |-> None, left |-> 0]

Goto(c, step) == pc' = [pc EXCEPT ![c] = step]

\* The call returns or throws: nothing it read survives.  reads is what the
\* callers still have read the latest revision of.
Done(c, reads) ==
    /\ Goto(c, "idle")
    /\ subject' = [subject EXCEPT ![c] = None]
    /\ fresh'   = [reads EXCEPT ![c] = {}]
    /\ ticket'  = [ticket EXCEPT ![c] = 0]
    /\ outcome' = [outcome EXCEPT ![c] = None]
    /\ left'    = [left EXCEPT ![c] = 0]

\* A throw inside the try block of apply still runs its finally.
Abandon(c) == Goto(c, "releasing") /\ UNCHANGED <<subject, fresh, ticket, outcome, left>>

Row(c) == run[subject[c]]

Read(c, record) == fresh' = [fresh EXCEPT ![c] = @ \cup {record}]

\* Storing a record makes every read of it stale, the writer's own included.
AfterRun(c) ==
    [d \in Callers |-> IF subject[d] = subject[c] THEN fresh[d] \ {"run"} ELSE fresh[d]]
AfterGuard == [d \in Callers |-> fresh[d] \ {"guard"}]

\* assertCurrent: the lease is still this caller's, and not over.
CurrentOwner(c) == lease.owner = c   \* mutant: the deadline is not compared
Current(c) == lease.owner = c /\ lease.left > 0

Init ==
    /\ run      = [r \in Runs |-> NoRun]
    /\ guard    = [run |-> None, open |-> FALSE]
    /\ issued   = [r \in Runs |-> 0]
    /\ lapsed   = [r \in Runs |-> {}]
    /\ receipt  = [r \in Runs |-> None]
    /\ lease    = NoLease
    /\ pc       = [c \in Callers |-> "idle"]
    /\ subject  = [c \in Callers |-> None]
    /\ fresh    = [c \in Callers |-> {}]
    /\ ticket   = [c \in Callers |-> 0]
    /\ outcome  = [c \in Callers |-> None]
    /\ left     = [c \in Callers |-> 0]
    /\ asked    = [r \in Runs |-> 0]
    /\ answered = [r \in Runs |-> None]
    /\ observed = {}
    /\ faults   = 0

-----------------------------------------------------------------------------
(***************************************************************************)
(* plan and approve.                                                       *)
(***************************************************************************)
Plan(r) ==
    /\ run[r].phase = "absent"
    /\ run' = [run EXCEPT ![r] = [NoRun EXCEPT !.phase = "planned"]]
    /\ UNCHANGED <<guard, issued, receipt, lease, local, lapsed, history, faults>>

Valid(r) == run[r].approval # 0 /\ run[r].approval \notin lapsed[r]

\* A valid approval is returned, or belongs to somebody else; a plan that is
\* stale or already requested is refused.
Approve(c, r) ==
    /\ pc[c] = "idle"
    /\ run[r].phase # "absent"
    /\ ~Valid(r)
    /\ ~run[r].attempt /\ run[r].output = None
    /\ issued[r] < MaxApprovals
    /\ Goto(c, "approving")
    /\ subject' = [subject EXCEPT ![c] = r]
    /\ UNCHANGED <<store, fresh, ticket, outcome, left, lapsed, history, faults>>

\* approvals.put: the identity of an approval is that of its plan, so a
\* renewal puts another record under the same identity.
PutApproval(c) ==
    LET r == subject[c] IN
    /\ pc[c] = "approving"
    /\ \/ /\ ApprovalsFinal /\ issued[r] > 0
          /\ Goto(c, "refused")
          /\ UNCHANGED <<issued, ticket>>
       \/ /\ ~(ApprovalsFinal /\ issued[r] > 0)
          /\ issued' = [issued EXCEPT ![r] = @ + 1]
          /\ ticket' = [ticket EXCEPT ![c] = issued[r] + 1]
          /\ Goto(c, "approvalRead")
    /\ UNCHANGED <<run, guard, receipt, lease, subject, fresh, outcome, left,
                   lapsed, history, faults>>

Refused(c) ==
    /\ pc[c] = "refused"
    /\ Done(c, fresh)
    /\ UNCHANGED <<store, lapsed, history, faults>>

Approvable(r) == run[r].phase = "planned" \/ (run[r].phase = "approved" /\ ~Valid(r))

ApprovalRead(c) ==
    LET r == subject[c] IN
    /\ pc[c] = "approvalRead"
    /\ IF Approvable(r) /\ ticket[c] \notin lapsed[r]
       THEN /\ Goto(c, "approvalStore")
            /\ Read(c, "run")
            /\ UNCHANGED <<subject, ticket, outcome, left>>
       ELSE Done(c, fresh)
    /\ UNCHANGED <<store, lapsed, history, faults>>

ApprovalStore(c) ==
    /\ pc[c] = "approvalStore"
    /\ IF "run" \in fresh[c]
       THEN /\ run' = [run EXCEPT ![subject[c]].phase = "approved",
                                  ![subject[c]].approval = ticket[c]]
            /\ Done(c, AfterRun(c))
       ELSE run' = run /\ Done(c, fresh)
    /\ UNCHANGED <<guard, issued, receipt, lease, lapsed, history, faults>>

-----------------------------------------------------------------------------
(***************************************************************************)
(* apply.                                                                  *)
(***************************************************************************)
\* An open attempt is refused, a finished one is only reviewed.
Apply(c, r) ==
    /\ pc[c] = "idle"
    /\ run[r].approval # 0
    /\ ~run[r].attempt /\ run[r].output = None
    /\ Goto(c, "locking")
    /\ subject' = [subject EXCEPT ![c] = r]
    /\ ticket'  = [ticket EXCEPT ![c] = run[r].approval]
    /\ UNCHANGED <<store, fresh, outcome, left, lapsed, history, faults>>

AcquireLock(c) ==
    /\ pc[c] = "locking"
    /\ IF lease.left = 0
       THEN /\ lease' = [owner |-> c, left |-> LockTtl]
            /\ Goto(c, "preflight")
            /\ UNCHANGED <<subject, fresh, ticket, outcome, left>>
       ELSE lease' = lease /\ Done(c, fresh)
    /\ UNCHANGED <<run, guard, issued, receipt, lapsed, history, faults>>

\* assertOpsMutationPreflight.  Its three store reads are one step: what makes
\* one of them fail stays so, except an approval that is overwritten, and that
\* is the first of the three.
PreflightPasses(c) ==
    LET r == subject[c] IN
    /\ ticket[c] \notin lapsed[r]
    /\ ticket[c] = issued[r]
    /\ Current(c)
    /\ receipt[r] = None

Preflight(c) ==
    /\ pc[c] = "preflight"
    /\ \/ PreflightPasses(c) /\ Goto(c, "attempting")
       \/ Goto(c, "releasing")      \* it fails: plan or evidence may be stale
    /\ UNCHANGED <<store, subject, fresh, ticket, outcome, left, lapsed, history, faults>>

AttemptRead(c) ==
    /\ pc[c] = "attempting"
    /\ IF Row(c).phase = "approved" /\ ~Row(c).attempt
       THEN /\ Goto(c, "checkingGuard")
            /\ Read(c, "run")
            /\ UNCHANGED <<subject, ticket, outcome, left>>
       ELSE Abandon(c)
    /\ UNCHANGED <<store, lapsed, history, faults>>

TargetFree == ~guard.open

GuardCheck(c) ==
    /\ pc[c] = "checkingGuard"
    /\ IF TargetFree
       THEN /\ Goto(c, "starting")
            /\ Read(c, "guard")
            /\ UNCHANGED <<subject, ticket, outcome, left>>
       ELSE Abandon(c)
    /\ UNCHANGED <<store, lapsed, history, faults>>

RecoverableAtLeaseEnd(remaining) == remaining   \* mutant: the lease, not the request
RecoverableIn(remaining) == remaining + Delay + Margin

\* The attempt carries the lease it was made under, which may be over by now.
AttemptStore(c) ==
    /\ pc[c] = "starting"
    /\ IF "run" \in fresh[c]
       THEN /\ \E remaining \in IF Current(c) THEN {RecoverableIn(lease.left)}
                                              ELSE 0..RecoverableIn(0) :
                  run' = [run EXCEPT ![subject[c]].phase = "verifying",
                                     ![subject[c]].attempt = TRUE,
                                     ![subject[c]].wait = remaining]
            /\ fresh' = AfterRun(c)
            /\ Goto(c, "guarding")
            /\ UNCHANGED <<subject, ticket, outcome, left>>
       ELSE run' = run /\ Abandon(c)
    /\ UNCHANGED <<guard, issued, receipt, lease, lapsed, history, faults>>

GuardStore(c) ==
    /\ pc[c] = "guarding"
    /\ IF "guard" \in fresh[c]
       THEN /\ guard' = [run |-> subject[c], open |-> TRUE]
            /\ fresh' = AfterGuard
            /\ Goto(c, "sending")
            /\ UNCHANGED <<subject, ticket, outcome, left>>
       ELSE guard' = guard /\ Abandon(c)
    /\ UNCHANGED <<run, issued, receipt, lease, lapsed, history, faults>>

\* locks.assertCurrent, and once more by the adapter right before the request;
\* whatever the adapter throws instead of sending it is caught: nobody knows.
LeaseLost(c) ==
    /\ pc[c] = "sending"
    /\ ~Current(c)
    /\ Abandon(c)
    /\ UNCHANGED <<store, lapsed, history, faults>>

Send(c) ==
    /\ pc[c] = "sending"
    /\ Current(c)
    /\ asked' = [asked EXCEPT ![subject[c]] = @ + 1]
    /\ left'  = [left EXCEPT ![c] = CallLimit]
    /\ Goto(c, "inFlight")
    /\ UNCHANGED <<store, subject, fresh, ticket, outcome, lapsed, answered, observed, faults>>

NotSent(c) ==
    /\ pc[c] = "sending"
    /\ Current(c)
    /\ outcome' = [outcome EXCEPT ![c] = "unknown"]
    /\ Goto(c, "recording")
    /\ UNCHANGED <<store, subject, fresh, ticket, left, lapsed, history, faults>>

Answer(c) ==
    /\ pc[c] = "inFlight"
    /\ \E o \in Outcomes :
          /\ outcome'  = [outcome EXCEPT ![c] = o]
          /\ answered' = [answered EXCEPT ![subject[c]] = o]
    /\ left' = [left EXCEPT ![c] = 0]
    /\ Goto(c, "recording")
    /\ UNCHANGED <<store, subject, fresh, ticket, lapsed, asked, observed, faults>>

\* recordReceipt: the first receipt of a plan is its only one.
AnyReceipt(r) == TRUE   \* mutant: a receipt may be replaced
FirstReceipt(r) == receipt[r] = None

RecordReceipt(c) ==
    LET r == subject[c] IN
    /\ pc[c] = "recording"
    /\ IF FirstReceipt(r)
       THEN /\ receipt' = [receipt EXCEPT ![r] = outcome[c]]
            /\ Goto(c, "applying")
       ELSE receipt' = receipt /\ Goto(c, "releasing")
    /\ UNCHANGED <<run, guard, issued, lease, subject, fresh, ticket, outcome, left,
                   lapsed, history, faults>>

\* recordApply, of apply and of a recovery: only the first output is stored.
Reportable(row) ==
    \/ row.phase = "approved"
    \/ row.phase = "verifying" /\ row.attempt /\ row.output = None

PhaseOf(o) ==
    CASE o = "succeeded" -> "applied"
      [] o = "rejected"  -> "attention"
      [] o = "unknown"   -> "verifying"

Reported(row, o, delay) ==
    [row EXCEPT !.phase = PhaseOf(o), !.output = o, !.opens = delay]

ApplyRead(c) ==
    /\ pc[c] = "applying"
    /\ IF Reportable(Row(c))
       THEN /\ Goto(c, "storing")
            /\ Read(c, "run")
            /\ UNCHANGED <<subject, ticket, outcome, left>>
       ELSE Abandon(c)
    /\ UNCHANGED <<store, lapsed, history, faults>>

\* The window is counted from the answer, some time ago.
ApplyStore(c) ==
    /\ pc[c] = "storing"
    /\ IF "run" \in fresh[c]
       THEN /\ \E delay \in 0..Delay :
                  run' = [run EXCEPT ![subject[c]] = Reported(@, outcome[c], delay)]
            /\ fresh' = AfterRun(c)
            /\ Goto(c, "releasing")
            /\ UNCHANGED <<subject, ticket, outcome, left>>
       ELSE run' = run /\ Abandon(c)
    /\ UNCHANGED <<guard, issued, receipt, lease, lapsed, history, faults>>

\* Only the owner clears the lease, over or not; a lost one makes it throw.
Release(c) ==
    /\ pc[c] = "releasing"
    /\ lease' = IF lease.owner = c THEN NoLease ELSE lease
    /\ Done(c, fresh)
    /\ UNCHANGED <<run, guard, issued, receipt, lapsed, history, faults>>

-----------------------------------------------------------------------------
(***************************************************************************)
(* verify, which first recovers an attempt that has no output.             *)
(***************************************************************************)
VerifyOutputOnly(row) ==   \* mutant: an interrupted attempt is not recovered
    IF row.output # None THEN "observing" ELSE "idle"
VerifyFrom(row) ==
    CASE row.output # None                                  -> "observing"
      [] row.attempt /\ row.output = None /\ row.wait = 0   -> "recovering"
      [] OTHER                                              -> "idle"

Verify(c, r) ==
    /\ pc[c] = "idle"
    /\ VerifyFrom(run[r]) # "idle"
    /\ Goto(c, VerifyFrom(run[r]))
    /\ subject' = [subject EXCEPT ![c] = r]
    /\ UNCHANGED <<store, fresh, ticket, outcome, left, lapsed, history, faults>>

RecoverReceipt(c) ==
    LET r == subject[c] IN
    /\ pc[c] = "recovering"
    /\ IF FirstReceipt(r)
       THEN /\ receipt' = [receipt EXCEPT ![r] = "recovery"]
            /\ Goto(c, "recoverRead")
            /\ UNCHANGED <<subject, fresh, ticket, outcome, left>>
       ELSE receipt' = receipt /\ Done(c, fresh)
    /\ UNCHANGED <<run, guard, issued, lease, lapsed, history, faults>>

RecoverRead(c) ==
    /\ pc[c] = "recoverRead"
    /\ IF Reportable(Row(c))
       THEN /\ Goto(c, "recoverStore")
            /\ Read(c, "run")
            /\ UNCHANGED <<subject, ticket, outcome, left>>
       ELSE Done(c, fresh)
    /\ UNCHANGED <<store, lapsed, history, faults>>

InventedSuccess == "succeeded"   \* mutant: an interrupted attempt counts as applied
RecoveredOutput == "unknown"

RecoverStore(c) ==
    /\ pc[c] = "recoverStore"
    /\ IF "run" \in fresh[c]
       THEN /\ run' = [run EXCEPT ![subject[c]] = Reported(@, RecoveredOutput, 0)]
            /\ fresh' = AfterRun(c)
            /\ Goto(c, "observing")
            /\ UNCHANGED <<subject, ticket, outcome, left>>
       ELSE run' = run /\ Done(c, fresh)
    /\ UNCHANGED <<guard, issued, receipt, lease, lapsed, history, faults>>

\* action.verify: before the window nothing is read; a failed read is unknown.
Observe(c, status) ==
    /\ pc[c] = "observing"
    /\ (Row(c).opens > 0) <=> (status = "pending")
    /\ outcome' = [outcome EXCEPT ![c] = status]
    /\ Goto(c, "observedRead")
    /\ UNCHANGED <<store, subject, fresh, ticket, left, lapsed, history, faults>>

VerifiableOnce(row) == row.phase \in {"applied", "verifying"}   \* mutant: no second look
Verifiable(row) ==
    \/ row.phase \in {"applied", "verifying"}
    \/ row.phase = "attention" /\ row.attempt

ObservedRead(c) ==
    /\ pc[c] = "observedRead"
    /\ IF Verifiable(Row(c))
       THEN /\ Goto(c, "observedStore")
            /\ Read(c, "run")
            /\ UNCHANGED <<subject, ticket, outcome, left>>
       ELSE Done(c, fresh)
    /\ UNCHANGED <<store, lapsed, history, faults>>

\* An unknown status is a matter for attention once the window is over.
Concluded(status) ==
    CASE status = "paused"  -> {"verified"}
      [] status = "active"  -> {"attention"}
      [] status = "pending" -> {"verifying"}
      [] status = "unknown" -> {"verifying", "attention"}

ClosesAlways(status) == status # "pending"   \* mutant: unknown frees the target
ClosesGuard(status) == status \in Decisive

ObservedStore(c) ==
    LET r == subject[c]  status == outcome[c] IN
    /\ pc[c] = "observedStore"
    /\ IF "run" \in fresh[c]
       THEN /\ \E phase \in Concluded(status) : run' = [run EXCEPT ![r].phase = phase]
            /\ observed' = IF status \in Decisive THEN observed \cup {r} ELSE observed
            /\ IF ClosesGuard(status)
               THEN /\ Goto(c, "guardRead")
                    /\ fresh' = AfterRun(c)
                    /\ UNCHANGED <<subject, ticket, outcome, left>>
               ELSE Done(c, AfterRun(c))
       ELSE UNCHANGED <<run, observed>> /\ Done(c, fresh)
    /\ UNCHANGED <<guard, issued, receipt, lease, lapsed, asked, answered, faults>>

GuardRead(c) ==
    /\ pc[c] = "guardRead"
    /\ IF guard.run = subject[c]
       THEN /\ Goto(c, "guardClose")
            /\ Read(c, "guard")
            /\ UNCHANGED <<subject, ticket, outcome, left>>
       ELSE Done(c, fresh)
    /\ UNCHANGED <<store, lapsed, history, faults>>

GuardClose(c) ==
    /\ pc[c] = "guardClose"
    /\ IF "guard" \in fresh[c]
       THEN guard' = [guard EXCEPT !.open = FALSE] /\ Done(c, AfterGuard)
       ELSE guard' = guard /\ Done(c, fresh)
    /\ UNCHANGED <<run, issued, receipt, lease, lapsed, history, faults>>

-----------------------------------------------------------------------------
(***************************************************************************)
(* The environment: lapsed, time, failed store calls and dead processes.   *)
(***************************************************************************)
\* Once there is an attempt, no answer depends on the approval any more.
\* Bound: the last of MaxApprovals approvals stays valid.
ExpireApproval(r) ==
    /\ ~run[r].attempt
    /\ issued[r] < MaxApprovals
    /\ \E n \in 1..issued[r] \ lapsed[r] : lapsed' = [lapsed EXCEPT ![r] = @ \cup {n}]
    /\ UNCHANGED <<store, local, history, faults>>

CountDown(t) == IF t = 0 THEN 0 ELSE t - 1

\* A provider request is aborted when its time is up.
Tick ==
    /\ \A c \in Callers : pc[c] = "inFlight" => left[c] > 0
    /\ lease' = [lease EXCEPT !.left = CountDown(@)]
    /\ left' = [c \in Callers |-> CountDown(left[c])]
    /\ run' = [r \in Runs |-> [run[r] EXCEPT !.wait = CountDown(@),
                                             !.opens = CountDown(@)]]
    /\ UNCHANGED <<guard, issued, receipt, pc, subject, fresh, ticket, outcome,
                   lapsed, history, faults>>

Fault == faults < MaxFaults /\ faults' = faults + 1

\* A store call of apply that fails between its lock and its release.
ApplyFails(c) ==
    /\ pc[c] \in ApplySteps \ {"locking", "sending", "inFlight"}
    /\ Fault
    /\ Abandon(c)
    /\ UNCHANGED <<store, lapsed, history>>

\* Any other store call that fails, or a process that dies: its lease runs on,
\* and no later call of it owns that lease.
Crash(c) ==
    /\ pc[c] # "idle"
    /\ Fault
    /\ Done(c, fresh)
    /\ lease' = IF lease.owner = c THEN [lease EXCEPT !.owner = None] ELSE lease
    /\ UNCHANGED <<run, guard, issued, receipt, lapsed, history>>

-----------------------------------------------------------------------------
ApproveStep(c) ==
    PutApproval(c) \/ Refused(c) \/ ApprovalRead(c) \/ ApprovalStore(c)

ApplyStep(c) ==
    \/ AcquireLock(c) \/ Preflight(c)
    \/ AttemptRead(c) \/ GuardCheck(c) \/ AttemptStore(c) \/ GuardStore(c)
    \/ LeaseLost(c) \/ Send(c) \/ NotSent(c) \/ Answer(c)
    \/ RecordReceipt(c) \/ ApplyRead(c) \/ ApplyStore(c) \/ Release(c)

VerifyStep(c) ==
    \/ RecoverReceipt(c) \/ RecoverRead(c) \/ RecoverStore(c)
    \/ \E status \in Statuses : Observe(c, status)
    \/ ObservedRead(c) \/ ObservedStore(c) \/ GuardRead(c) \/ GuardClose(c)

CallerStep(c) == ApproveStep(c) \/ ApplyStep(c) \/ VerifyStep(c)

Begin(c) == \E r \in Runs : Approve(c, r) \/ Apply(c, r) \/ Verify(c, r)

Next ==
    \/ \E r \in Runs : Plan(r) \/ ExpireApproval(r)
    \/ \E c \in Callers : Begin(c) \/ CallerStep(c) \/ ApplyFails(c) \/ Crash(c)
    \/ Tick

Spec == Init /\ [][Next]_vars

(***************************************************************************)
(* Fairness.  A call that began runs on, time passes, and an operator      *)
(* follows the next step that every review of an unresolved run names,     *)
(* "Recover campaign status" and "Check again"; a campaign whose status is *)
(* asked for again and again is in the end readable.                       *)
(***************************************************************************)
Fairness ==
    /\ WF_vars(Tick)
    /\ \A c \in Callers : WF_vars(CallerStep(c))
    /\ \A r \in Runs : SF_vars(\E c \in Callers : Verify(c, r))
    /\ \A c \in Callers, r \in Runs :
          SF_vars(subject[c] = r /\ \E status \in Decisive : Observe(c, status))

FairSpec == Spec /\ Fairness

-----------------------------------------------------------------------------
(***************************************************************************)
(* Properties.                                                             *)
(***************************************************************************)

\* Every variable stays in its domain: the schemas of the run, the receipt and
\* the lease, and what a call keeps while it runs.
TypeOK ==
    /\ run \in [Runs -> RunRow]
    /\ guard \in [run : Runs \cup {None}, open : BOOLEAN]
    /\ issued \in [Runs -> Nat]
    /\ lapsed \in [Runs -> SUBSET Nat]
    /\ receipt \in [Runs -> Receipts]
    /\ lease \in [owner : Callers \cup {None}, left : Nat]
    /\ pc \in [Callers -> Steps]
    /\ subject \in [Callers -> Runs \cup {None}]
    /\ fresh \in [Callers -> SUBSET {"run", "guard"}]
    /\ ticket \in [Callers -> Nat]
    /\ outcome \in [Callers -> Outcomes \cup Statuses \cup {None}]
    /\ left \in [Callers -> Nat]
    /\ asked \in [Runs -> Nat]
    /\ answered \in [Runs -> Outcomes \cup {None}]
    /\ observed \in SUBSET Runs
    /\ faults \in Nat

\* A campaign that was asked to pause stays guarded until its effect has been
\* observed: whatever fails or lapses after the request, no other plan of the
\* target gets as far as an attempt of its own.
GuardCoversRequest ==
    \A r \in Runs : asked[r] > 0 /\ r \notin observed => guard = [run |-> r, open |-> TRUE]

\* Recovery begins only when the request it gives up on can no longer be
\* running: the lease and then 30 s have passed, and a request is sent under
\* the lease and aborted after 30 s.
NoRecoveryInFlight ==
    \A c \in Callers : pc[c] = "inFlight" =>
        /\ receipt[subject[c]] = None
        /\ Row(c).output = None
        /\ subject[c] \notin observed

\* What a run reports is what its only receipt says: a recovery and a late
\* apply cannot leave the output of one beside the receipt of the other.
OutputMatchesReceipt ==
    \A r \in Runs : run[r].output # None =>
        run[r].output = IF receipt[r] = "recovery" THEN "unknown" ELSE receipt[r]

\* The provider is asked at most once for a plan, only by the holder of an
\* unexpired lease, after the attempt and its guard are durable and before
\* any receipt: "a durable attempt ... do not replay this plan".
RequestIsExclusive ==
    [][\A r \in Runs : asked'[r] # asked[r] =>
          /\ asked[r] = 0
          /\ \E c \in Callers : subject[c] = r /\ lease.owner = c /\ lease.left > 0
          /\ run[r].attempt /\ run[r].output = None
          /\ receipt[r] = None
          /\ guard = [run |-> r, open |-> TRUE]]_vars

\* The workflow implements the contract of a controlled mutation.
Contract == INSTANCE MutationContract WITH
    Plans <- Runs, Unknown <- "unknown",
    request <- [r \in Runs |-> IF r \in observed THEN "observed"
                               ELSE IF asked[r] > 0 THEN "sent" ELSE "none"],
    answer  <- answered,
    report  <- [r \in Runs |-> run[r].output]

ImplementsContract == Contract!Spec

\* An attempt gets its result in the end, from apply or from a recovery.
AttemptsResolve ==
    \A r \in Runs : run[r].attempt /\ run[r].output = None ~> run[r].output # None

\* A target that was taken is free again in the end.
TargetReopens == guard.open ~> ~guard.open

\* The review of a verified run says "No action needed": its target is, or
\* will without further action be, free again.
VerifiedFreesTarget ==
    \A r \in Runs : run[r].phase = "verified" ~> guard # [run |-> r, open |-> TRUE]
=============================================================================
