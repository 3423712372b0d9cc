---------------------------- MODULE GtmContainer ----------------------------
(***************************************************************************)
(* The tag manager mutations of one container: release plans (create or    *)
(* publish a version) and workspace plans (a list of resource writes),     *)
(* applied and recovered by concurrent calls of the host, each a caller of *)
(* its own.  Both kinds take the same lease and keep the same pointer to   *)
(* the last attempt on the container; each kind also keeps one of its own. *)
(*                                                                         *)
(* Unlike the campaign guard, a pointer is put without a compare-and-set:  *)
(* only the lease keeps two calls from finding the container reconciled at *)
(* the same time.  A recovery records no receipt, so that neither a dead   *)
(* apply nor a dead recovery stands in the way of the next recovery.       *)
(*                                                                         *)
(* Evidence read from the provider is free: it may have drifted, and a     *)
(* recovery may find any status.  Deadlines are kept as the time left.     *)
(* Records that are stored once, plans and approvals, are left out.        *)
(***************************************************************************)
EXTENDS Naturals, FiniteSets

CONSTANTS
    Callers,    \* concurrent calls of executeGtmWorkspaceOperation
    Runs,       \* the plans, each with the run its apply creates
    Kind,       \* "release" or "workspace", for each plan
    Size,       \* provider writes in each plan
    None,
    LockTtl,    \* ttlMs of the container lease
    Margin,     \* the 30 s that recovery waits beyond the lease
    CallLimit,  \* the 30 s after which a provider request is aborted
    Prompt,     \* whether apply is past its checks before its lease ends
    MaxFaults   \* bound: crashes and failed store calls

Kinds  == {"release", "workspace"}
Places == Kinds \cup {"container"}

ASSUME PlanAssumption ==
    /\ Kind \in [Runs -> Kinds]
    /\ Size \in [Runs -> Nat \ {0}]
    /\ None \notin Runs \cup Callers \cup {"succeeded", "partial", "judged", "unavailable"}

ASSUME TimeAssumption ==
    /\ LockTtl \in Nat \ {0}
    /\ Margin \in Nat /\ CallLimit \in Nat
    /\ CallLimit <= Margin
    /\ Prompt \in BOOLEAN
    /\ MaxFaults \in Nat

VARIABLES
    run,        \* the mutation run of each plan
    pointer,    \* the last attempt on the container, per kind and of both
    receipt,    \* the immutable receipt of each plan
    lease,      \* the lease of the container
    pc,         \* where each caller stands
    subject,    \* the run it works on
    prior,      \* the attempt it was pointed to
    latest,     \* callers that have read the latest revision of their run
    outcome,    \* what the provider told it
    left,       \* time left to its turn, or to its request
    writes,     \* history: requests sent for a plan
    granted,    \* history: requests the provider acknowledged
    observed,   \* history: runs whose effect has been inspected
    faults      \* faults so far

store   == <<run, pointer, receipt, lease>>
local   == <<pc, subject, prior, latest, outcome, left>>
history == <<writes, granted, observed>>
vars    == <<run, pointer, receipt, lease, pc, subject, prior, latest,
             outcome, left, writes, granted, observed, faults>>

-----------------------------------------------------------------------------
\* Whether a recovery verified the effect or found that it does not match, the
\* attempt is judged.
Statuses == {"judged", "unavailable"}

RunRow ==
    [exists : BOOLEAN,
     wait   : Nat,                          \* until notBefore
     check  : Statuses \cup {None}]         \* verification.status

NoRun   == [exists |-> FALSE, wait |-> 0, check |-> None]
NoLease == [owner |-> None, left |-> 0]

\* From the lease to the pointers.
Preparing ==
    {"preflight", "ownPointer", "ownRun", "sharedPointer", "sharedRun",
     "attempting", "pointing", "guarding"}
Executing == {"writing", "pacing", "inFlight", "recording", "storing"}
Steps == {"idle", "releasing", "observing", "settling"} \cup Preparing \cup Executing

Goto(c, step) == pc' = [pc EXCEPT ![c] = step]

\* The call returns or throws.
Done(c, readers) ==
    /\ Goto(c, "idle")
    /\ subject' = [subject EXCEPT ![c] = None]
    /\ prior'   = [prior EXCEPT ![c] = None]
    /\ latest'  = readers \ {c}
    /\ outcome' = [outcome EXCEPT ![c] = None]
    /\ left'    = [left EXCEPT ![c] = 0]

\* A throw under the lease still runs the finally that releases it.
Abandon(c) == Goto(c, "releasing") /\ UNCHANGED <<subject, prior, latest, outcome, left>>

\* Storing a run makes every read of it stale, the writer's own included.
AfterStore(c) == {d \in latest : subject[d] # subject[c]}

\* assertCurrent: the lease is still this caller's, and not over.
Current(c) == lease.owner = c /\ lease.left > 0

Init ==
    /\ run      = [r \in Runs |-> NoRun]
    /\ pointer  = [p \in Places |-> None]
    /\ receipt  = [r \in Runs |-> None]
    /\ lease    = NoLease
    /\ pc       = [c \in Callers |-> "idle"]
    /\ subject  = [c \in Callers |-> None]
    /\ prior    = [c \in Callers |-> None]
    /\ latest   = {}
    /\ outcome  = [c \in Callers |-> None]
    /\ left     = [c \in Callers |-> 0]
    /\ writes   = [r \in Runs |-> 0]
    /\ granted  = [r \in Runs |-> 0]
    /\ observed = {}
    /\ faults   = 0

-----------------------------------------------------------------------------
(***************************************************************************)
(* apply, up to the first write.                                           *)
(***************************************************************************)
\* Plan and approval are read, which never change once stored; then the lease
\* is acquired, or the call refused.  Bound: a plan whose attempt is on record is
\* not applied again, as Preflight would refuse it.
Apply(c, r) ==
    /\ pc[c] = "idle"
    /\ ~run[r].exists
    /\ lease.left = 0
    /\ lease' = [owner |-> c, left |-> LockTtl]
    /\ Goto(c, "preflight")
    /\ subject' = [subject EXCEPT ![c] = r]
    /\ UNCHANGED <<run, pointer, receipt, prior, latest, outcome, left, history, faults>>

\* assertOpsMutationPreflight, which also fails when plan or approval expired,
\* and the look for an earlier attempt: neither receipt nor run ever goes away.
Preflight(c) ==
    LET r == subject[c] IN
    /\ pc[c] = "preflight"
    /\ \/ Current(c) /\ receipt[r] = None /\ ~run[r].exists /\ Goto(c, "ownPointer")
       \/ Goto(c, "releasing")
    /\ UNCHANGED <<store, subject, prior, latest, outcome, left, history, faults>>

\* First the pointer of the kind, then that of the container; each names a run
\* that is then read.
ReadPointer(c, from, place, to, otherwise) ==
    /\ pc[c] = from
    /\ prior' = [prior EXCEPT ![c] = pointer[place]]
    /\ Goto(c, IF pointer[place] = None THEN otherwise ELSE to)
    /\ UNCHANGED <<store, subject, latest, outcome, left, history, faults>>

Reconciled(r) == run[r].exists /\ run[r].check = "judged"

ReadRun(c, from, to) ==
    /\ pc[c] = from
    /\ Goto(c, IF Reconciled(prior[c]) THEN to ELSE "releasing")
    /\ prior' = [prior EXCEPT ![c] = None]
    /\ UNCHANGED <<store, subject, latest, outcome, left, history, faults>>

OwnPointer(c)    == ReadPointer(c, "ownPointer", Kind[subject[c]], "ownRun", "sharedPointer")
OwnRun(c)        == ReadRun(c, "ownRun", "sharedPointer")
SharedPointer(c) == ReadPointer(c, "sharedPointer", "container", "sharedRun", "attempting")
SharedRun(c)     == ReadRun(c, "sharedRun", "attempting")

RecoverableAtLeaseEnd(remaining) == remaining   \* mutant: no margin
RecoverableIn(remaining) == remaining + Margin

\* The provider is read, which takes time and may find drift; then
\* compareAndSet(run, null), under a lease that may be over by now.
RecordAttempt(c) ==
    LET r == subject[c] IN
    /\ pc[c] = "attempting"
    /\ \/ run' = run /\ Abandon(c)
       \/ /\ ~run[r].exists
          /\ \E w \in IF Current(c) THEN {RecoverableIn(lease.left)} ELSE 0..RecoverableIn(0) :
                run' = [run EXCEPT ![r] = [exists |-> TRUE, wait |-> w, check |-> None]]
          /\ latest' = latest \cup {c}
          /\ Goto(c, "pointing")
          /\ UNCHANGED <<subject, prior, outcome, left>>
    /\ UNCHANGED <<pointer, receipt, lease, history, faults>>

PutPointer(c, from, place, to) ==
    /\ pc[c] = from
    /\ pointer' = [pointer EXCEPT ![place] = subject[c]]
    /\ Goto(c, to)
    /\ UNCHANGED <<run, receipt, lease, subject, prior, latest, outcome, left,
                   history, faults>>

PutOwnPointer(c) == PutPointer(c, "pointing", Kind[subject[c]], "guarding")

PutKindAgain(c) == PutPointer(c, "guarding", Kind[subject[c]], "writing")   \* mutant
PutSharedPointer(c) == PutPointer(c, "guarding", "container", "writing")

-----------------------------------------------------------------------------
(***************************************************************************)
(* apply, from the first write on.                                         *)
(***************************************************************************)
\* beforeWrite: assertCurrent, then the request waits for the rate limit and
\* an access token, which may take any time: the token has no deadline.  How long
\* it has waited is counted up to the margin.
CheckLease(c) ==
    /\ pc[c] = "writing"
    /\ Current(c)
    /\ left' = [left EXCEPT ![c] = Margin + 1]
    /\ Goto(c, "pacing")
    /\ UNCHANGED <<store, subject, prior, latest, outcome, history, faults>>

\* The request has waited longer than the margin.
Overdue(c) == pc[c] = "pacing" /\ left[c] = 0

Send(c) ==
    /\ pc[c] = "pacing"
    /\ writes' = [writes EXCEPT ![subject[c]] = @ + 1]
    /\ left'   = [left EXCEPT ![c] = CallLimit]
    /\ Goto(c, "inFlight")
    /\ UNCHANGED <<store, subject, prior, latest, outcome, granted, observed, faults>>

\* Whatever is thrown around a write, a lost lease included, leaves the outcome
\* unknown and the receipt partial.
Fails(c) ==
    /\ pc[c] \in {"writing", "pacing", "inFlight"}
    /\ outcome' = [outcome EXCEPT ![c] = "partial"]
    /\ left'    = [left EXCEPT ![c] = 0]
    /\ Goto(c, "recording")
    /\ UNCHANGED <<store, subject, prior, latest, history, faults>>

AfterFirst(r, n) == "succeeded"   \* mutant: the first write decides
AfterWrite(r, n) == IF n = Size[r] THEN "succeeded" ELSE None

Acknowledged(c) ==
    LET r == subject[c]  n == granted[r] + 1 IN
    /\ pc[c] = "inFlight"
    /\ granted' = [granted EXCEPT ![r] = n]
    /\ outcome' = [outcome EXCEPT ![c] = AfterWrite(r, n)]
    /\ left'    = [left EXCEPT ![c] = 0]
    /\ Goto(c, IF AfterWrite(r, n) = None THEN "writing" ELSE "recording")
    /\ UNCHANGED <<store, subject, prior, latest, writes, observed, faults>>

RecordReceipt(c) ==
    LET r == subject[c] IN
    /\ pc[c] = "recording"
    /\ IF receipt[r] = None
       THEN receipt' = [receipt EXCEPT ![r] = outcome[c]] /\ Goto(c, "storing")
       ELSE receipt' = receipt /\ Goto(c, "releasing")
    /\ UNCHANGED <<run, pointer, lease, subject, prior, latest, outcome, left,
                   history, faults>>

StoreOver(c) == TRUE   \* mutant: the revision is not compared
StoreLatest(c) == c \in latest

\* compareAndSet(revision 2, 1): refused once a recovery has stored the run.
StoreOutcome(c) ==
    LET r == subject[c] IN
    /\ pc[c] = "storing"
    /\ IF StoreLatest(c)
       THEN /\ run' = IF outcome[c] = "succeeded"
                      THEN [run EXCEPT ![r].check = None, ![r].wait = Margin]
                      ELSE [run EXCEPT ![r].check = None]
            /\ latest' = AfterStore(c)
            /\ Goto(c, "releasing")
            /\ UNCHANGED <<subject, prior, outcome, left>>
       ELSE run' = run /\ Abandon(c)
    /\ UNCHANGED <<pointer, receipt, lease, history, faults>>

\* Only the owner clears the lease, over or not; a lost one makes it throw.
Release(c) ==
    /\ pc[c] = "releasing"
    /\ lease' = IF lease.owner = c THEN NoLease ELSE lease
    /\ Done(c, latest)
    /\ UNCHANGED <<run, pointer, receipt, history, faults>>

-----------------------------------------------------------------------------
(***************************************************************************)
(* recover.                                                                *)
(***************************************************************************)
Recover(c, r) ==
    /\ pc[c] = "idle"
    /\ run[r].exists
    /\ Goto(c, "observing")
    /\ subject' = [subject EXCEPT ![c] = r]
    /\ latest'  = latest \cup {c}
    /\ UNCHANGED <<store, prior, outcome, left, history, faults>>

\* Nothing is read before the deadline of the attempt.
Readable(c) == run[subject[c]].wait = 0

Observe(c, status) ==
    /\ pc[c] = "observing"
    /\ status = "judged" => Readable(c)
    /\ outcome' = [outcome EXCEPT ![c] = status]
    /\ Goto(c, "settling")
    /\ UNCHANGED <<store, subject, prior, latest, left, history, faults>>

Settle(c) ==
    LET r == subject[c] IN
    /\ pc[c] = "settling"
    /\ IF StoreLatest(c)
       THEN /\ run' = [run EXCEPT ![r].check = outcome[c]]
            /\ observed' = IF outcome[c] = "judged" THEN observed \cup {r} ELSE observed
            /\ Done(c, AfterStore(c))
       ELSE UNCHANGED <<run, observed>> /\ Done(c, latest)
    /\ UNCHANGED <<pointer, receipt, lease, writes, granted, faults>>

-----------------------------------------------------------------------------
(***************************************************************************)
(* The environment: time, failed store calls and dead processes.           *)
(***************************************************************************)
CountDown(t) == IF t = 0 THEN 0 ELSE t - 1

Fault == faults < MaxFaults /\ faults' = faults + 1

\* A request that was sent is aborted when its time is up.
\* Assumption, if Prompt: the reads of apply take less than its lease.
Tick ==
    /\ \A c \in Callers : pc[c] = "inFlight" => left[c] > 0
    /\ Prompt => ~ \E c \in Callers : pc[c] \in Preparing /\ lease.owner = c /\ lease.left = 1
    /\ lease' = [lease EXCEPT !.left = CountDown(@)]
    /\ left'  = [c \in Callers |-> CountDown(left[c])]
    /\ run'   = [r \in Runs |-> [run[r] EXCEPT !.wait = CountDown(@)]]
    /\ UNCHANGED <<pointer, receipt, pc, subject, prior, latest, outcome,
                   history, faults>>

\* A store call of apply that fails between its lock and its release, other
\* than those that Fails turns into a partial receipt.
StoreFails(c) ==
    /\ pc[c] \in Preparing \cup {"recording", "storing"}
    /\ Fault
    /\ Abandon(c)
    /\ UNCHANGED <<store, history>>

\* Any other store call that fails, or a process that dies: its lease runs on,
\* and no later call owns that lease.
Crash(c) ==
    /\ pc[c] # "idle"
    /\ Fault
    /\ Done(c, latest)
    /\ lease' = IF lease.owner = c THEN [lease EXCEPT !.owner = None] ELSE lease
    /\ UNCHANGED <<run, pointer, receipt, history>>

-----------------------------------------------------------------------------
PrepareStep(c) ==
    \/ Preflight(c)
    \/ OwnPointer(c) \/ OwnRun(c) \/ SharedPointer(c) \/ SharedRun(c)
    \/ RecordAttempt(c) \/ PutOwnPointer(c) \/ PutSharedPointer(c)

ExecuteStep(c) ==
    \/ CheckLease(c) \/ Send(c) \/ Fails(c) \/ Acknowledged(c)
    \/ RecordReceipt(c) \/ StoreOutcome(c) \/ Release(c)

RecoverStep(c) == (\E status \in Statuses : Observe(c, status)) \/ Settle(c)

CallerStep(c) == PrepareStep(c) \/ ExecuteStep(c) \/ RecoverStep(c)

Next ==
    \/ \E c \in Callers :
          \/ \E r \in Runs : Apply(c, r) \/ Recover(c, r)
          \/ CallerStep(c)
          \/ StoreFails(c)
          \/ Crash(c)
    \/ Tick

Spec == Init /\ [][Next]_vars

-----------------------------------------------------------------------------
(***************************************************************************)
(* Properties.                                                             *)
(***************************************************************************)

\* Every variable stays in its domain: the stored run, pointers, receipt and
\* lease, and what a call keeps while it runs.
TypeOK ==
    /\ run \in [Runs -> RunRow]
    /\ pointer \in [Places -> Runs \cup {None}]
    /\ receipt \in [Runs -> {None, "succeeded", "partial"}]
    /\ lease \in [owner : Callers \cup {None}, left : Nat]
    /\ pc \in [Callers -> Steps]
    /\ subject \in [Callers -> Runs \cup {None}]
    /\ prior \in [Callers -> Runs \cup {None}]
    /\ latest \in SUBSET Callers
    /\ outcome \in [Callers -> {None, "succeeded", "partial"} \cup Statuses]
    /\ left \in [Callers -> Nat]
    /\ writes \in [Runs -> Nat]
    /\ granted \in [Runs -> Nat]
    /\ observed \in SUBSET Runs
    /\ faults \in Nat

Checks(c) == pc[c] = "writing" /\ pc'[c] = "pacing"
Sends(c)  == pc[c] = "pacing" /\ pc'[c] = "inFlight"

\* No request of a plan leaves before the effect of every other plan that
\* wrote to the container, of either kind, has been inspected: "Recover the
\* previous container operation before any workspace or release write."  The
\* one exception is a request so late that its own attempt was judged before it
\* left.
WritesAwaitRecovery ==
    [][\A c \in Callers, q \in Runs :
          Sends(c) /\ q # subject[c] /\ writes[q] > 0 =>
              q \in observed \/ (Overdue(c) /\ subject[c] \in observed)]_vars

\* Once a recovery has judged an attempt, no request of it passes the lease
\* check any more, and one that had passed it before leaves only if it has
\* waited longer than the margin: what was judged is overtaken by at most one
\* write, of a caller that waited that long for its token.
NoWriteAfterRecovery ==
    [][\A c \in Callers : subject[c] \in observed =>
          ~Checks(c) /\ (Sends(c) => Overdue(c))]_vars

\* A receipt that says succeeded stands for a request sent and accepted for
\* every operation of the plan; a call that lost its lease half way, or that a
\* recovery overtook, never writes one.
ReceiptIsComplete ==
    \A r \in Runs : receipt[r] = "succeeded" => granted[r] = Size[r] /\ writes[r] = Size[r]

\* What a recovery stored, the outcome of a slower apply does not erase: the
\* container would be closed again although its attempt was judged.
RecoveryNotErased == [][\A r \in Runs : run[r].check # None => run'[r].check # None]_vars
=============================================================================
