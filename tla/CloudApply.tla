----------------------------- MODULE CloudApply -----------------------------
(***************************************************************************)
(* The apply of a reviewed Cloudflare plan (DNS records, queues, workers,  *)
(* schedules): approval, lease, preflight, one provider request after      *)
(* another, and one receipt at the end, by concurrent calls on one target. *)
(*                                                                         *)
(* An operation that merges a binding into the settings of a worker reads  *)
(* them first; the others only write.  A request may be refused, or be     *)
(* accepted while its answer is lost.  The plan and its confirmations are  *)
(* checked before anything is written and are left out; the expiry of the  *)
(* plan is a preflight that may fail.                                      *)
(***************************************************************************)
EXTENDS LeaseStore, Sequences

CONSTANTS
    Plans,      \* plans of one target
    Changes,    \* for each plan its operations: "put", "merge" or "no-op"
    Late,       \* whether a request may land after the lease it was checked under
    MaxCalls,   \* bound: calls
    MaxDeaths   \* bound: processes that die and calls that throw

ASSUME ChangesAssumption ==
    /\ Changes \in [Plans -> Seq({"put", "merge", "no-op"})]
    /\ Nobody \notin Plans /\ Nobody \notin Seq({"succeeded", "failed", "skipped"})
    /\ Late \in BOOLEAN
    /\ MaxCalls \in Nat /\ MaxDeaths \in Nat

VARIABLES
    approval,   \* the stored approval of each plan: the call that put it
    engineReceipt, \* the one receipt of each plan
    settings,   \* operations whose binding is in the worker's settings
    applied,    \* how often each operation took effect, up to twice
    applyAt,    \* where each call stands
    plan,       \* the plan it applies
    results,    \* what it knows of its operations so far
    seen,       \* settings it read before its update
    lapsed,     \* history: plans a call of which died or lost its lease
    thrown,     \* history: plans a call of which threw after its first operation
    calls, deaths

cloudLocal == <<applyAt, plan, results, seen>>
cloudVars == <<leaseVars, approval, engineReceipt, settings, applied, cloudLocal, lapsed, thrown, calls, deaths>>

PlanSize(p) == Len(Changes[p])
\* The operation a call is at.
Nth(c) == Len(results[c]) + 1
Change(c) == Changes[plan[c]][Nth(c)]
\* An earlier call may have died before its first request: its lease is over.  It is
\* one of the deaths.
CloudInit ==
    /\ \E dead \in Plans \cup {Nobody} :
        /\ LeaseInit(dead # Nobody)
        /\ approval = [p \in Plans |-> IF p = dead THEN Gone ELSE Nobody]
        /\ lapsed = {dead} \ {Nobody}
        /\ deaths = IF dead = Nobody THEN 0 ELSE 1
    /\ engineReceipt = [p \in Plans |-> Nobody]
    /\ settings = {}
    /\ applied = [p \in Plans |-> [i \in 1 .. PlanSize(p) |-> 0]]
    /\ applyAt = [c \in Owners |-> "idle"]
    /\ plan = [c \in Owners |-> Nobody]
    /\ results = [c \in Owners |-> <<>>]
    /\ seen = [c \in Owners |-> {}]
    /\ thrown = {}
    /\ calls = 0

ApplyGoto(c, s) == applyAt' = [applyAt EXCEPT ![c] = s]

\* What a call leaves behind under its own identity.
Retire(c) ==
    /\ approval' = [p \in Plans |-> IF approval[p] = c THEN Gone ELSE approval[p]]
    /\ ApplyGoto(c, "idle")
    /\ plan' = [plan EXCEPT ![c] = Nobody]
    /\ results' = [results EXCEPT ![c] = <<>>]
    /\ seen' = [seen EXCEPT ![c] = {}]

\* mutant: a row is replaced like a file
StartApplyReplacing(c, p) ==
    /\ applyAt[c] = "idle"
    /\ calls < MaxCalls
    /\ calls' = calls + 1
    /\ plan' = [plan EXCEPT ![c] = p]
    /\ approval' = [approval EXCEPT ![p] = c]
    /\ ApplyGoto(c, "acquiring")
    /\ Ask(c)
    /\ UNCHANGED <<backend, leaseRecord, counter, staged, stolen, engineReceipt, settings, applied, results, seen, lapsed, thrown, deaths>>

\* Every call makes an approval of its own, with the identity of the plan, and
\* puts it before it asks for the lease: a file is replaced, a row is not, and
\* a call that finds one ends there.
StartApply(c, p) ==
    /\ applyAt[c] = "idle"
    /\ calls < MaxCalls
    /\ calls' = calls + 1
    /\ backend = "local" \/ approval[p] = Nobody
    /\ plan' = [plan EXCEPT ![c] = p]
    /\ approval' = [approval EXCEPT ![p] = c]
    /\ ApplyGoto(c, "acquiring")
    /\ Ask(c)
    /\ UNCHANGED <<backend, leaseRecord, counter, staged, stolen, engineReceipt, settings, applied, results, seen, lapsed, thrown, deaths>>

AcquireLease(c) ==
    /\ applyAt[c] = "acquiring"
    /\ AcquireStep(c)
    /\ IF at'[c] = "held" THEN ApplyGoto(c, "checkingApproval") ELSE UNCHANGED applyAt
    /\ lapsed' = IF at'[c] = "held" /\ mine'[c].left = 0 THEN lapsed \cup {plan[c]} ELSE lapsed
    /\ UNCHANGED <<approval, engineReceipt, settings, applied, plan, results, seen, thrown, calls, deaths>>

Unavailable(c) ==
    /\ applyAt[c] = "acquiring"
    /\ GiveUp(c)
    /\ Retire(c)
    /\ UNCHANGED <<engineReceipt, settings, applied, lapsed, thrown, calls, deaths>>

\* assertOpsMutationPreflight: the stored approval, the lease, the receipt.
ApplyPreflight(c, step, holds, next) ==
    /\ applyAt[c] = step
    /\ ApplyGoto(c, IF holds THEN next ELSE "releasing")
    /\ UNCHANGED <<leaseVars, approval, engineReceipt, settings, applied, plan, results, seen, lapsed, thrown, calls, deaths>>

NextOperation(p, k) == IF k <= PlanSize(p) THEN "reading" ELSE "recording"

\* mutant: the receipt is not looked up
CheckNoReceipt(c) == ApplyPreflight(c, "checkingReceipt", TRUE, NextOperation(plan[c], 1))

\* The expiry of the plan is checked with it.
CheckApproval(c) ==
    \E expired \in BOOLEAN :
        ApplyPreflight(c, "checkingApproval", approval[plan[c]] = c /\ ~expired, "checkingLease")
\* Against the time the call began at: a lease that ended since passes.
CheckTargetLease(c) == ApplyPreflight(c, "checkingLease", Owns(c), "checkingReceipt")
CheckReceipt(c) ==
    ApplyPreflight(c, "checkingReceipt", engineReceipt[plan[c]] = Nobody, NextOperation(plan[c], 1))

-----------------------------------------------------------------------------
\* One result more; a failed operation does not keep the others from being tried.
Result(c, ok) ==
    /\ results' = [results EXCEPT ![c] = Append(@, ok)]
    /\ seen' = [seen EXCEPT ![c] = {}]
    /\ ApplyGoto(c, NextOperation(plan[c], Nth(c) + 1))

\* A no-op is skipped, and so is an operation whose input or secret is missing; what
\* fails while it is prepared fails alone.  listWorkerSettings, before the lease
\* is asserted.
ReadOperation(c) ==
    /\ applyAt[c] = "reading"
    /\ \/ Result(c, "skipped")
       \/ Change(c) # "no-op" /\ Result(c, "failed")
       \/ /\ Change(c) # "no-op"
          /\ ApplyGoto(c, "checking")
          /\ seen' = [seen EXCEPT ![c] = IF Change(c) = "merge" THEN settings ELSE {}]
          /\ UNCHANGED results
    /\ UNCHANGED <<leaseVars, approval, engineReceipt, settings, applied, plan, lapsed, thrown, calls, deaths>>

\* mutant: the lease is asserted once, before the first operation
BeforeFirstEffect(c) ==
    /\ applyAt[c] = "checking"
    /\ \/ (CurrentLease(c) \/ Nth(c) > 1) /\ ApplyGoto(c, "inFlight") /\ UNCHANGED <<results, seen, lapsed>>
       \/ ~CurrentLease(c) /\ Nth(c) = 1 /\ Result(c, "failed") /\ lapsed' = lapsed \cup {plan[c]}
    /\ UNCHANGED <<leaseVars, approval, engineReceipt, settings, applied, plan, thrown, calls, deaths>>

\* beforeEffect: a lease that is lost fails the operation, not the apply.
BeforeEffect(c) ==
    /\ applyAt[c] = "checking"
    /\ \/ CurrentLease(c) /\ ApplyGoto(c, "inFlight") /\ UNCHANGED <<results, seen, lapsed>>
       \/ ~CurrentLease(c) /\ Result(c, "failed") /\ lapsed' = lapsed \cup {plan[c]}
    /\ UNCHANGED <<leaseVars, approval, engineReceipt, settings, applied, plan, thrown, calls, deaths>>

\* The request takes effect: it replaces the settings by those it read and its own.
TakeEffect(c) ==
    /\ applied' = [applied EXCEPT ![plan[c]][Nth(c)] = IF @ = 2 THEN 2 ELSE @ + 1]
    /\ settings' = IF Change(c) = "merge" THEN seen[c] \cup {<<plan[c], Nth(c)>>} ELSE settings

\* The answer of an accepted request may be lost.
Accept(c) ==
    /\ applyAt[c] = "inFlight"
    /\ TakeEffect(c)
    /\ \E ok \in {"succeeded", "failed"} : Result(c, ok)
    /\ UNCHANGED <<leaseVars, approval, engineReceipt, plan, lapsed, thrown, calls, deaths>>

Refuse(c) ==
    /\ applyAt[c] = "inFlight"
    /\ Result(c, "failed")
    /\ UNCHANGED <<leaseVars, approval, engineReceipt, settings, applied, plan, lapsed, thrown, calls, deaths>>

\* recordReceipt, whoever holds the lease; the report that follows it changes
\* no shared state.
RecordResults(c) ==
    /\ applyAt[c] = "recording"
    /\ engineReceipt' = IF engineReceipt[plan[c]] = Nobody
                        THEN [engineReceipt EXCEPT ![plan[c]] = results[c]]
                        ELSE engineReceipt
    /\ ApplyGoto(c, "releasing")
    /\ UNCHANGED <<leaseVars, approval, settings, applied, plan, results, seen, lapsed, thrown, calls, deaths>>

ReleaseLease(c) ==
    /\ applyAt[c] = "releasing"
    /\ ReleaseStep(c)
    /\ IF at'[c] = "out" THEN Retire(c) ELSE UNCHANGED <<approval, cloudLocal>>
    /\ UNCHANGED <<engineReceipt, settings, applied, lapsed, thrown, calls, deaths>>

-----------------------------------------------------------------------------
\* A call throws: a read of the stored state, a secret that cannot be resolved, a
\* schedule without its set, or the receipt that cannot be stored.  Its finally
\* releases the lease, live or not, and what it did has no receipt.
Throw(c) ==
    /\ applyAt[c] \in {"checkingApproval", "checkingLease", "checkingReceipt", "reading", "recording"}
    /\ deaths < MaxDeaths
    /\ deaths' = deaths + 1
    /\ ApplyGoto(c, "releasing")
    /\ thrown' = IF results[c] = <<>> THEN thrown ELSE thrown \cup {plan[c]}
    /\ UNCHANGED <<leaseVars, approval, engineReceipt, settings, applied, plan, results, seen, lapsed, calls>>

\* A process dies; a request it has sent may still be accepted.
Die(c) ==
    /\ applyAt[c] # "idle"
    /\ deaths < MaxDeaths
    /\ deaths' = deaths + 1
    /\ Forget(c)
    /\ Retire(c)
    /\ lapsed' = lapsed \cup {plan[c]}
    /\ UNCHANGED <<engineReceipt, thrown, calls>>
    /\ \/ UNCHANGED <<applied, settings>>
       \/ applyAt[c] = "inFlight" /\ TakeEffect(c)

\* Time passes.  Unless Late, a request lands while its lease lasts.
Elapse ==
    /\ \E c \in Owners : applyAt[c] # "idle" \/ leaseRecord.owner # Nobody
    /\ Late \/ \A c \in Owners : applyAt[c] = "inFlight" => mine[c].left > 1
    /\ leaseRecord.left > 0 \/ \E c \in Owners : mine[c].left > 0
    /\ PassTime
    /\ lapsed' = IF leaseRecord.left = 1 /\ leaseRecord.owner \in Owners
                 THEN lapsed \cup {plan[leaseRecord.owner]} ELSE lapsed
    /\ UNCHANGED <<approval, engineReceipt, settings, applied, cloudLocal, thrown, calls, deaths>>

CallStep(c) ==
    \/ AcquireLease(c) \/ Unavailable(c)
    \/ CheckApproval(c) \/ CheckTargetLease(c) \/ CheckReceipt(c)
    \/ ReadOperation(c) \/ BeforeEffect(c) \/ Accept(c) \/ Refuse(c)
    \/ RecordResults(c) \/ ReleaseLease(c)

CloudNext ==
    \/ \E c \in Owners : CallStep(c) \/ Throw(c) \/ Die(c)
    \/ \E c \in Owners, p \in Plans : StartApply(c, p)
    \/ Elapse

CloudSpec == CloudInit /\ [][CloudNext]_cloudVars

-----------------------------------------------------------------------------
(***************************************************************************)
(* Properties.                                                             *)
(***************************************************************************)
\* A live lease is removed by nobody but its owner: always in the SQLite
\* store, and in the file store until some lease has ended under its call, for
\* only a takeover or a late release can unlink the file of another.
LeaseKept == stolen => backend = "local" /\ lapsed # {}

\* An operation takes effect once, although a plan may be applied again.  The
\* file store lets a plan be repeated whose call died, outlived its lease, or
\* threw under it after an operation.
EffectOnce ==
    \A p \in Plans : \A i \in 1 .. PlanSize(p) :
        applied[p][i] > 1 => backend = "local" /\ (p \in lapsed \cup thrown \/ stolen)

\* A plan with a receipt does nothing more, whatever was thrown before: in the SQLite
\* store always, in the file store until a call of it dies or outlives its lease.
ReceiptFinal ==
    [][\A p \in Plans : engineReceipt[p] # Nobody /\ applied'[p] # applied[p]
            => backend = "local" /\ (p \in lapsed \/ stolen)]_cloudVars

\* No binding is lost between the read of the settings and their update, though
\* the read comes before the assertion of the lease.
BindingsKept == [][settings \subseteq settings' \/ stolen]_cloudVars

\* A SQLite receipt names the approval that is stored: the approval is put before
\* the lease is taken, and a row is not overwritten by the calls that lose it.
ReceiptApproved ==
    [][\A c \in Owners : \A p \in Plans :
        applyAt[c] = "recording" /\ plan[c] = p /\ engineReceipt'[p] # engineReceipt[p]
            => approval[p] = c \/ backend = "local"]_cloudVars
=============================================================================
