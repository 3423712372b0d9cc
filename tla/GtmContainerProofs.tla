------------------------- MODULE GtmContainerProofs -------------------------
(***************************************************************************)
(* The safety of GtmContainer for any callers, plans, sizes and deadlines. *)
(* An attempt has one caller, since its run is created once (Exclusive);   *)
(* what that caller has counted, and whether its read of the run is still  *)
(* the latest, is AttemptInv; the time a recovery must wait exceeds the    *)
(* lease of the attempt by the margin (LeaseInv), so that a request which  *)
(* waits no longer than that is sent before (PaceInv); one that waits      *)
(* longer may come after, and the theorems say so.  While a call prepares, it *)
(* holds the lease (PrepareInv), so that nobody else moves the pointer     *)
(* whose run it found judged (PointerInv).                                 *)
(***************************************************************************)
EXTENDS GtmContainer, TLAPS

AttemptSteps == {"pointing", "guarding"} \cup Executing
Unreceipted  == AttemptSteps \ {"storing"}

\* A run that does not exist has left no trace; one that was judged may be
\* recovered again at once.
RunInv(r) ==
    /\ ~run[r].exists =>
          /\ run[r].check = None /\ receipt[r] = None
          /\ writes[r] = 0 /\ granted[r] = 0
    /\ run[r].check = "judged" => r \in observed
    /\ r \in observed => run[r].exists /\ run[r].check # None /\ run[r].wait = 0

AttemptInv(c) ==
    /\ pc[c] \in AttemptSteps => run[subject[c]].exists
    /\ pc[c] \in AttemptSteps /\ c \in latest => run[subject[c]].check = None
    /\ pc[c] \in Unreceipted => receipt[subject[c]] = None
    /\ pc[c] \in {"pointing", "guarding", "writing", "pacing"} =>
          writes[subject[c]] = granted[subject[c]]
    /\ pc[c] = "inFlight" => writes[subject[c]] = granted[subject[c]] + 1
    /\ pc[c] \in {"recording", "storing"} =>
          /\ outcome[c] \in {"succeeded", "partial"}
          /\ outcome[c] = "succeeded" =>
                /\ granted[subject[c]] = Size[subject[c]]
                /\ writes[subject[c]] = Size[subject[c]]

SubjectsInv ==
    \A c \in Callers : (pc[c] # "idle" => subject[c] \in Runs) /\ AttemptInv(c)

PriorsInv == \A c \in Callers : pc[c] \in {"ownRun", "sharedRun"} => prior[c] \in Runs

RecoverInv(c) ==
    /\ pc[c] \in {"observing", "settling"} => run[subject[c]].exists
    /\ pc[c] = "settling" => outcome[c] \in Statuses
    /\ pc[c] = "settling" /\ outcome[c] = "judged" /\ c \in latest => run[subject[c]].wait = 0

LeaseInv(c) ==
    pc[c] \in AttemptSteps \ {"recording", "storing"} /\ Current(c) =>
        run[subject[c]].wait >= lease.left + Margin

CallerInv(c) ==
    /\ pc[c] # "idle" => subject[c] \in Runs
    /\ pc[c] \in {"ownRun", "sharedRun"} => prior[c] \in Runs
    /\ AttemptInv(c)
    /\ RecoverInv(c)
    /\ LeaseInv(c)

Exclusive ==
    \A c, d \in Callers :
        c # d /\ pc[c] \in AttemptSteps /\ pc[d] \in AttemptSteps => subject[c] # subject[d]

IInv ==
    /\ TypeOK
    /\ \A r \in Runs : RunInv(r)
    /\ \A c \in Callers : CallerInv(c)
    /\ Exclusive
    /\ ReceiptIsComplete

\* A recovery may judge a request that waits for its turn only when it is overdue.
PaceInv == \A c \in Callers : pc[c] = "pacing" /\ left[c] > 0 => run[subject[c]].wait >= left[c]

\* A call holds the lease until its pointers are put.
PrepareInv == \A c \in Callers : pc[c] \in Preparing => Current(c)

Executed(r) ==
    \/ writes[r] > 0
    \/ \E c \in Callers : subject[c] = r /\ pc[c] \in {"writing", "pacing", "inFlight"}

PointerInv ==
    /\ \A r \in Runs : Executed(r) => r \in observed \/ pointer["container"] = r
    /\ \A c \in Callers :
          /\ pc[c] = "sharedRun" => prior[c] = pointer["container"]
          /\ pc[c] \in {"attempting", "pointing", "guarding"} =>
                \A r \in Runs : Executed(r) => r \in observed

-----------------------------------------------------------------------------
\* Types

LEMMA InitType == Init => TypeOK
  BY PlanAssumption, TimeAssumption
  DEF Init, TypeOK, RunRow, NoRun, NoLease, Steps, Statuses

\* What the provider was read for: the attempt is recorded, or the call throws.
Recorded(c) ==
    /\ pc[c] = "attempting"
    /\ \/ UNCHANGED <<run, latest>> /\ pc' = [pc EXCEPT ![c] = "releasing"]
       \/ \E w \in Nat :
            /\ ~run[subject[c]].exists
            /\ Current(c) => w = lease.left + Margin
            /\ run' = [run EXCEPT ![subject[c]] = [exists |-> TRUE, wait |-> w, check |-> None]]
            /\ latest' = latest \cup {c} /\ pc' = [pc EXCEPT ![c] = "pointing"]
    /\ UNCHANGED <<pointer, receipt, lease, subject, prior, outcome, left,
                   writes, granted, observed>>

\* The deadline of a new attempt exceeds the lease it was made under.
LEMMA WaitIsNat ==
  ASSUME TypeOK, NEW c \in Callers,
         NEW w \in IF Current(c) THEN {RecoverableIn(lease.left)} ELSE 0..RecoverableIn(0)
  PROVE  w \in Nat /\ (Current(c) => w = lease.left + Margin)
<1>1. lease.left \in Nat /\ Margin \in Nat
  BY TimeAssumption DEF TypeOK
<1>2. CASE Current(c)
  BY <1>1, <1>2 DEF RecoverableIn
<1>3. CASE ~Current(c)
  BY <1>1, <1>3 DEF RecoverableIn
<1> QED
  BY <1>2, <1>3

\* RecordAttempt does what Recorded says.
LEMMA RecordedRun ==
  ASSUME TypeOK, NEW c \in Callers, RecordAttempt(c)
  PROVE  Recorded(c)
<1> USE DEF RecordAttempt, Recorded, Goto, history
<1>1. CASE run' = run /\ Abandon(c)
  BY <1>1 DEF Abandon
<1>2. CASE ~(run' = run /\ Abandon(c))
  <2>1. PICK w \in IF Current(c) THEN {RecoverableIn(lease.left)} ELSE 0..RecoverableIn(0) :
          run' = [run EXCEPT ![subject[c]] = [exists |-> TRUE, wait |-> w, check |-> None]]
    BY <1>2
  <2>2. w \in Nat /\ (Current(c) => w = lease.left + Margin)
    BY <2>1, WaitIsNat
  <2> QED
    BY <1>2, <2>1, <2>2
<1> QED
  BY <1>1, <1>2

\* What a recovery changes: the check of its run, of which its read was the latest.
LEMMA SettledRun ==
  ASSUME TypeOK, NEW c \in Callers, Settle(c), NEW x \in Runs
  PROVE  /\ run'[x].exists = run[x].exists /\ run'[x].wait = run[x].wait
         /\ \/ run'[x].check = run[x].check
            \/ x = subject[c] /\ \A d \in latest' : subject[d] # x
<1>1. CASE StoreLatest(c)
  <2>1. run' = [run EXCEPT ![subject[c]].check = outcome[c]]
    BY <1>1 DEF Settle
  <2>2. \A d \in latest' : subject[d] # subject[c]
    BY <1>1 DEF Settle, Done, AfterStore
  <2>3. run[x] \in RunRow
    BY DEF TypeOK
  <2> QED
    BY <2>1, <2>2, <2>3 DEF TypeOK, RunRow
<1>2. CASE ~StoreLatest(c)
  BY <1>2 DEF Settle
<1> QED
  BY <1>1, <1>2

\* What an apply changes that stores its outcome: the deadline of its run.  It has
\* read the latest revision, hence no check is erased.
LEMMA StoredRun ==
  ASSUME IInv, NEW c \in Callers, StoreOutcome(c), NEW x \in Runs
  PROVE  /\ run'[x].exists = run[x].exists /\ run'[x].check = run[x].check
         /\ run'[x].wait = run[x].wait \/ (x = subject[c] /\ x \notin observed)
<1>1. pc[c] = "storing" /\ subject[c] \in Runs /\ run[x] \in RunRow
  BY DEF StoreOutcome, IInv, CallerInv, TypeOK
<1>2. CASE StoreLatest(c)
  <2>1. run' = IF outcome[c] = "succeeded"
               THEN [run EXCEPT ![subject[c]].check = None, ![subject[c]].wait = Margin]
               ELSE [run EXCEPT ![subject[c]].check = None]
    BY <1>2 DEF StoreOutcome
  <2>2. run[subject[c]].check = None
    BY <1>1, <1>2 DEF StoreLatest, IInv, CallerInv, AttemptInv, AttemptSteps, Executing
  <2>3. subject[c] \notin observed
    BY <1>1, <2>2 DEF IInv, RunInv
  <2>4. run \in [Runs -> RunRow]
    BY DEF IInv, TypeOK
  <2> QED
    BY <1>1, <2>1, <2>2, <2>3, <2>4 DEF RunRow
<1>3. CASE ~StoreLatest(c)
  BY <1>3 DEF StoreOutcome
<1> QED
  BY <1>2, <1>3

\* What a recovery stores is the status it read, after the deadline if it judges.
LEMMA JudgedRun ==
  ASSUME IInv, NEW c \in Callers, Settle(c), NEW x \in Runs
  PROVE  \/ run'[x].check = run[x].check /\ (x \in observed' <=> x \in observed)
         \/ /\ x = subject[c] /\ run[x].exists /\ run'[x].check \in Statuses
            /\ (x \in observed' <=> x \in observed \/ run'[x].check = "judged")
            /\ (run'[x].check = "judged" => run[x].wait = 0)
<1>1. pc[c] = "settling" /\ subject[c] \in Runs /\ run[subject[c]].exists /\ outcome[c] \in Statuses
  BY DEF Settle, IInv, CallerInv, RecoverInv
<1>2. CASE StoreLatest(c)
  <2>1. run' = [run EXCEPT ![subject[c]].check = outcome[c]]
        /\ observed' = IF outcome[c] = "judged" THEN observed \cup {subject[c]} ELSE observed
    BY <1>2 DEF Settle
  <2>2. outcome[c] = "judged" => run[subject[c]].wait = 0
    BY <1>1, <1>2 DEF StoreLatest, IInv, CallerInv, RecoverInv
  <2>3. run \in [Runs -> RunRow]
    BY DEF IInv, TypeOK
  <2> QED
    BY <1>1, <2>1, <2>2, <2>3 DEF RunRow
<1>3. CASE ~StoreLatest(c)
  BY <1>3 DEF Settle
<1> QED
  BY <1>2, <1>3

\* Every step keeps what is recorded of each run consistent.
LEMMA RunStep == IInv /\ TypeOK' /\ [Next]_vars => (\A x \in Runs : RunInv(x))'
<1> SUFFICES ASSUME IInv, TypeOK', [Next]_vars PROVE (\A x \in Runs : RunInv(x))'
  OBVIOUS
<1> USE PlanAssumption, TimeAssumption
<1> USE DEF IInv, TypeOK, RunRow, NoRun, NoLease, Steps, Preparing, Executing, Places,
      Kinds, Statuses, Goto, Done, Abandon, AfterStore, Current, store, local, history,
      Fault, CountDown, RecoverableIn, StoreLatest, AfterWrite, AttemptSteps,
      Unreceipted, RunInv, CallerInv, AttemptInv, RecoverInv
<1>0. CASE UNCHANGED vars
  BY <1>0 DEF vars
<1>1. ASSUME NEW c \in Callers, NEW r \in Runs, Apply(c, r) PROVE (\A x \in Runs : RunInv(x))'
  BY <1>1 DEF Apply
<1>2. ASSUME NEW c \in Callers, NEW r \in Runs, Recover(c, r) PROVE (\A x \in Runs : RunInv(x))'
  BY <1>2 DEF Recover
<1>3. ASSUME NEW c \in Callers, Preflight(c) PROVE (\A x \in Runs : RunInv(x))'
  BY <1>3 DEF Preflight
<1>4. ASSUME NEW c \in Callers, OwnPointer(c) PROVE (\A x \in Runs : RunInv(x))'
  BY <1>4 DEF OwnPointer, ReadPointer
<1>5. ASSUME NEW c \in Callers, OwnRun(c) PROVE (\A x \in Runs : RunInv(x))'
  BY <1>5 DEF OwnRun, ReadRun, Reconciled
<1>6. ASSUME NEW c \in Callers, SharedPointer(c) PROVE (\A x \in Runs : RunInv(x))'
  BY <1>6 DEF SharedPointer, ReadPointer
<1>7. ASSUME NEW c \in Callers, SharedRun(c) PROVE (\A x \in Runs : RunInv(x))'
  BY <1>7 DEF SharedRun, ReadRun, Reconciled
<1>8. ASSUME NEW c \in Callers, RecordAttempt(c) PROVE (\A x \in Runs : RunInv(x))'
  <2>1. Recorded(c) /\ CallerInv(c)
    BY <1>8, RecordedRun
  <2>2. CASE UNCHANGED run
    BY <2>1, <2>2 DEF Recorded
  <2>3. CASE ~UNCHANGED run
    <3>1. PICK w \in Nat :
            /\ run' = [run EXCEPT ![subject[c]] = [exists |-> TRUE, wait |-> w, check |-> None]]
            /\ ~run[subject[c]].exists
      BY <2>1, <2>3 DEF Recorded
    <3>2. subject[c] \in Runs
      BY <2>1 DEF Recorded
    <3>3. UNCHANGED <<receipt, writes, granted, observed>>
      BY <2>1 DEF Recorded
    <3>4. ASSUME NEW x \in Runs PROVE RunInv(x)'
      <4>1. CASE x = subject[c]
        <5>1. run'[x] = [exists |-> TRUE, wait |-> w, check |-> None]
          BY <3>1, <3>2, <4>1
        <5>2. x \notin observed
          BY <3>1, <4>1 DEF RunInv
        <5> QED
          BY <5>1, <5>2, <3>3
      <4>2. CASE x # subject[c]
        BY <3>1, <3>3, <4>2
      <4> QED
        BY <4>1, <4>2
    <3> QED
      BY <3>4
  <2> QED
    BY <2>2, <2>3
<1>9. ASSUME NEW c \in Callers, PutOwnPointer(c) PROVE (\A x \in Runs : RunInv(x))'
  BY <1>9 DEF PutOwnPointer, PutPointer
<1>10. ASSUME NEW c \in Callers, PutSharedPointer(c) PROVE (\A x \in Runs : RunInv(x))'
  BY <1>10 DEF PutSharedPointer, PutPointer
<1>11. ASSUME NEW c \in Callers, CheckLease(c) PROVE (\A x \in Runs : RunInv(x))'
  BY <1>11 DEF CheckLease
<1>12. ASSUME NEW c \in Callers, Send(c) PROVE (\A x \in Runs : RunInv(x))'
  BY <1>12 DEF Send
<1>13. ASSUME NEW c \in Callers, Fails(c) PROVE (\A x \in Runs : RunInv(x))'
  BY <1>13 DEF Fails
<1>14. ASSUME NEW c \in Callers, Acknowledged(c) PROVE (\A x \in Runs : RunInv(x))'
  BY <1>14 DEF Acknowledged
<1>15. ASSUME NEW c \in Callers, RecordReceipt(c) PROVE (\A x \in Runs : RunInv(x))'
  BY <1>15 DEF RecordReceipt
<1>16. ASSUME NEW c \in Callers, StoreOutcome(c) PROVE (\A x \in Runs : RunInv(x))'
  <2>1. UNCHANGED <<receipt, writes, granted, observed>>
    BY <1>16 DEF StoreOutcome
  <2> QED
    BY <1>16, <2>1, StoredRun DEF RunInv
<1>17. ASSUME NEW c \in Callers, Release(c) PROVE (\A x \in Runs : RunInv(x))'
  BY <1>17 DEF Release
<1>18. ASSUME NEW c \in Callers, NEW s \in Statuses, Observe(c, s) PROVE (\A x \in Runs : RunInv(x))'
  BY <1>18 DEF Observe, Readable
<1>19. ASSUME NEW c \in Callers, Settle(c) PROVE (\A x \in Runs : RunInv(x))'
  <2>1. UNCHANGED <<receipt, writes, granted>>
    BY <1>19 DEF Settle
  <2>2. \A x \in Runs : run'[x].exists = run[x].exists /\ run'[x].wait = run[x].wait
    BY <1>19, SettledRun
  <2>3. None \notin Statuses
    BY PlanAssumption DEF Statuses
  <2> HIDE DEF Statuses
  <2> QED
    BY <1>19, <2>1, <2>2, <2>3, JudgedRun DEF RunInv
<1>20. ASSUME NEW c \in Callers, StoreFails(c) PROVE (\A x \in Runs : RunInv(x))'
  BY <1>20 DEF StoreFails
<1>21. ASSUME NEW c \in Callers, Crash(c) PROVE (\A x \in Runs : RunInv(x))'
  BY <1>21 DEF Crash
<1>22. CASE Tick
  <2>1. \A x \in Runs : run'[x] = [run[x] EXCEPT !.wait = CountDown(run[x].wait)]
    BY <1>22 DEF Tick
  <2>2. \A x \in Runs : /\ run'[x].exists = run[x].exists /\ run'[x].check = run[x].check
                        /\ run[x].wait = 0 => run'[x].wait = 0
    BY <2>1
  <2>3. UNCHANGED <<receipt, writes, granted, observed>>
    BY <1>22 DEF Tick
  <2> QED
    BY <2>2, <2>3
<1> QED
  BY <1>0, <1>1, <1>2, <1>3, <1>4, <1>5, <1>6, <1>7, <1>8, <1>9, <1>10, <1>11, <1>12,
     <1>13, <1>14, <1>15, <1>16, <1>17, <1>18, <1>19, <1>20, <1>21, <1>22 DEF Next,
     CallerStep, PrepareStep, ExecuteStep, RecoverStep

\* Every step keeps what each apply counted and read of its run.
LEMMA AttemptStep == IInv /\ TypeOK' /\ [Next]_vars => SubjectsInv'
<1> SUFFICES ASSUME IInv, TypeOK', [Next]_vars PROVE SubjectsInv'
  OBVIOUS
<1> USE PlanAssumption, TimeAssumption
<1> USE DEF SubjectsInv, IInv, TypeOK, RunRow, NoRun, NoLease, Steps, Preparing, Executing, Places,
      Kinds, Statuses, Goto, Done, Abandon, AfterStore, Current, store, local, history,
      Fault, CountDown, RecoverableIn, StoreLatest, AfterWrite, AttemptSteps,
      Unreceipted, RunInv, CallerInv, AttemptInv, RecoverInv, Exclusive
<1>0. CASE UNCHANGED vars
  BY <1>0 DEF vars
<1>1. ASSUME NEW c \in Callers, NEW r \in Runs, Apply(c, r) PROVE SubjectsInv'
  BY <1>1 DEF Apply
<1>2. ASSUME NEW c \in Callers, NEW r \in Runs, Recover(c, r) PROVE SubjectsInv'
  BY <1>2 DEF Recover
<1>3. ASSUME NEW c \in Callers, Preflight(c) PROVE SubjectsInv'
  BY <1>3 DEF Preflight
<1>4. ASSUME NEW c \in Callers, OwnPointer(c) PROVE SubjectsInv'
  BY <1>4 DEF OwnPointer, ReadPointer
<1>5. ASSUME NEW c \in Callers, OwnRun(c) PROVE SubjectsInv'
  BY <1>5 DEF OwnRun, ReadRun, Reconciled
<1>6. ASSUME NEW c \in Callers, SharedPointer(c) PROVE SubjectsInv'
  BY <1>6 DEF SharedPointer, ReadPointer
<1>7. ASSUME NEW c \in Callers, SharedRun(c) PROVE SubjectsInv'
  BY <1>7 DEF SharedRun, ReadRun, Reconciled
<1>8. ASSUME NEW c \in Callers, RecordAttempt(c) PROVE SubjectsInv'
  BY <1>8, RecordedRun DEF Recorded
<1>9. ASSUME NEW c \in Callers, PutOwnPointer(c) PROVE SubjectsInv'
  BY <1>9 DEF PutOwnPointer, PutPointer
<1>10. ASSUME NEW c \in Callers, PutSharedPointer(c) PROVE SubjectsInv'
  BY <1>10 DEF PutSharedPointer, PutPointer
<1>11. ASSUME NEW c \in Callers, CheckLease(c) PROVE SubjectsInv'
  BY <1>11 DEF CheckLease
<1>12. ASSUME NEW c \in Callers, Send(c) PROVE SubjectsInv'
  BY <1>12 DEF Send
<1>13. ASSUME NEW c \in Callers, Fails(c) PROVE SubjectsInv'
  BY <1>13 DEF Fails
<1>14. ASSUME NEW c \in Callers, Acknowledged(c) PROVE SubjectsInv'
  BY <1>14 DEF Acknowledged
<1>15. ASSUME NEW c \in Callers, RecordReceipt(c) PROVE SubjectsInv'
  BY <1>15 DEF RecordReceipt
<1>16. ASSUME NEW c \in Callers, StoreOutcome(c) PROVE SubjectsInv'
  BY <1>16 DEF StoreOutcome
<1>17. ASSUME NEW c \in Callers, Release(c) PROVE SubjectsInv'
  BY <1>17 DEF Release
<1>18. ASSUME NEW c \in Callers, NEW s \in Statuses, Observe(c, s) PROVE SubjectsInv'
  BY <1>18 DEF Observe, Readable
<1>19. ASSUME NEW c \in Callers, Settle(c) PROVE SubjectsInv'
  <2>1. \A d \in Callers : pc'[d] = (IF d = c THEN "idle" ELSE pc[d]) /\ (d # c => subject'[d] = subject[d])
    BY <1>19 DEF Settle
  <2>2. UNCHANGED <<receipt, writes, granted>> /\ (\A d \in Callers : d # c => outcome'[d] = outcome[d])
    BY <1>19 DEF Settle
  <2>3. latest' \subseteq latest
    BY <1>19 DEF Settle
  <2>4. ASSUME NEW d \in Callers, d # c PROVE AttemptInv(d)'
    <3>1. CASE pc[d] \in AttemptSteps
      <4>1. subject[d] \in Runs
        BY <3>1
      <4>2. run'[subject[d]].exists /\ (d \in latest' => run'[subject[d]].check = None)
        BY <1>19, <2>3, <3>1, <4>1, SettledRun
      <4> QED
        BY <2>1, <2>2, <2>4, <3>1, <4>1, <4>2
    <3>2. CASE ~(pc[d] \in AttemptSteps)
      BY <2>1, <2>4, <3>2
    <3> QED
      BY <3>1, <3>2
  <2> QED
    BY <2>1, <2>4
<1>20. ASSUME NEW c \in Callers, StoreFails(c) PROVE SubjectsInv'
  BY <1>20 DEF StoreFails
<1>21. ASSUME NEW c \in Callers, Crash(c) PROVE SubjectsInv'
  BY <1>21 DEF Crash
<1>22. CASE Tick
  BY <1>22 DEF Tick
<1> QED
  BY <1>0, <1>1, <1>2, <1>3, <1>4, <1>5, <1>6, <1>7, <1>8, <1>9, <1>10, <1>11, <1>12,
     <1>13, <1>14, <1>15, <1>16, <1>17, <1>18, <1>19, <1>20, <1>21, <1>22 DEF Next,
     CallerStep, PrepareStep, ExecuteStep, RecoverStep

\* Every step keeps what each recovery knows of its run.
LEMMA RecoverStepInv == IInv /\ TypeOK' /\ [Next]_vars => (\A x \in Callers : RecoverInv(x))'
<1> SUFFICES ASSUME IInv, TypeOK', [Next]_vars PROVE (\A x \in Callers : RecoverInv(x))'
  OBVIOUS
<1> USE PlanAssumption, TimeAssumption
<1> USE DEF IInv, TypeOK, RunRow, NoRun, NoLease, Steps, Preparing, Executing, Places,
      Kinds, Statuses, Goto, Done, Abandon, AfterStore, Current, store, local, history,
      Fault, CountDown, RecoverableIn, StoreLatest, AfterWrite, AttemptSteps,
      Unreceipted, RunInv, CallerInv, AttemptInv, RecoverInv, Exclusive
<1>0. CASE UNCHANGED vars
  BY <1>0 DEF vars
<1>1. ASSUME NEW c \in Callers, NEW r \in Runs, Apply(c, r) PROVE (\A x \in Callers : RecoverInv(x))'
  BY <1>1 DEF Apply
<1>2. ASSUME NEW c \in Callers, NEW r \in Runs, Recover(c, r) PROVE (\A x \in Callers : RecoverInv(x))'
  BY <1>2 DEF Recover
<1>3. ASSUME NEW c \in Callers, Preflight(c) PROVE (\A x \in Callers : RecoverInv(x))'
  BY <1>3 DEF Preflight
<1>4. ASSUME NEW c \in Callers, OwnPointer(c) PROVE (\A x \in Callers : RecoverInv(x))'
  BY <1>4 DEF OwnPointer, ReadPointer
<1>5. ASSUME NEW c \in Callers, OwnRun(c) PROVE (\A x \in Callers : RecoverInv(x))'
  BY <1>5 DEF OwnRun, ReadRun, Reconciled
<1>6. ASSUME NEW c \in Callers, SharedPointer(c) PROVE (\A x \in Callers : RecoverInv(x))'
  BY <1>6 DEF SharedPointer, ReadPointer
<1>7. ASSUME NEW c \in Callers, SharedRun(c) PROVE (\A x \in Callers : RecoverInv(x))'
  BY <1>7 DEF SharedRun, ReadRun, Reconciled
<1>8. ASSUME NEW c \in Callers, RecordAttempt(c) PROVE (\A x \in Callers : RecoverInv(x))'
  <2>1. Recorded(c) /\ CallerInv(c)
    BY <1>8, RecordedRun
  <2>2. CASE UNCHANGED run
    BY <2>1, <2>2 DEF Recorded
  <2>3. CASE ~UNCHANGED run
    <3>1. \A x \in Runs : run[x].exists => run'[x] = run[x]
      BY <2>1, <2>3 DEF Recorded
    <3>2. \A d \in Callers : d # c => pc'[d] = pc[d] /\ (d \in latest' <=> d \in latest)
      BY <2>1, <2>3 DEF Recorded
    <3>3. pc'[c] = "pointing" /\ UNCHANGED <<subject, outcome>>
      BY <2>1, <2>3 DEF Recorded
    <3> QED
      BY <3>1, <3>2, <3>3
  <2> QED
    BY <2>2, <2>3
<1>9. ASSUME NEW c \in Callers, PutOwnPointer(c) PROVE (\A x \in Callers : RecoverInv(x))'
  BY <1>9 DEF PutOwnPointer, PutPointer
<1>10. ASSUME NEW c \in Callers, PutSharedPointer(c) PROVE (\A x \in Callers : RecoverInv(x))'
  BY <1>10 DEF PutSharedPointer, PutPointer
<1>11. ASSUME NEW c \in Callers, CheckLease(c) PROVE (\A x \in Callers : RecoverInv(x))'
  BY <1>11 DEF CheckLease
<1>12. ASSUME NEW c \in Callers, Send(c) PROVE (\A x \in Callers : RecoverInv(x))'
  BY <1>12 DEF Send
<1>13. ASSUME NEW c \in Callers, Fails(c) PROVE (\A x \in Callers : RecoverInv(x))'
  BY <1>13 DEF Fails
<1>14. ASSUME NEW c \in Callers, Acknowledged(c) PROVE (\A x \in Callers : RecoverInv(x))'
  BY <1>14 DEF Acknowledged
<1>15. ASSUME NEW c \in Callers, RecordReceipt(c) PROVE (\A x \in Callers : RecoverInv(x))'
  BY <1>15 DEF RecordReceipt
<1>16. ASSUME NEW c \in Callers, StoreOutcome(c) PROVE (\A x \in Callers : RecoverInv(x))'
  BY <1>16 DEF StoreOutcome
<1>17. ASSUME NEW c \in Callers, Release(c) PROVE (\A x \in Callers : RecoverInv(x))'
  BY <1>17 DEF Release
<1>18. ASSUME NEW c \in Callers, NEW s \in Statuses, Observe(c, s) PROVE (\A x \in Callers : RecoverInv(x))'
  BY <1>18 DEF Observe, Readable
<1>19. ASSUME NEW c \in Callers, Settle(c) PROVE (\A x \in Callers : RecoverInv(x))'
  <2>1. \A d \in Callers : /\ pc'[d] = (IF d = c THEN "idle" ELSE pc[d])
                           /\ d # c => subject'[d] = subject[d] /\ outcome'[d] = outcome[d]
    BY <1>19 DEF Settle
  <2>2. latest' \subseteq latest
    BY <1>19 DEF Settle
  <2>3. \A x \in Runs : run'[x].exists = run[x].exists /\ run'[x].wait = run[x].wait
    BY <1>19, SettledRun
  <2>4. ASSUME NEW d \in Callers PROVE RecoverInv(d)'
    <3>1. CASE d # c /\ pc[d] \in {"observing", "settling"}
      <4>1. subject[d] \in Runs /\ RecoverInv(d)
        BY <3>1
      <4> QED
        BY <2>1, <2>2, <2>3, <3>1, <4>1 DEF RecoverInv
    <3>2. CASE ~(d # c /\ pc[d] \in {"observing", "settling"})
      BY <2>1, <3>2 DEF RecoverInv
    <3> QED
      BY <3>1, <3>2
  <2> QED
    BY <2>4
<1>20. ASSUME NEW c \in Callers, StoreFails(c) PROVE (\A x \in Callers : RecoverInv(x))'
  BY <1>20 DEF StoreFails
<1>21. ASSUME NEW c \in Callers, Crash(c) PROVE (\A x \in Callers : RecoverInv(x))'
  BY <1>21 DEF Crash
<1>22. CASE Tick
  BY <1>22 DEF Tick
<1> QED
  BY <1>0, <1>1, <1>2, <1>3, <1>4, <1>5, <1>6, <1>7, <1>8, <1>9, <1>10, <1>11, <1>12,
     <1>13, <1>14, <1>15, <1>16, <1>17, <1>18, <1>19, <1>20, <1>21, <1>22 DEF Next,
     CallerStep, PrepareStep, ExecuteStep, RecoverStep

\* Every step leaves a recovery waiting longer than the lease of the attempt.
LEMMA LeaseStep == IInv /\ TypeOK' /\ [Next]_vars => (\A x \in Callers : LeaseInv(x))'
<1> SUFFICES ASSUME IInv, TypeOK', [Next]_vars PROVE (\A x \in Callers : LeaseInv(x))'
  OBVIOUS
<1> USE PlanAssumption, TimeAssumption
<1> USE DEF IInv, TypeOK, RunRow, NoRun, NoLease, Steps, Preparing, Executing, Places,
      Kinds, Statuses, Goto, Done, Abandon, AfterStore, Current, store, local, history,
      Fault, CountDown, RecoverableIn, StoreLatest, AfterWrite, AttemptSteps,
      Unreceipted, RunInv, CallerInv, AttemptInv, LeaseInv, Exclusive
<1>0. CASE UNCHANGED vars
  BY <1>0 DEF vars
<1>1. ASSUME NEW c \in Callers, NEW r \in Runs, Apply(c, r) PROVE (\A x \in Callers : LeaseInv(x))'
  BY <1>1 DEF Apply
<1>2. ASSUME NEW c \in Callers, NEW r \in Runs, Recover(c, r) PROVE (\A x \in Callers : LeaseInv(x))'
  BY <1>2 DEF Recover
<1>3. ASSUME NEW c \in Callers, Preflight(c) PROVE (\A x \in Callers : LeaseInv(x))'
  BY <1>3 DEF Preflight
<1>4. ASSUME NEW c \in Callers, OwnPointer(c) PROVE (\A x \in Callers : LeaseInv(x))'
  BY <1>4 DEF OwnPointer, ReadPointer
<1>5. ASSUME NEW c \in Callers, OwnRun(c) PROVE (\A x \in Callers : LeaseInv(x))'
  BY <1>5 DEF OwnRun, ReadRun, Reconciled
<1>6. ASSUME NEW c \in Callers, SharedPointer(c) PROVE (\A x \in Callers : LeaseInv(x))'
  BY <1>6 DEF SharedPointer, ReadPointer
<1>7. ASSUME NEW c \in Callers, SharedRun(c) PROVE (\A x \in Callers : LeaseInv(x))'
  BY <1>7 DEF SharedRun, ReadRun, Reconciled
<1>8. ASSUME NEW c \in Callers, RecordAttempt(c) PROVE (\A x \in Callers : LeaseInv(x))'
  BY <1>8, RecordedRun DEF Recorded
<1>9. ASSUME NEW c \in Callers, PutOwnPointer(c) PROVE (\A x \in Callers : LeaseInv(x))'
  BY <1>9 DEF PutOwnPointer, PutPointer
<1>10. ASSUME NEW c \in Callers, PutSharedPointer(c) PROVE (\A x \in Callers : LeaseInv(x))'
  BY <1>10 DEF PutSharedPointer, PutPointer
<1>11. ASSUME NEW c \in Callers, CheckLease(c) PROVE (\A x \in Callers : LeaseInv(x))'
  BY <1>11 DEF CheckLease
<1>12. ASSUME NEW c \in Callers, Send(c) PROVE (\A x \in Callers : LeaseInv(x))'
  BY <1>12 DEF Send
<1>13. ASSUME NEW c \in Callers, Fails(c) PROVE (\A x \in Callers : LeaseInv(x))'
  BY <1>13 DEF Fails
<1>14. ASSUME NEW c \in Callers, Acknowledged(c) PROVE (\A x \in Callers : LeaseInv(x))'
  BY <1>14 DEF Acknowledged
<1>15. ASSUME NEW c \in Callers, RecordReceipt(c) PROVE (\A x \in Callers : LeaseInv(x))'
  BY <1>15 DEF RecordReceipt
<1>16. ASSUME NEW c \in Callers, StoreOutcome(c) PROVE (\A x \in Callers : LeaseInv(x))'
  <2>1. \A d \in Callers : /\ pc'[d] = (IF d = c THEN "releasing" ELSE pc[d])
                           /\ d # c => subject'[d] = subject[d]
    BY <1>16 DEF StoreOutcome
  <2>2. UNCHANGED lease /\ pc[c] = "storing"
    BY <1>16 DEF StoreOutcome
  <2>3. ASSUME NEW d \in Callers PROVE LeaseInv(d)'
    <3>1. CASE d # c /\ pc[d] \in AttemptSteps
      <4>1. subject[d] \in Runs /\ subject[d] # subject[c] /\ LeaseInv(d)
        BY <2>2, <3>1
      <4>2. run'[subject[d]].wait = run[subject[d]].wait
        BY <1>16, <4>1, StoredRun
      <4> QED
        BY <2>1, <2>2, <3>1, <4>1, <4>2
    <3>2. CASE ~(d # c /\ pc[d] \in AttemptSteps)
      BY <2>1, <3>2
    <3> QED
      BY <3>1, <3>2
  <2> QED
    BY <2>3
<1>17. ASSUME NEW c \in Callers, Release(c) PROVE (\A x \in Callers : LeaseInv(x))'
  BY <1>17 DEF Release
<1>18. ASSUME NEW c \in Callers, NEW s \in Statuses, Observe(c, s) PROVE (\A x \in Callers : LeaseInv(x))'
  BY <1>18 DEF Observe, Readable
<1>19. ASSUME NEW c \in Callers, Settle(c) PROVE (\A x \in Callers : LeaseInv(x))'
  <2>1. \A d \in Callers : pc'[d] = (IF d = c THEN "idle" ELSE pc[d]) /\ (d # c => subject'[d] = subject[d])
    BY <1>19 DEF Settle
  <2>2. UNCHANGED lease
    BY <1>19 DEF Settle
  <2>3. \A x \in Runs : run'[x].wait = run[x].wait
    BY <1>19, SettledRun
  <2>4. ASSUME NEW d \in Callers PROVE LeaseInv(d)'
    <3>1. CASE d # c /\ pc[d] \in AttemptSteps
      BY <2>1, <2>2, <2>3, <3>1
    <3>2. CASE ~(d # c /\ pc[d] \in AttemptSteps)
      BY <2>1, <3>2
    <3> QED
      BY <3>1, <3>2
  <2> QED
    BY <2>4
<1>20. ASSUME NEW c \in Callers, StoreFails(c) PROVE (\A x \in Callers : LeaseInv(x))'
  BY <1>20 DEF StoreFails
<1>21. ASSUME NEW c \in Callers, Crash(c) PROVE (\A x \in Callers : LeaseInv(x))'
  BY <1>21 DEF Crash
<1>22. CASE Tick
  <2>1. lease.left \in Nat /\ lease'.left = CountDown(lease.left) /\ lease'.owner = lease.owner
    BY <1>22 DEF Tick
  <2>2. ASSUME NEW d \in Callers PROVE LeaseInv(d)'
    <3>1. CASE pc[d] \in AttemptSteps \ {"recording", "storing"} /\ Current(d)
      <4>1. subject[d] \in Runs /\ run[subject[d]] \in RunRow /\ run[subject[d]].wait >= lease.left + Margin
        BY <3>1
      <4>2. run'[subject[d]].wait = CountDown(run[subject[d]].wait)
        BY <1>22, <4>1 DEF Tick
      <4>3. run[subject[d]].wait \in Nat /\ subject'[d] = subject[d]
        BY <1>22, <4>1 DEF Tick
      <4> QED
        BY <2>1, <4>1, <4>2, <4>3
    <3>2. CASE ~(pc[d] \in AttemptSteps \ {"recording", "storing"} /\ Current(d))
      <4>1. pc'[d] = pc[d]
        BY <1>22 DEF Tick
      <4>2. Current(d)' => Current(d)
        BY <2>1
      <4> QED
        BY <3>2, <4>1, <4>2
    <3> QED
      BY <3>1, <3>2
  <2> QED
    BY <2>2
<1> QED
  BY <1>0, <1>1, <1>2, <1>3, <1>4, <1>5, <1>6, <1>7, <1>8, <1>9, <1>10, <1>11, <1>12,
     <1>13, <1>14, <1>15, <1>16, <1>17, <1>18, <1>19, <1>20, <1>21, <1>22 DEF Next,
     CallerStep, PrepareStep, ExecuteStep, RecoverStep

\* Every step leaves an attempt with one caller.
LEMMA ExclusiveStep == IInv /\ TypeOK' /\ [Next]_vars => Exclusive'
<1> SUFFICES ASSUME IInv, TypeOK', [Next]_vars PROVE Exclusive'
  OBVIOUS
<1> USE PlanAssumption, TimeAssumption
<1> USE DEF IInv, TypeOK, RunRow, NoRun, NoLease, Steps, Preparing, Executing, Places,
      Kinds, Statuses, Goto, Done, Abandon, AfterStore, Current, store, local, history,
      Fault, CountDown, RecoverableIn, StoreLatest, AfterWrite, AttemptSteps,
      Unreceipted, CallerInv, AttemptInv, Exclusive
<1>0. CASE UNCHANGED vars
  BY <1>0 DEF vars
<1>1. ASSUME NEW c \in Callers, NEW r \in Runs, Apply(c, r) PROVE Exclusive'
  BY <1>1 DEF Apply
<1>2. ASSUME NEW c \in Callers, NEW r \in Runs, Recover(c, r) PROVE Exclusive'
  BY <1>2 DEF Recover
<1>3. ASSUME NEW c \in Callers, Preflight(c) PROVE Exclusive'
  BY <1>3 DEF Preflight
<1>4. ASSUME NEW c \in Callers, OwnPointer(c) PROVE Exclusive'
  BY <1>4 DEF OwnPointer, ReadPointer
<1>5. ASSUME NEW c \in Callers, OwnRun(c) PROVE Exclusive'
  BY <1>5 DEF OwnRun, ReadRun, Reconciled
<1>6. ASSUME NEW c \in Callers, SharedPointer(c) PROVE Exclusive'
  BY <1>6 DEF SharedPointer, ReadPointer
<1>7. ASSUME NEW c \in Callers, SharedRun(c) PROVE Exclusive'
  BY <1>7 DEF SharedRun, ReadRun, Reconciled
<1>8. ASSUME NEW c \in Callers, RecordAttempt(c) PROVE Exclusive'
  BY <1>8, RecordedRun DEF Recorded
<1>9. ASSUME NEW c \in Callers, PutOwnPointer(c) PROVE Exclusive'
  BY <1>9 DEF PutOwnPointer, PutPointer
<1>10. ASSUME NEW c \in Callers, PutSharedPointer(c) PROVE Exclusive'
  BY <1>10 DEF PutSharedPointer, PutPointer
<1>11. ASSUME NEW c \in Callers, CheckLease(c) PROVE Exclusive'
  BY <1>11 DEF CheckLease
<1>12. ASSUME NEW c \in Callers, Send(c) PROVE Exclusive'
  BY <1>12 DEF Send
<1>13. ASSUME NEW c \in Callers, Fails(c) PROVE Exclusive'
  BY <1>13 DEF Fails
<1>14. ASSUME NEW c \in Callers, Acknowledged(c) PROVE Exclusive'
  BY <1>14 DEF Acknowledged
<1>15. ASSUME NEW c \in Callers, RecordReceipt(c) PROVE Exclusive'
  BY <1>15 DEF RecordReceipt
<1>16. ASSUME NEW c \in Callers, StoreOutcome(c) PROVE Exclusive'
  BY <1>16 DEF StoreOutcome
<1>17. ASSUME NEW c \in Callers, Release(c) PROVE Exclusive'
  BY <1>17 DEF Release
<1>18. ASSUME NEW c \in Callers, NEW s \in Statuses, Observe(c, s) PROVE Exclusive'
  BY <1>18 DEF Observe, Readable
<1>19. ASSUME NEW c \in Callers, Settle(c) PROVE Exclusive'
  BY <1>19 DEF Settle
<1>20. ASSUME NEW c \in Callers, StoreFails(c) PROVE Exclusive'
  BY <1>20 DEF StoreFails
<1>21. ASSUME NEW c \in Callers, Crash(c) PROVE Exclusive'
  BY <1>21 DEF Crash
<1>22. CASE Tick
  BY <1>22 DEF Tick
<1> QED
  BY <1>0, <1>1, <1>2, <1>3, <1>4, <1>5, <1>6, <1>7, <1>8, <1>9, <1>10, <1>11, <1>12,
     <1>13, <1>14, <1>15, <1>16, <1>17, <1>18, <1>19, <1>20, <1>21, <1>22 DEF Next,
     CallerStep, PrepareStep, ExecuteStep, RecoverStep

\* Every step leaves the receipts complete.
LEMMA ReceiptStep == IInv /\ TypeOK' /\ [Next]_vars => ReceiptIsComplete'
<1> SUFFICES ASSUME IInv, TypeOK', [Next]_vars PROVE ReceiptIsComplete'
  OBVIOUS
<1> USE PlanAssumption, TimeAssumption
<1> USE DEF IInv, TypeOK, RunRow, NoRun, NoLease, Steps, Preparing, Executing, Places,
      Kinds, Statuses, Goto, Done, Abandon, AfterStore, Current, store, local, history,
      Fault, CountDown, RecoverableIn, StoreLatest, AfterWrite, AttemptSteps,
      Unreceipted, RunInv, CallerInv, AttemptInv, Exclusive, ReceiptIsComplete
<1>0. CASE UNCHANGED vars
  BY <1>0 DEF vars
<1>1. ASSUME NEW c \in Callers, NEW r \in Runs, Apply(c, r) PROVE ReceiptIsComplete'
  BY <1>1 DEF Apply
<1>2. ASSUME NEW c \in Callers, NEW r \in Runs, Recover(c, r) PROVE ReceiptIsComplete'
  BY <1>2 DEF Recover
<1>3. ASSUME NEW c \in Callers, Preflight(c) PROVE ReceiptIsComplete'
  BY <1>3 DEF Preflight
<1>4. ASSUME NEW c \in Callers, OwnPointer(c) PROVE ReceiptIsComplete'
  BY <1>4 DEF OwnPointer, ReadPointer
<1>5. ASSUME NEW c \in Callers, OwnRun(c) PROVE ReceiptIsComplete'
  BY <1>5 DEF OwnRun, ReadRun, Reconciled
<1>6. ASSUME NEW c \in Callers, SharedPointer(c) PROVE ReceiptIsComplete'
  BY <1>6 DEF SharedPointer, ReadPointer
<1>7. ASSUME NEW c \in Callers, SharedRun(c) PROVE ReceiptIsComplete'
  BY <1>7 DEF SharedRun, ReadRun, Reconciled
<1>8. ASSUME NEW c \in Callers, RecordAttempt(c) PROVE ReceiptIsComplete'
  BY <1>8, RecordedRun DEF Recorded
<1>9. ASSUME NEW c \in Callers, PutOwnPointer(c) PROVE ReceiptIsComplete'
  BY <1>9 DEF PutOwnPointer, PutPointer
<1>10. ASSUME NEW c \in Callers, PutSharedPointer(c) PROVE ReceiptIsComplete'
  BY <1>10 DEF PutSharedPointer, PutPointer
<1>11. ASSUME NEW c \in Callers, CheckLease(c) PROVE ReceiptIsComplete'
  BY <1>11 DEF CheckLease
<1>12. ASSUME NEW c \in Callers, Send(c) PROVE ReceiptIsComplete'
  BY <1>12 DEF Send
<1>13. ASSUME NEW c \in Callers, Fails(c) PROVE ReceiptIsComplete'
  BY <1>13 DEF Fails
<1>14. ASSUME NEW c \in Callers, Acknowledged(c) PROVE ReceiptIsComplete'
  BY <1>14 DEF Acknowledged
<1>15. ASSUME NEW c \in Callers, RecordReceipt(c) PROVE ReceiptIsComplete'
  BY <1>15 DEF RecordReceipt
<1>16. ASSUME NEW c \in Callers, StoreOutcome(c) PROVE ReceiptIsComplete'
  BY <1>16 DEF StoreOutcome
<1>17. ASSUME NEW c \in Callers, Release(c) PROVE ReceiptIsComplete'
  BY <1>17 DEF Release
<1>18. ASSUME NEW c \in Callers, NEW s \in Statuses, Observe(c, s) PROVE ReceiptIsComplete'
  BY <1>18 DEF Observe, Readable
<1>19. ASSUME NEW c \in Callers, Settle(c) PROVE ReceiptIsComplete'
  BY <1>19 DEF Settle
<1>20. ASSUME NEW c \in Callers, StoreFails(c) PROVE ReceiptIsComplete'
  BY <1>20 DEF StoreFails
<1>21. ASSUME NEW c \in Callers, Crash(c) PROVE ReceiptIsComplete'
  BY <1>21 DEF Crash
<1>22. CASE Tick
  BY <1>22 DEF Tick
<1> QED
  BY <1>0, <1>1, <1>2, <1>3, <1>4, <1>5, <1>6, <1>7, <1>8, <1>9, <1>10, <1>11, <1>12,
     <1>13, <1>14, <1>15, <1>16, <1>17, <1>18, <1>19, <1>20, <1>21, <1>22 DEF Next,
     CallerStep, PrepareStep, ExecuteStep, RecoverStep

\* Every step stays in the domains.
LEMMA TypeStep == IInv /\ [Next]_vars => TypeOK'
<1> SUFFICES ASSUME IInv, [Next]_vars PROVE TypeOK'
  OBVIOUS
<1> USE PlanAssumption, TimeAssumption
<1> USE DEF IInv, CallerInv, AttemptInv, RecoverInv, TypeOK, RunRow, NoRun, NoLease,
      Steps, Preparing, Executing, Places, Kinds, Statuses, Goto, Done, Abandon,
      AfterStore, Current, store, local, history, Fault, CountDown, RecoverableIn,
      StoreLatest, AfterWrite
<1>0. CASE UNCHANGED vars
  BY <1>0 DEF vars
<1>1. ASSUME NEW c \in Callers, NEW r \in Runs, Apply(c, r) PROVE TypeOK'
  BY <1>1 DEF Apply
<1>2. ASSUME NEW c \in Callers, NEW r \in Runs, Recover(c, r) PROVE TypeOK'
  BY <1>2 DEF Recover
<1>3. ASSUME NEW c \in Callers, Preflight(c) PROVE TypeOK'
  BY <1>3 DEF Preflight
<1>4. ASSUME NEW c \in Callers, OwnPointer(c) PROVE TypeOK'
  BY <1>4 DEF OwnPointer, ReadPointer
<1>5. ASSUME NEW c \in Callers, OwnRun(c) PROVE TypeOK'
  BY <1>5 DEF OwnRun, ReadRun, Reconciled
<1>6. ASSUME NEW c \in Callers, SharedPointer(c) PROVE TypeOK'
  BY <1>6 DEF SharedPointer, ReadPointer
<1>7. ASSUME NEW c \in Callers, SharedRun(c) PROVE TypeOK'
  BY <1>7 DEF SharedRun, ReadRun, Reconciled
<1>8. ASSUME NEW c \in Callers, RecordAttempt(c) PROVE TypeOK'
  <2>1. Recorded(c) /\ UNCHANGED faults
    BY <1>8, RecordedRun DEF RecordAttempt
  <2>2. subject[c] \in Runs
    BY <2>1 DEF Recorded
  <2>3. CASE UNCHANGED <<run, latest>> /\ pc' = [pc EXCEPT ![c] = "releasing"]
    BY <2>1, <2>3 DEF Recorded
  <2>4. ASSUME NEW w \in Nat,
               run' = [run EXCEPT ![subject[c]] = [exists |-> TRUE, wait |-> w, check |-> None]],
               latest' = latest \cup {c}, pc' = [pc EXCEPT ![c] = "pointing"]
        PROVE  TypeOK'
    <3>1. [exists |-> TRUE, wait |-> w, check |-> None] \in RunRow
      OBVIOUS
    <3>2. run' \in [Runs -> RunRow]
      BY <2>2, <2>4, <3>1 DEF TypeOK
    <3> QED
      BY <2>1, <2>4, <3>2 DEF Recorded
  <2> QED
    BY <2>1, <2>3, <2>4 DEF Recorded
<1>9. ASSUME NEW c \in Callers, PutOwnPointer(c) PROVE TypeOK'
  BY <1>9 DEF PutOwnPointer, PutPointer
<1>10. ASSUME NEW c \in Callers, PutSharedPointer(c) PROVE TypeOK'
  BY <1>10 DEF PutSharedPointer, PutPointer
<1>11. ASSUME NEW c \in Callers, CheckLease(c) PROVE TypeOK'
  BY <1>11 DEF CheckLease
<1>12. ASSUME NEW c \in Callers, Send(c) PROVE TypeOK'
  BY <1>12 DEF Send
<1>13. ASSUME NEW c \in Callers, Fails(c) PROVE TypeOK'
  BY <1>13 DEF Fails
<1>14. ASSUME NEW c \in Callers, Acknowledged(c) PROVE TypeOK'
  BY <1>14 DEF Acknowledged
<1>15. ASSUME NEW c \in Callers, RecordReceipt(c) PROVE TypeOK'
  <2>1. subject[c] \in Runs /\ outcome[c] \in {"succeeded", "partial"}
    BY <1>15 DEF RecordReceipt
  <2>2. receipt' \in [Runs -> {None, "succeeded", "partial"}]
    BY <1>15, <2>1 DEF RecordReceipt
  <2>3. UNCHANGED <<run, pointer, lease, subject, prior, latest, outcome, left, writes, granted, observed, faults>>
    BY <1>15 DEF RecordReceipt
  <2>4. pc' \in [Callers -> Steps]
    BY <1>15 DEF RecordReceipt
  <2> QED
    BY <2>2, <2>3, <2>4
<1>16. ASSUME NEW c \in Callers, StoreOutcome(c) PROVE TypeOK'
  <2>1. subject[c] \in Runs /\ run[subject[c]] \in RunRow
    BY <1>16 DEF StoreOutcome
  <2>2. run' \in [Runs -> RunRow]
    <3>1. CASE ~StoreLatest(c)
      BY <1>16, <3>1 DEF StoreOutcome
    <3>2. CASE StoreLatest(c) /\ outcome[c] = "succeeded"
      <4>1. run' = [run EXCEPT ![subject[c]] =
                      [exists |-> run[subject[c]].exists, wait |-> Margin, check |-> None]]
        BY <1>16, <2>1, <3>2 DEF StoreOutcome
      <4> QED
        BY <2>1, <4>1
    <3>3. CASE StoreLatest(c) /\ outcome[c] # "succeeded"
      <4>1. run' = [run EXCEPT ![subject[c]] =
                      [exists |-> run[subject[c]].exists, wait |-> run[subject[c]].wait, check |-> None]]
        BY <1>16, <2>1, <3>3 DEF StoreOutcome
      <4> QED
        BY <2>1, <4>1
    <3> QED
      BY <3>1, <3>2, <3>3
  <2>3. pc' = [pc EXCEPT ![c] = "releasing"] /\ latest' \subseteq latest
    BY <1>16 DEF StoreOutcome
  <2>4. UNCHANGED <<pointer, receipt, lease, subject, prior, outcome, left, history, faults>>
    BY <1>16 DEF StoreOutcome
  <2> QED
    BY <2>2, <2>3, <2>4
<1>17. ASSUME NEW c \in Callers, Release(c) PROVE TypeOK'
  BY <1>17 DEF Release
<1>18. ASSUME NEW c \in Callers, NEW s \in Statuses, Observe(c, s) PROVE TypeOK'
  BY <1>18 DEF Observe, Readable
<1>19. ASSUME NEW c \in Callers, Settle(c) PROVE TypeOK'
  <2>1. subject[c] \in Runs /\ run[subject[c]] \in RunRow /\ outcome[c] \in Statuses
    BY <1>19 DEF Settle
  <2>2. run' \in [Runs -> RunRow]
    <3>1. CASE ~StoreLatest(c)
      BY <1>19, <3>1 DEF Settle
    <3>2. CASE StoreLatest(c)
      <4>1. run' = [run EXCEPT ![subject[c]] =
                      [exists |-> run[subject[c]].exists, wait |-> run[subject[c]].wait,
                       check |-> outcome[c]]]
        BY <1>19, <2>1, <3>2 DEF Settle
      <4> QED
        BY <2>1, <4>1
    <3> QED
      BY <3>1, <3>2
  <2>3. observed' \in SUBSET Runs /\ latest' \in SUBSET Callers
    BY <1>19, <2>1 DEF Settle
  <2>4. /\ pc' \in [Callers -> Steps] /\ left' \in [Callers -> Nat]
        /\ subject' \in [Callers -> Runs \cup {None}] /\ prior' \in [Callers -> Runs \cup {None}]
        /\ outcome' \in [Callers -> {None, "succeeded", "partial"} \cup Statuses]
    <3>1. /\ pc' = [pc EXCEPT ![c] = "idle"] /\ left' = [left EXCEPT ![c] = 0]
          /\ subject' = [subject EXCEPT ![c] = None] /\ prior' = [prior EXCEPT ![c] = None]
          /\ outcome' = [outcome EXCEPT ![c] = None]
      BY <1>19 DEF Settle
    <3> QED
      BY <3>1
  <2>5. UNCHANGED <<pointer, receipt, lease, writes, granted, faults>>
    BY <1>19 DEF Settle
  <2> QED
    BY <2>2, <2>3, <2>4, <2>5
<1>20. ASSUME NEW c \in Callers, StoreFails(c) PROVE TypeOK'
  BY <1>20 DEF StoreFails
<1>21. ASSUME NEW c \in Callers, Crash(c) PROVE TypeOK'
  BY <1>21 DEF Crash
<1>22. CASE Tick
  <2>1. \A t \in Nat : CountDown(t) \in Nat
    OBVIOUS
  <2>2. \A x \in RunRow : [x EXCEPT !.wait = CountDown(@)] \in RunRow
    BY <2>1
  <2>3. run' \in [Runs -> RunRow] /\ left' \in [Callers -> Nat]
    BY <1>22, <2>1, <2>2 DEF Tick
  <2> QED
    BY <1>22, <2>1, <2>3 DEF Tick
<1> QED
  BY <1>0, <1>1, <1>2, <1>3, <1>4, <1>5, <1>6, <1>7, <1>8, <1>9, <1>10, <1>11, <1>12,
     <1>13, <1>14, <1>15, <1>16, <1>17, <1>18, <1>19, <1>20, <1>21, <1>22 DEF Next,
     CallerStep, PrepareStep, ExecuteStep, RecoverStep

\* A call reads only the run a pointer named.
LEMMA PriorStep == IInv /\ [Next]_vars => PriorsInv'
<1> SUFFICES ASSUME IInv, [Next]_vars PROVE PriorsInv'
  OBVIOUS
<1> USE PlanAssumption, TimeAssumption
<1> USE DEF PriorsInv, IInv, TypeOK, RunRow, NoRun, NoLease, Steps, Preparing, Executing, Places,
      Kinds, Statuses, Goto, Done, Abandon, AfterStore, Current, store, local, history,
      Fault, CountDown, RecoverableIn, StoreLatest, AfterWrite, CallerInv
<1>0. CASE UNCHANGED vars
  BY <1>0 DEF vars
<1>1. ASSUME NEW c \in Callers, NEW r \in Runs, Apply(c, r) PROVE PriorsInv'
  BY <1>1 DEF Apply
<1>2. ASSUME NEW c \in Callers, NEW r \in Runs, Recover(c, r) PROVE PriorsInv'
  BY <1>2 DEF Recover
<1>3. ASSUME NEW c \in Callers, Preflight(c) PROVE PriorsInv'
  BY <1>3 DEF Preflight
<1>4. ASSUME NEW c \in Callers, OwnPointer(c) PROVE PriorsInv'
  BY <1>4 DEF OwnPointer, ReadPointer
<1>5. ASSUME NEW c \in Callers, OwnRun(c) PROVE PriorsInv'
  BY <1>5 DEF OwnRun, ReadRun, Reconciled
<1>6. ASSUME NEW c \in Callers, SharedPointer(c) PROVE PriorsInv'
  BY <1>6 DEF SharedPointer, ReadPointer
<1>7. ASSUME NEW c \in Callers, SharedRun(c) PROVE PriorsInv'
  BY <1>7 DEF SharedRun, ReadRun, Reconciled
<1>8. ASSUME NEW c \in Callers, RecordAttempt(c) PROVE PriorsInv'
  BY <1>8, RecordedRun DEF Recorded
<1>9. ASSUME NEW c \in Callers, PutOwnPointer(c) PROVE PriorsInv'
  BY <1>9 DEF PutOwnPointer, PutPointer
<1>10. ASSUME NEW c \in Callers, PutSharedPointer(c) PROVE PriorsInv'
  BY <1>10 DEF PutSharedPointer, PutPointer
<1>11. ASSUME NEW c \in Callers, CheckLease(c) PROVE PriorsInv'
  BY <1>11 DEF CheckLease
<1>12. ASSUME NEW c \in Callers, Send(c) PROVE PriorsInv'
  BY <1>12 DEF Send
<1>13. ASSUME NEW c \in Callers, Fails(c) PROVE PriorsInv'
  BY <1>13 DEF Fails
<1>14. ASSUME NEW c \in Callers, Acknowledged(c) PROVE PriorsInv'
  BY <1>14 DEF Acknowledged
<1>15. ASSUME NEW c \in Callers, RecordReceipt(c) PROVE PriorsInv'
  BY <1>15 DEF RecordReceipt
<1>16. ASSUME NEW c \in Callers, StoreOutcome(c) PROVE PriorsInv'
  BY <1>16 DEF StoreOutcome
<1>17. ASSUME NEW c \in Callers, Release(c) PROVE PriorsInv'
  BY <1>17 DEF Release
<1>18. ASSUME NEW c \in Callers, NEW s \in Statuses, Observe(c, s) PROVE PriorsInv'
  BY <1>18 DEF Observe, Readable
<1>19. ASSUME NEW c \in Callers, Settle(c) PROVE PriorsInv'
  BY <1>19 DEF Settle
<1>20. ASSUME NEW c \in Callers, StoreFails(c) PROVE PriorsInv'
  BY <1>20 DEF StoreFails
<1>21. ASSUME NEW c \in Callers, Crash(c) PROVE PriorsInv'
  BY <1>21 DEF Crash
<1>22. CASE Tick
  BY <1>22 DEF Tick
<1> QED
  BY <1>0, <1>1, <1>2, <1>3, <1>4, <1>5, <1>6, <1>7, <1>8, <1>9, <1>10, <1>11, <1>12,
     <1>13, <1>14, <1>15, <1>16, <1>17, <1>18, <1>19, <1>20, <1>21, <1>22 DEF Next,
     CallerStep, PrepareStep, ExecuteStep, RecoverStep

-----------------------------------------------------------------------------
\* The invariant holds, and with it type correctness and complete receipts.

LEMMA InitInv == Init => IInv
<1> SUFFICES ASSUME Init PROVE IInv
  OBVIOUS
<1>1. TypeOK
  BY InitType
<1>2. \A r \in Runs : RunInv(r)
  BY PlanAssumption DEF Init, RunInv, NoRun
<1>3. \A c \in Callers : CallerInv(c)
  BY DEF Init, CallerInv, AttemptInv, RecoverInv, LeaseInv, AttemptSteps, Unreceipted, Executing
<1>4. Exclusive /\ ReceiptIsComplete
  BY PlanAssumption DEF Init, Exclusive, AttemptSteps, Executing, ReceiptIsComplete
<1> QED
  BY <1>1, <1>2, <1>3, <1>4 DEF IInv

\* Every step keeps the invariant.
LEMMA StepInv == IInv /\ [Next]_vars => IInv'
<1> SUFFICES ASSUME IInv, [Next]_vars PROVE IInv'
  OBVIOUS
<1>1. TypeOK'
  BY TypeStep
<1>2. (\A c \in Callers : CallerInv(c))'
  BY <1>1, AttemptStep, RecoverStepInv, LeaseStep, PriorStep DEF CallerInv, SubjectsInv, PriorsInv
<1> QED
  BY <1>1, <1>2, RunStep, ExclusiveStep, ReceiptStep DEF IInv

\* The invariant always holds.
LEMMA Invariance == Spec => []IInv
  BY InitInv, StepInv, PTL DEF Spec

\* The stored run, pointers, receipt and lease and the state of every call stay
\* in their domains, whatever calls interleave, fail or die.
THEOREM TypeCorrect == Spec => []TypeOK
<1>1. IInv => TypeOK
  BY DEF IInv
<1> QED
  BY <1>1, Invariance, PTL

\* A receipt says succeeded only when every operation of the plan was sent and
\* accepted, whatever leases ended and recoveries came in between.
THEOREM ReceiptIsCompleteHolds == Spec => []ReceiptIsComplete
<1>1. IInv => ReceiptIsComplete
  BY DEF IInv
<1> QED
  BY <1>1, Invariance, PTL

-----------------------------------------------------------------------------
\* What may never happen in a step.

Kept == \A r \in Runs : run[r].check # None => run'[r].check # None

NoLateSend ==
    \A c \in Callers : subject[c] \in observed => ~Checks(c) /\ (Sends(c) => Overdue(c))

AwaitedSend ==
    \A c \in Callers, q \in Runs :
        Sends(c) /\ q # subject[c] /\ writes[q] > 0 =>
            q \in observed \/ (Overdue(c) /\ subject[c] \in observed)

\* No step erases a stored recovery.
LEMMA KeepsRecovery == IInv /\ [Next]_vars => Kept
<1> SUFFICES ASSUME IInv, [Next]_vars PROVE Kept
  OBVIOUS
<1> USE PlanAssumption, TimeAssumption
<1> USE DEF Kept, IInv, TypeOK, RunRow, NoRun, NoLease, Steps, Preparing, Executing, Places,
      Kinds, Statuses, Goto, Done, Abandon, AfterStore, Current, store, local, history,
      Fault, CountDown, RecoverableIn, StoreLatest, AfterWrite, RunInv, CallerInv,
      AttemptInv, RecoverInv, AttemptSteps
<1>0. CASE UNCHANGED vars
  BY <1>0 DEF vars
<1>1. ASSUME NEW c \in Callers, NEW r \in Runs, Apply(c, r) PROVE Kept
  BY <1>1 DEF Apply
<1>2. ASSUME NEW c \in Callers, NEW r \in Runs, Recover(c, r) PROVE Kept
  BY <1>2 DEF Recover
<1>3. ASSUME NEW c \in Callers, Preflight(c) PROVE Kept
  BY <1>3 DEF Preflight
<1>4. ASSUME NEW c \in Callers, OwnPointer(c) PROVE Kept
  BY <1>4 DEF OwnPointer, ReadPointer
<1>5. ASSUME NEW c \in Callers, OwnRun(c) PROVE Kept
  BY <1>5 DEF OwnRun, ReadRun, Reconciled
<1>6. ASSUME NEW c \in Callers, SharedPointer(c) PROVE Kept
  BY <1>6 DEF SharedPointer, ReadPointer
<1>7. ASSUME NEW c \in Callers, SharedRun(c) PROVE Kept
  BY <1>7 DEF SharedRun, ReadRun, Reconciled
<1>8. ASSUME NEW c \in Callers, RecordAttempt(c) PROVE Kept
  <2>1. Recorded(c)
    BY <1>8, RecordedRun
  <2>2. UNCHANGED run \/ \E row : run' = [run EXCEPT ![subject[c]] = row] /\ ~run[subject[c]].exists
    BY <2>1 DEF Recorded
  <2>3. subject[c] \in Runs
    BY <2>1 DEF Recorded
  <2>4. ASSUME NEW x \in Runs, run[x].check # None PROVE run'[x] = run[x]
    <3>1. run[x].exists
      BY <2>4
    <3> QED
      BY <2>2, <2>3, <3>1
  <2> QED
    BY <2>4
<1>9. ASSUME NEW c \in Callers, PutOwnPointer(c) PROVE Kept
  BY <1>9 DEF PutOwnPointer, PutPointer
<1>10. ASSUME NEW c \in Callers, PutSharedPointer(c) PROVE Kept
  BY <1>10 DEF PutSharedPointer, PutPointer
<1>11. ASSUME NEW c \in Callers, CheckLease(c) PROVE Kept
  BY <1>11 DEF CheckLease
<1>12. ASSUME NEW c \in Callers, Send(c) PROVE Kept
  BY <1>12 DEF Send
<1>13. ASSUME NEW c \in Callers, Fails(c) PROVE Kept
  BY <1>13 DEF Fails
<1>14. ASSUME NEW c \in Callers, Acknowledged(c) PROVE Kept
  BY <1>14 DEF Acknowledged
<1>15. ASSUME NEW c \in Callers, RecordReceipt(c) PROVE Kept
  BY <1>15 DEF RecordReceipt
<1>16. ASSUME NEW c \in Callers, StoreOutcome(c) PROVE Kept
  BY <1>16 DEF StoreOutcome
<1>17. ASSUME NEW c \in Callers, Release(c) PROVE Kept
  BY <1>17 DEF Release
<1>18. ASSUME NEW c \in Callers, NEW s \in Statuses, Observe(c, s) PROVE Kept
  BY <1>18 DEF Observe, Readable
<1>19. ASSUME NEW c \in Callers, Settle(c) PROVE Kept
  <2>1. None \notin Statuses
    BY PlanAssumption DEF Statuses
  <2> HIDE DEF Statuses
  <2> QED
    BY <1>19, <2>1, JudgedRun DEF Kept
<1>20. ASSUME NEW c \in Callers, StoreFails(c) PROVE Kept
  BY <1>20 DEF StoreFails
<1>21. ASSUME NEW c \in Callers, Crash(c) PROVE Kept
  BY <1>21 DEF Crash
<1>22. CASE Tick
  BY <1>22 DEF Tick
<1> QED
  BY <1>0, <1>1, <1>2, <1>3, <1>4, <1>5, <1>6, <1>7, <1>8, <1>9, <1>10, <1>11, <1>12,
     <1>13, <1>14, <1>15, <1>16, <1>17, <1>18, <1>19, <1>20, <1>21, <1>22 DEF Next,
     CallerStep, PrepareStep, ExecuteStep, RecoverStep

\* An apply that a recovery overtook never erases what the recovery stored.
THEOREM RecoveryNotErasedHolds == Spec => RecoveryNotErased
<1>1. IInv /\ [Next]_vars => [Kept]_vars
  BY KeepsRecovery
<1> QED
  BY <1>1, Invariance, PTL DEF Spec, RecoveryNotErased, Kept

\* Every step leaves a waiting request that is not overdue with no more time
\* than its recovery.
LEMMA PaceStep == IInv /\ IInv' /\ PaceInv /\ [Next]_vars => PaceInv'
<1> SUFFICES ASSUME IInv, IInv', PaceInv, [Next]_vars PROVE PaceInv'
  OBVIOUS
<1> USE PlanAssumption, TimeAssumption
<1> USE DEF IInv, TypeOK, RunRow, NoRun, NoLease, Steps, Preparing, Executing, Places,
      Kinds, Statuses, Goto, Done, Abandon, AfterStore, Current, store, local, history,
      Fault, CountDown, RecoverableIn, StoreLatest, AfterWrite, RunInv, CallerInv,
      AttemptInv, LeaseInv, Exclusive, AttemptSteps, PaceInv
<1>0. CASE UNCHANGED vars
  BY <1>0 DEF vars
<1>1. ASSUME NEW c \in Callers, NEW r \in Runs, Apply(c, r) PROVE PaceInv'
  BY <1>1 DEF Apply
<1>2. ASSUME NEW c \in Callers, NEW r \in Runs, Recover(c, r) PROVE PaceInv'
  BY <1>2 DEF Recover
<1>3. ASSUME NEW c \in Callers, Preflight(c) PROVE PaceInv'
  BY <1>3 DEF Preflight
<1>4. ASSUME NEW c \in Callers, OwnPointer(c) PROVE PaceInv'
  BY <1>4 DEF OwnPointer, ReadPointer
<1>5. ASSUME NEW c \in Callers, OwnRun(c) PROVE PaceInv'
  BY <1>5 DEF OwnRun, ReadRun, Reconciled
<1>6. ASSUME NEW c \in Callers, SharedPointer(c) PROVE PaceInv'
  BY <1>6 DEF SharedPointer, ReadPointer
<1>7. ASSUME NEW c \in Callers, SharedRun(c) PROVE PaceInv'
  BY <1>7 DEF SharedRun, ReadRun, Reconciled
<1>8. ASSUME NEW c \in Callers, RecordAttempt(c) PROVE PaceInv'
  BY <1>8, RecordedRun DEF Recorded
<1>9. ASSUME NEW c \in Callers, PutOwnPointer(c) PROVE PaceInv'
  BY <1>9 DEF PutOwnPointer, PutPointer
<1>10. ASSUME NEW c \in Callers, PutSharedPointer(c) PROVE PaceInv'
  BY <1>10 DEF PutSharedPointer, PutPointer
<1>11. ASSUME NEW c \in Callers, CheckLease(c) PROVE PaceInv'
  BY <1>11 DEF CheckLease
<1>12. ASSUME NEW c \in Callers, Send(c) PROVE PaceInv'
  BY <1>12 DEF Send
<1>13. ASSUME NEW c \in Callers, Fails(c) PROVE PaceInv'
  BY <1>13 DEF Fails
<1>14. ASSUME NEW c \in Callers, Acknowledged(c) PROVE PaceInv'
  BY <1>14 DEF Acknowledged
<1>15. ASSUME NEW c \in Callers, RecordReceipt(c) PROVE PaceInv'
  BY <1>15 DEF RecordReceipt
<1>16. ASSUME NEW c \in Callers, StoreOutcome(c) PROVE PaceInv'
  BY <1>16 DEF StoreOutcome
<1>17. ASSUME NEW c \in Callers, Release(c) PROVE PaceInv'
  BY <1>17 DEF Release
<1>18. ASSUME NEW c \in Callers, NEW s \in Statuses, Observe(c, s) PROVE PaceInv'
  BY <1>18 DEF Observe, Readable
<1>19. ASSUME NEW c \in Callers, Settle(c) PROVE PaceInv'
  <2>1. \A d \in Callers : /\ pc'[d] = (IF d = c THEN "idle" ELSE pc[d])
                           /\ d # c => subject'[d] = subject[d] /\ left'[d] = left[d]
    BY <1>19 DEF Settle
  <2>2. \A x \in Runs : run'[x].wait = run[x].wait
    BY <1>19, SettledRun
  <2>3. ASSUME NEW d \in Callers, pc'[d] = "pacing", left'[d] > 0 PROVE run'[subject'[d]].wait >= left'[d]
    <3>1. d # c
      BY <2>1, <2>3
    <3>2. pc[d] = "pacing" /\ subject'[d] = subject[d] /\ left'[d] = left[d]
      BY <2>1, <2>3, <3>1
    <3>3. subject[d] \in Runs /\ run[subject[d]].wait >= left[d]
      BY <3>2
    <3> QED
      BY <2>2, <3>2, <3>3
  <2> QED
    BY <2>3
<1>20. ASSUME NEW c \in Callers, StoreFails(c) PROVE PaceInv'
  BY <1>20 DEF StoreFails
<1>21. ASSUME NEW c \in Callers, Crash(c) PROVE PaceInv'
  BY <1>21 DEF Crash
<1>22. CASE Tick
  <2>1. ASSUME NEW d \in Callers, pc'[d] = "pacing", left'[d] > 0 PROVE run'[subject'[d]].wait >= left'[d]
    <3>0. left'[d] = CountDown(left[d]) /\ left[d] \in Nat
      BY <1>22 DEF Tick
    <3>1. pc[d] = "pacing" /\ subject'[d] = subject[d] /\ subject[d] \in Runs /\ left[d] > 0
      BY <1>22, <2>1, <3>0 DEF Tick
    <3>2. run[subject[d]].wait >= left[d] /\ run[subject[d]].wait \in Nat /\ left[d] \in Nat
      BY <3>1
    <3>3. run[subject[d]] \in RunRow
      BY <3>1
    <3>4. run'[subject[d]] = [run[subject[d]] EXCEPT !.wait = CountDown(run[subject[d]].wait)]
      BY <1>22, <3>1 DEF Tick
    <3>5. run'[subject[d]].wait = CountDown(run[subject[d]].wait)
      BY <3>3, <3>4
    <3> QED
      BY <2>1, <3>0, <3>1, <3>2, <3>5
  <2> QED
    BY <2>1
<1> QED
  BY <1>0, <1>1, <1>2, <1>3, <1>4, <1>5, <1>6, <1>7, <1>8, <1>9, <1>10, <1>11, <1>12,
     <1>13, <1>14, <1>15, <1>16, <1>17, <1>18, <1>19, <1>20, <1>21, <1>22 DEF Next,
     CallerStep, PrepareStep, ExecuteStep, RecoverStep

\* No step checks a request of a judged attempt, or sends one that is not overdue.
LEMMA SendStep == IInv /\ PaceInv /\ [Next]_vars => NoLateSend
<1> SUFFICES ASSUME IInv, PaceInv, [Next]_vars PROVE NoLateSend
  OBVIOUS
<1> USE PlanAssumption, TimeAssumption
<1> USE DEF NoLateSend, IInv, TypeOK, RunRow, NoRun, NoLease, Steps, Preparing, Executing, Places,
      Kinds, Statuses, Goto, Done, Abandon, AfterStore, Current, store, local, history,
      Fault, CountDown, RecoverableIn, StoreLatest, AfterWrite, RunInv, CallerInv,
      PaceInv, LeaseInv, AttemptSteps, Checks, Sends, Overdue
<1>0. CASE UNCHANGED vars
  BY <1>0 DEF vars
<1>1. ASSUME NEW c \in Callers, NEW r \in Runs, Apply(c, r) PROVE NoLateSend
  BY <1>1 DEF Apply
<1>2. ASSUME NEW c \in Callers, NEW r \in Runs, Recover(c, r) PROVE NoLateSend
  BY <1>2 DEF Recover
<1>3. ASSUME NEW c \in Callers, Preflight(c) PROVE NoLateSend
  BY <1>3 DEF Preflight
<1>4. ASSUME NEW c \in Callers, OwnPointer(c) PROVE NoLateSend
  BY <1>4 DEF OwnPointer, ReadPointer
<1>5. ASSUME NEW c \in Callers, OwnRun(c) PROVE NoLateSend
  BY <1>5 DEF OwnRun, ReadRun, Reconciled
<1>6. ASSUME NEW c \in Callers, SharedPointer(c) PROVE NoLateSend
  BY <1>6 DEF SharedPointer, ReadPointer
<1>7. ASSUME NEW c \in Callers, SharedRun(c) PROVE NoLateSend
  BY <1>7 DEF SharedRun, ReadRun, Reconciled
<1>8. ASSUME NEW c \in Callers, RecordAttempt(c) PROVE NoLateSend
  BY <1>8, RecordedRun DEF Recorded
<1>9. ASSUME NEW c \in Callers, PutOwnPointer(c) PROVE NoLateSend
  BY <1>9 DEF PutOwnPointer, PutPointer
<1>10. ASSUME NEW c \in Callers, PutSharedPointer(c) PROVE NoLateSend
  BY <1>10 DEF PutSharedPointer, PutPointer
<1>11. ASSUME NEW c \in Callers, CheckLease(c) PROVE NoLateSend
  BY <1>11 DEF CheckLease
<1>12. ASSUME NEW c \in Callers, Send(c) PROVE NoLateSend
  BY <1>12 DEF Send
<1>13. ASSUME NEW c \in Callers, Fails(c) PROVE NoLateSend
  BY <1>13 DEF Fails
<1>14. ASSUME NEW c \in Callers, Acknowledged(c) PROVE NoLateSend
  BY <1>14 DEF Acknowledged
<1>15. ASSUME NEW c \in Callers, RecordReceipt(c) PROVE NoLateSend
  BY <1>15 DEF RecordReceipt
<1>16. ASSUME NEW c \in Callers, StoreOutcome(c) PROVE NoLateSend
  BY <1>16 DEF StoreOutcome
<1>17. ASSUME NEW c \in Callers, Release(c) PROVE NoLateSend
  BY <1>17 DEF Release
<1>18. ASSUME NEW c \in Callers, NEW s \in Statuses, Observe(c, s) PROVE NoLateSend
  BY <1>18 DEF Observe, Readable
<1>19. ASSUME NEW c \in Callers, Settle(c) PROVE NoLateSend
  BY <1>19 DEF Settle
<1>20. ASSUME NEW c \in Callers, StoreFails(c) PROVE NoLateSend
  BY <1>20 DEF StoreFails
<1>21. ASSUME NEW c \in Callers, Crash(c) PROVE NoLateSend
  BY <1>21 DEF Crash
<1>22. CASE Tick
  BY <1>22 DEF Tick
<1> QED
  BY <1>0, <1>1, <1>2, <1>3, <1>4, <1>5, <1>6, <1>7, <1>8, <1>9, <1>10, <1>11, <1>12,
     <1>13, <1>14, <1>15, <1>16, <1>17, <1>18, <1>19, <1>20, <1>21, <1>22 DEF Next,
     CallerStep, PrepareStep, ExecuteStep, RecoverStep

\* No step takes the lease from a call that prepares.
LEMMA PrepareInvStep ==
  ASSUME Prompt
  PROVE  IInv /\ PrepareInv /\ [Next]_vars => PrepareInv'
<1> SUFFICES ASSUME IInv, PrepareInv, [Next]_vars PROVE PrepareInv'
  OBVIOUS
<1> USE PlanAssumption, TimeAssumption
<1> USE DEF IInv, TypeOK, RunRow, NoRun, NoLease, Steps, Preparing, Executing, Places,
      Kinds, Statuses, Goto, Done, Abandon, AfterStore, Current, store, local, history,
      Fault, CountDown, RecoverableIn, StoreLatest, AfterWrite, PrepareInv
<1>0. CASE UNCHANGED vars
  BY <1>0 DEF vars
<1>1. ASSUME NEW c \in Callers, NEW r \in Runs, Apply(c, r) PROVE PrepareInv'
  BY <1>1 DEF Apply
<1>2. ASSUME NEW c \in Callers, NEW r \in Runs, Recover(c, r) PROVE PrepareInv'
  BY <1>2 DEF Recover
<1>3. ASSUME NEW c \in Callers, Preflight(c) PROVE PrepareInv'
  BY <1>3 DEF Preflight
<1>4. ASSUME NEW c \in Callers, OwnPointer(c) PROVE PrepareInv'
  BY <1>4 DEF OwnPointer, ReadPointer
<1>5. ASSUME NEW c \in Callers, OwnRun(c) PROVE PrepareInv'
  BY <1>5 DEF OwnRun, ReadRun, Reconciled
<1>6. ASSUME NEW c \in Callers, SharedPointer(c) PROVE PrepareInv'
  BY <1>6 DEF SharedPointer, ReadPointer
<1>7. ASSUME NEW c \in Callers, SharedRun(c) PROVE PrepareInv'
  BY <1>7 DEF SharedRun, ReadRun, Reconciled
<1>8. ASSUME NEW c \in Callers, RecordAttempt(c) PROVE PrepareInv'
  BY <1>8, RecordedRun DEF Recorded
<1>9. ASSUME NEW c \in Callers, PutOwnPointer(c) PROVE PrepareInv'
  BY <1>9 DEF PutOwnPointer, PutPointer
<1>10. ASSUME NEW c \in Callers, PutSharedPointer(c) PROVE PrepareInv'
  BY <1>10 DEF PutSharedPointer, PutPointer
<1>11. ASSUME NEW c \in Callers, CheckLease(c) PROVE PrepareInv'
  BY <1>11 DEF CheckLease
<1>12. ASSUME NEW c \in Callers, Send(c) PROVE PrepareInv'
  BY <1>12 DEF Send
<1>13. ASSUME NEW c \in Callers, Fails(c) PROVE PrepareInv'
  BY <1>13 DEF Fails
<1>14. ASSUME NEW c \in Callers, Acknowledged(c) PROVE PrepareInv'
  BY <1>14 DEF Acknowledged
<1>15. ASSUME NEW c \in Callers, RecordReceipt(c) PROVE PrepareInv'
  BY <1>15 DEF RecordReceipt
<1>16. ASSUME NEW c \in Callers, StoreOutcome(c) PROVE PrepareInv'
  BY <1>16 DEF StoreOutcome
<1>17. ASSUME NEW c \in Callers, Release(c) PROVE PrepareInv'
  BY <1>17 DEF Release
<1>18. ASSUME NEW c \in Callers, NEW s \in Statuses, Observe(c, s) PROVE PrepareInv'
  BY <1>18 DEF Observe, Readable
<1>19. ASSUME NEW c \in Callers, Settle(c) PROVE PrepareInv'
  BY <1>19 DEF Settle
<1>20. ASSUME NEW c \in Callers, StoreFails(c) PROVE PrepareInv'
  BY <1>20 DEF StoreFails
<1>21. ASSUME NEW c \in Callers, Crash(c) PROVE PrepareInv'
  BY <1>21 DEF Crash
<1>22. CASE Tick
  BY <1>22 DEF Tick
<1> QED
  BY <1>0, <1>1, <1>2, <1>3, <1>4, <1>5, <1>6, <1>7, <1>8, <1>9, <1>10, <1>11, <1>12,
     <1>13, <1>14, <1>15, <1>16, <1>17, <1>18, <1>19, <1>20, <1>21, <1>22 DEF Next,
     CallerStep, PrepareStep, ExecuteStep, RecoverStep

\* Once a recovery has judged an attempt, no request of it is checked any more,
\* and one that was checked before leaves only if it waited longer than the
\* margin: the attempt is judged only after its lease and the margin
\* (apply's recoverAfter, assertCurrent before each write).
THEOREM NoWriteAfterRecoveryHolds == Spec => NoWriteAfterRecovery
<1>1. Init => PaceInv
  BY DEF Init, PaceInv
<1>2. IInv /\ IInv' /\ PaceInv /\ [Next]_vars => PaceInv'
  BY PaceStep
<1>3. IInv /\ PaceInv /\ [Next]_vars => [NoLateSend]_vars
  BY SendStep
<1> QED
  BY <1>1, <1>2, <1>3, Invariance, PTL DEF Spec, NoWriteAfterRecovery, NoLateSend

-----------------------------------------------------------------------------
\* The pointers keep a container closed.

LEMMA PointerStep == IInv /\ PrepareInv /\ PointerInv /\ [Next]_vars => PointerInv'
<1> SUFFICES ASSUME IInv, PrepareInv, PointerInv, [Next]_vars PROVE PointerInv'
  OBVIOUS
<1> USE PlanAssumption, TimeAssumption
<1> USE DEF IInv, TypeOK, RunRow, NoRun, NoLease, Steps, Preparing, Executing, Places,
      Kinds, Statuses, Goto, Done, Abandon, AfterStore, Current, store, local, history,
      Fault, CountDown, RecoverableIn, StoreLatest, AfterWrite, RunInv, CallerInv,
      PrepareInv, PointerInv, Executed
<1>0. CASE UNCHANGED vars
  BY <1>0 DEF vars
<1>1. ASSUME NEW c \in Callers, NEW r \in Runs, Apply(c, r) PROVE PointerInv'
  BY <1>1 DEF Apply
<1>2. ASSUME NEW c \in Callers, NEW r \in Runs, Recover(c, r) PROVE PointerInv'
  BY <1>2 DEF Recover
<1>3. ASSUME NEW c \in Callers, Preflight(c) PROVE PointerInv'
  BY <1>3 DEF Preflight
<1>4. ASSUME NEW c \in Callers, OwnPointer(c) PROVE PointerInv'
  BY <1>4 DEF OwnPointer, ReadPointer
<1>5. ASSUME NEW c \in Callers, OwnRun(c) PROVE PointerInv'
  BY <1>5 DEF OwnRun, ReadRun, Reconciled
<1>6. ASSUME NEW c \in Callers, SharedPointer(c) PROVE PointerInv'
  BY <1>6 DEF SharedPointer, ReadPointer
<1>7. ASSUME NEW c \in Callers, SharedRun(c) PROVE PointerInv'
  BY <1>7 DEF SharedRun, ReadRun, Reconciled
<1>8. ASSUME NEW c \in Callers, RecordAttempt(c) PROVE PointerInv'
  BY <1>8, RecordedRun DEF Recorded
<1>9. ASSUME NEW c \in Callers, PutOwnPointer(c) PROVE PointerInv'
  BY <1>9 DEF PutOwnPointer, PutPointer
<1>10. ASSUME NEW c \in Callers, PutSharedPointer(c) PROVE PointerInv'
  BY <1>10 DEF PutSharedPointer, PutPointer
<1>11. ASSUME NEW c \in Callers, CheckLease(c) PROVE PointerInv'
  BY <1>11 DEF CheckLease
<1>12. ASSUME NEW c \in Callers, Send(c) PROVE PointerInv'
  BY <1>12 DEF Send
<1>13. ASSUME NEW c \in Callers, Fails(c) PROVE PointerInv'
  BY <1>13 DEF Fails
<1>14. ASSUME NEW c \in Callers, Acknowledged(c) PROVE PointerInv'
  BY <1>14 DEF Acknowledged
<1>15. ASSUME NEW c \in Callers, RecordReceipt(c) PROVE PointerInv'
  BY <1>15 DEF RecordReceipt
<1>16. ASSUME NEW c \in Callers, StoreOutcome(c) PROVE PointerInv'
  BY <1>16 DEF StoreOutcome
<1>17. ASSUME NEW c \in Callers, Release(c) PROVE PointerInv'
  BY <1>17 DEF Release
<1>18. ASSUME NEW c \in Callers, NEW s \in Statuses, Observe(c, s) PROVE PointerInv'
  BY <1>18 DEF Observe, Readable
<1>19. ASSUME NEW c \in Callers, Settle(c) PROVE PointerInv'
  <2>1. UNCHANGED <<pointer, writes>> /\ observed \subseteq observed'
    BY <1>19 DEF Settle
  <2>2. \A d \in Callers : pc'[d] = (IF d = c THEN "idle" ELSE pc[d])
    BY <1>19 DEF Settle
  <2>3. \A d \in Callers : d # c => subject'[d] = subject[d] /\ prior'[d] = prior[d]
    BY <1>19 DEF Settle
  <2>4. \A r \in Runs : Executed(r)' => Executed(r)
    BY <2>1, <2>2, <2>3
  <2> QED
    BY <2>1, <2>2, <2>3, <2>4 DEF PointerInv
<1>20. ASSUME NEW c \in Callers, StoreFails(c) PROVE PointerInv'
  BY <1>20 DEF StoreFails
<1>21. ASSUME NEW c \in Callers, Crash(c) PROVE PointerInv'
  BY <1>21 DEF Crash
<1>22. CASE Tick
  BY <1>22 DEF Tick
<1> QED
  BY <1>0, <1>1, <1>2, <1>3, <1>4, <1>5, <1>6, <1>7, <1>8, <1>9, <1>10, <1>11, <1>12,
     <1>13, <1>14, <1>15, <1>16, <1>17, <1>18, <1>19, <1>20, <1>21, <1>22 DEF Next,
     CallerStep, PrepareStep, ExecuteStep, RecoverStep

\* No step sends a request beside an attempt that was not inspected.
LEMMA AwaitStep == IInv /\ PaceInv /\ PointerInv /\ [Next]_vars => AwaitedSend
<1> SUFFICES ASSUME IInv, PaceInv, PointerInv, [Next]_vars PROVE AwaitedSend
  OBVIOUS
<1> USE PlanAssumption, TimeAssumption
<1> USE DEF AwaitedSend, IInv, TypeOK, RunRow, NoRun, NoLease, Steps, Preparing, Executing, Places,
      Kinds, Statuses, Goto, Done, Abandon, AfterStore, Current, store, local, history,
      Fault, CountDown, RecoverableIn, StoreLatest, AfterWrite, RunInv, CallerInv,
      PaceInv, PointerInv, Executed, Sends, Overdue
<1>0. CASE UNCHANGED vars
  BY <1>0 DEF vars
<1>1. ASSUME NEW c \in Callers, NEW r \in Runs, Apply(c, r) PROVE AwaitedSend
  BY <1>1 DEF Apply
<1>2. ASSUME NEW c \in Callers, NEW r \in Runs, Recover(c, r) PROVE AwaitedSend
  BY <1>2 DEF Recover
<1>3. ASSUME NEW c \in Callers, Preflight(c) PROVE AwaitedSend
  BY <1>3 DEF Preflight
<1>4. ASSUME NEW c \in Callers, OwnPointer(c) PROVE AwaitedSend
  BY <1>4 DEF OwnPointer, ReadPointer
<1>5. ASSUME NEW c \in Callers, OwnRun(c) PROVE AwaitedSend
  BY <1>5 DEF OwnRun, ReadRun, Reconciled
<1>6. ASSUME NEW c \in Callers, SharedPointer(c) PROVE AwaitedSend
  BY <1>6 DEF SharedPointer, ReadPointer
<1>7. ASSUME NEW c \in Callers, SharedRun(c) PROVE AwaitedSend
  BY <1>7 DEF SharedRun, ReadRun, Reconciled
<1>8. ASSUME NEW c \in Callers, RecordAttempt(c) PROVE AwaitedSend
  BY <1>8, RecordedRun DEF Recorded
<1>9. ASSUME NEW c \in Callers, PutOwnPointer(c) PROVE AwaitedSend
  BY <1>9 DEF PutOwnPointer, PutPointer
<1>10. ASSUME NEW c \in Callers, PutSharedPointer(c) PROVE AwaitedSend
  BY <1>10 DEF PutSharedPointer, PutPointer
<1>11. ASSUME NEW c \in Callers, CheckLease(c) PROVE AwaitedSend
  BY <1>11 DEF CheckLease
<1>12. ASSUME NEW c \in Callers, Send(c) PROVE AwaitedSend
  BY <1>12 DEF Send
<1>13. ASSUME NEW c \in Callers, Fails(c) PROVE AwaitedSend
  BY <1>13 DEF Fails
<1>14. ASSUME NEW c \in Callers, Acknowledged(c) PROVE AwaitedSend
  BY <1>14 DEF Acknowledged
<1>15. ASSUME NEW c \in Callers, RecordReceipt(c) PROVE AwaitedSend
  BY <1>15 DEF RecordReceipt
<1>16. ASSUME NEW c \in Callers, StoreOutcome(c) PROVE AwaitedSend
  BY <1>16 DEF StoreOutcome
<1>17. ASSUME NEW c \in Callers, Release(c) PROVE AwaitedSend
  BY <1>17 DEF Release
<1>18. ASSUME NEW c \in Callers, NEW s \in Statuses, Observe(c, s) PROVE AwaitedSend
  BY <1>18 DEF Observe, Readable
<1>19. ASSUME NEW c \in Callers, Settle(c) PROVE AwaitedSend
  BY <1>19 DEF Settle
<1>20. ASSUME NEW c \in Callers, StoreFails(c) PROVE AwaitedSend
  BY <1>20 DEF StoreFails
<1>21. ASSUME NEW c \in Callers, Crash(c) PROVE AwaitedSend
  BY <1>21 DEF Crash
<1>22. CASE Tick
  BY <1>22 DEF Tick
<1> QED
  BY <1>0, <1>1, <1>2, <1>3, <1>4, <1>5, <1>6, <1>7, <1>8, <1>9, <1>10, <1>11, <1>12,
     <1>13, <1>14, <1>15, <1>16, <1>17, <1>18, <1>19, <1>20, <1>21, <1>22 DEF Next,
     CallerStep, PrepareStep, ExecuteStep, RecoverStep

\* A plan sends nothing before what every other plan sent has been inspected,
\* but for a request so late that its own attempt was judged before; given that
\* no apply is still before its first write when its lease ends.
THEOREM WritesAwaitRecoveryHolds ==
  ASSUME Prompt
  PROVE  Spec => WritesAwaitRecovery
<1>1. Init => PaceInv /\ PrepareInv /\ PointerInv
  BY PlanAssumption DEF Init, PaceInv, PrepareInv, PointerInv, Executed, Preparing
<1>2. IInv /\ IInv' /\ PaceInv /\ [Next]_vars => PaceInv'
  BY PaceStep
<1>3. IInv /\ PrepareInv /\ [Next]_vars => PrepareInv'
  BY PrepareInvStep
<1>4. IInv /\ PrepareInv /\ PointerInv /\ [Next]_vars => PointerInv'
  BY PointerStep
<1>5. IInv /\ PaceInv /\ PointerInv /\ [Next]_vars => [AwaitedSend]_vars
  BY AwaitStep
<1> QED
  BY <1>1, <1>2, <1>3, <1>4, <1>5, Invariance, PTL DEF Spec, WritesAwaitRecovery, AwaitedSend

=============================================================================
