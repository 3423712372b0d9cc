------------------------ MODULE CampaignPauseProofs -------------------------
(***************************************************************************)
(* The safety of CampaignPause for any callers, runs, answers, lease,      *)
(* delay and bounds.  The inductive invariant has a part per run, a part   *)
(* per caller and two parts that relate callers to one another:            *)
(*   - RunInv relates a run to its receipt and to what has been asked of   *)
(*     the provider;                                                       *)
(*   - CallerInv says what a caller may rely on at each of its steps: what *)
(*     it has read is still so as long as its read is the latest, and its  *)
(*     lease leaves a recovery no time to begin;                           *)
(*   - Exclusive says that an attempt has one caller;                      *)
(*   - GuardCoversRequest is the property itself.                          *)
(***************************************************************************)
EXTENDS CampaignPause, TLAPS

AttemptSteps  == {"guarding", "sending", "inFlight", "recording", "applying", "storing"}
BeforeReceipt == {"guarding", "sending", "inFlight", "recording"}
RecoverSteps  == {"recovering", "recoverRead", "recoverStore"}
Untried       == {"absent", "planned", "approved"}

RunInv(r) ==
    /\ run[r].attempt <=> run[r].phase \notin Untried
    /\ ~run[r].attempt => run[r].output = None /\ receipt[r] = None /\ asked[r] = 0
    /\ run[r].output # None =>
          run[r].output = IF receipt[r] = "recovery" THEN "unknown" ELSE receipt[r]
    /\ r \in observed => run[r].output # None
    /\ receipt[r] = "recovery" => run[r].wait = 0
    /\ asked[r] = 0 => answered[r] = None

\* What a caller has read is so while its read is the latest.
FreshInv(c) ==
    /\ pc[c] \in {"checkingGuard", "starting"} /\ "run" \in fresh[c] =>
          Row(c).phase = "approved"
    /\ pc[c] = "approvalStore" /\ "run" \in fresh[c] => Row(c).phase \in Untried
    /\ pc[c] \in {"storing", "recoverStore"} /\ "run" \in fresh[c] => Row(c).output = None
    /\ pc[c] \in {"starting", "guarding"} /\ "guard" \in fresh[c] => ~guard.open
    /\ pc[c] = "guardClose" /\ "guard" \in fresh[c] => guard.run = subject[c]

\* The attempt of a caller, its request and its receipt.
AttemptInv(c) ==
    /\ pc[c] \in AttemptSteps => Row(c).attempt
    /\ pc[c] \in {"guarding", "sending"} => asked[subject[c]] = 0
    /\ pc[c] = "inFlight" => asked[subject[c]] > 0 /\ answered[subject[c]] = None
    /\ pc[c] \in {"sending", "inFlight"} =>
          guard = [run |-> subject[c], open |-> TRUE] \/ subject[c] \in observed
    /\ pc[c] \in {"recording", "applying", "storing"} =>
          outcome[c] \in Outcomes /\ outcome[c] \in {answered[subject[c]], "unknown"}
    /\ pc[c] \in BeforeReceipt => receipt[subject[c]] \in {None, "recovery"}
    /\ pc[c] \in {"applying", "storing"} => receipt[subject[c]] = outcome[c]

\* Recovery waits for the lease and the margin, a request for neither.
TimeInv(c) ==
    /\ pc[c] \in {"guarding", "sending"} /\ Current(c) => Row(c).wait >= lease.left + Margin
    /\ pc[c] = "inFlight" => Row(c).wait > left[c]
    /\ pc[c] \in RecoverSteps => Row(c).attempt /\ Row(c).wait = 0

\* Recovery and verification.
VerifyInv(c) ==
    /\ pc[c] \in {"recoverRead", "recoverStore"} => receipt[subject[c]] = "recovery"
    /\ pc[c] \in {"observing", "observedRead", "observedStore"} => Row(c).output # None
    /\ pc[c] \in {"observedRead", "observedStore"} => outcome[c] \in Statuses
    /\ pc[c] \in {"guardRead", "guardClose"} => subject[c] \in observed

CallerInv(c) ==
    /\ pc[c] # "idle" => subject[c] \in Runs
    /\ FreshInv(c)
    /\ AttemptInv(c)
    /\ TimeInv(c)
    /\ VerifyInv(c)

Exclusive ==
    \A c, d \in Callers :
        c # d /\ pc[c] \in AttemptSteps /\ pc[d] \in AttemptSteps => subject[c] # subject[d]

IInv ==
    /\ TypeOK
    /\ \A r \in Runs : RunInv(r)
    /\ \A c \in Callers : CallerInv(c)
    /\ Exclusive
    /\ GuardCoversRequest

-----------------------------------------------------------------------------
(***************************************************************************)
(* The updates of one run.                                                 *)
(***************************************************************************)

LEMMA RowFields ==
  ASSUME NEW row \in RunRow
  PROVE  /\ row.phase \in Phases
         /\ row.approval \in Nat
         /\ row.attempt \in BOOLEAN
         /\ row.wait \in Nat
         /\ row.output \in Outcomes \cup {None}
         /\ row.opens \in Nat
  BY DEF RunRow

LEMMA NoRunType ==
  LET row == [NoRun EXCEPT !.phase = "planned"] IN
  /\ NoRun \in RunRow
  /\ row \in RunRow
  /\ row.phase = "planned" /\ ~row.attempt /\ row.output = None /\ row.wait = 0
  BY DEF NoRun, RunRow, Phases

Attempted(row, w) == [row EXCEPT !.phase = "verifying", !.attempt = TRUE, !.wait = w]

LEMMA AttemptedRow ==
  ASSUME NEW row \in RunRow, NEW w \in Nat
  PROVE  /\ Attempted(row, w) \in RunRow
         /\ Attempted(row, w).phase = "verifying"
         /\ Attempted(row, w).attempt
         /\ Attempted(row, w).wait = w
         /\ Attempted(row, w).output = row.output
  BY DEF Attempted, RunRow, Phases

Approved(row, n) == [row EXCEPT !.phase = "approved", !.approval = n]

LEMMA ApprovedRow ==
  ASSUME NEW row \in RunRow, NEW n \in Nat
  PROVE  /\ Approved(row, n) \in RunRow
         /\ Approved(row, n).phase = "approved"
         /\ Approved(row, n).attempt = row.attempt
         /\ Approved(row, n).wait = row.wait
         /\ Approved(row, n).output = row.output
  BY DEF Approved, RunRow, Phases

LEMMA PhaseOfType == \A o \in Outcomes : PhaseOf(o) \in Phases \ Untried
  BY ValueAssumption DEF Outcomes, PhaseOf, Phases, Untried

LEMMA ReportedRow ==
  ASSUME NEW row \in RunRow, NEW o \in Outcomes, NEW n \in Nat
  PROVE  /\ Reported(row, o, n) \in RunRow
         /\ Reported(row, o, n).phase \notin Untried
         /\ Reported(row, o, n).attempt = row.attempt
         /\ Reported(row, o, n).wait = row.wait
         /\ Reported(row, o, n).output = o
  BY PhaseOfType DEF Reported, RunRow

Moved(row, p) == [row EXCEPT !.phase = p]

LEMMA MovedRow ==
  ASSUME NEW row \in RunRow, NEW p \in Phases
  PROVE  /\ Moved(row, p) \in RunRow
         /\ Moved(row, p).phase = p
         /\ Moved(row, p).attempt = row.attempt
         /\ Moved(row, p).wait = row.wait
         /\ Moved(row, p).output = row.output
  BY DEF Moved, RunRow

LEMMA CountDownType == \A n \in Nat :
    /\ CountDown(n) \in Nat
    /\ n = 0 => CountDown(n) = 0
    /\ n > 0 => CountDown(n) = n - 1
  BY DEF CountDown

Counted(row, w, o) == [row EXCEPT !.wait = w, !.opens = o]
Ticked(row) == Counted(row, CountDown(row.wait), CountDown(row.opens))

LEMMA CountedRow ==
  ASSUME NEW row \in RunRow, NEW w \in Nat, NEW o \in Nat
  PROVE  /\ Counted(row, w, o) \in RunRow
         /\ Counted(row, w, o).phase = row.phase
         /\ Counted(row, w, o).attempt = row.attempt
         /\ Counted(row, w, o).output = row.output
         /\ Counted(row, w, o).wait = w
  BY DEF Counted, RunRow

LEMMA TickedRow ==
  ASSUME NEW row \in RunRow
  PROVE  /\ Ticked(row) \in RunRow
         /\ Ticked(row).phase = row.phase
         /\ Ticked(row).attempt = row.attempt
         /\ Ticked(row).output = row.output
         /\ Ticked(row).wait = CountDown(row.wait)
  <1>1. CountDown(row.wait) \in Nat /\ CountDown(row.opens) \in Nat
    BY CountDownType, RowFields
  <1> QED
    BY <1>1, CountedRow DEF Ticked

LEMMA WaitType == \A n \in Nat : RecoverableIn(n) \in Nat
  BY TimeAssumption DEF RecoverableIn

LEMMA ConcludedType == \A s \in Statuses : Concluded(s) \subseteq Phases \ Untried
  BY DEF Statuses, Decisive, Concluded, Phases, Untried

-----------------------------------------------------------------------------
(***************************************************************************)
(* The steps of one caller leave the calls of the others as they are, but  *)
(* for what these have read of a record it stores.                         *)
(***************************************************************************)
Kept(d) ==
    /\ pc'[d] = pc[d] /\ subject'[d] = subject[d] /\ ticket'[d] = ticket[d]
    /\ outcome'[d] = outcome[d] /\ left'[d] = left[d]
    /\ fresh'[d] \subseteq fresh[d]

Bystanders(c) == \A d \in Callers \ {c} : Kept(d)

Locals ==
    /\ pc \in [Callers -> Steps]
    /\ subject \in [Callers -> Runs \cup {None}]
    /\ fresh \in [Callers -> SUBSET {"run", "guard"}]
    /\ ticket \in [Callers -> Nat]
    /\ outcome \in [Callers -> Outcomes \cup Statuses \cup {None}]
    /\ left \in [Callers -> Nat]

LEMMA GotoStep ==
  ASSUME Locals, NEW c \in Callers, NEW step \in Steps, Goto(c, step)
  PROVE  /\ pc' \in [Callers -> Steps]
         /\ pc'[c] = step
         /\ \A d \in Callers \ {c} : pc'[d] = pc[d]
  BY DEF Goto, Locals

\* A call that ends.
LEMMA DoneStep ==
  ASSUME Locals, NEW c \in Callers,
         NEW reads \in [Callers -> SUBSET {"run", "guard"}],
         \A d \in Callers : reads[d] \subseteq fresh[d],
         Done(c, reads)
  PROVE  /\ Locals'
         /\ Bystanders(c)
         /\ pc'[c] = "idle"
         /\ \A d \in Callers \ {c} : fresh'[d] = reads[d]
  <1>1. "idle" \in Steps
    BY DEF Steps
  <1>2. pc' \in [Callers -> Steps] /\ pc'[c] = "idle"
        /\ \A d \in Callers \ {c} : pc'[d] = pc[d]
    BY <1>1, GotoStep DEF Done
  <1>3. Locals'
    BY <1>2 DEF Done, Locals
  <1> QED
    BY <1>2, <1>3 DEF Done, Locals, Bystanders, Kept

\* A throw into the finally of apply.
LEMMA AbandonStep ==
  ASSUME Locals, NEW c \in Callers, Abandon(c)
  PROVE  /\ Locals'
         /\ Bystanders(c)
         /\ pc'[c] = "releasing"
         /\ subject' = subject
  <1>1. "releasing" \in Steps
    BY DEF Steps
  <1> QED
    BY <1>1, GotoStep DEF Abandon, Locals, Bystanders, Kept

\* A step that reads record, or none.
LEMMA ReadStep ==
  ASSUME Locals, NEW c \in Callers, NEW step \in Steps, Goto(c, step),
         NEW record \in {"run", "guard"}, Read(c, record),
         UNCHANGED <<subject, ticket, outcome, left>>
  PROVE  /\ Locals'
         /\ Bystanders(c)
         /\ pc'[c] = step
         /\ fresh'[c] = fresh[c] \cup {record}
  BY GotoStep DEF Read, Locals, Bystanders, Kept

LEMMA AfterRunType ==
  ASSUME Locals, NEW c \in Callers
  PROVE  /\ AfterRun(c) \in [Callers -> SUBSET {"run", "guard"}]
         /\ \A d \in Callers : AfterRun(c)[d] \subseteq fresh[d]
         /\ \A d \in Callers : subject[d] = subject[c] => "run" \notin AfterRun(c)[d]
  BY DEF AfterRun, Locals

LEMMA AfterGuardType ==
  ASSUME Locals
  PROVE  /\ AfterGuard \in [Callers -> SUBSET {"run", "guard"}]
         /\ \A d \in Callers : AfterGuard[d] \subseteq fresh[d]
         /\ \A d \in Callers : "guard" \notin AfterGuard[d]
  BY DEF AfterGuard, Locals

\* What a step of another caller may do to the records a call works with.
Undisturbed(d, r) ==
    /\ "run" \in fresh'[d] => run'[r].phase = run[r].phase /\ run'[r].output = run[r].output
    /\ run[r].attempt => run'[r].attempt /\ run'[r].wait = run[r].wait
    /\ run[r].output # None => run'[r].output # None
    /\ "guard" \in fresh'[d] => guard' = guard
    /\ guard = [run |-> r, open |-> TRUE] => guard' = guard \/ r \in observed'
    /\ observed \subseteq observed'
    /\ pc[d] \in AttemptSteps => asked'[r] = asked[r] /\ answered'[r] = answered[r]
    /\ \/ receipt'[r] = receipt[r]
       \/ receipt[r] = None /\ receipt'[r] = "recovery"
       \/ receipt[r] = None /\ pc[d] \notin BeforeReceipt
    /\ Current(d)' => Current(d) /\ lease'.left = lease.left

LEMMA IdleInv ==
  ASSUME NEW c \in Callers, pc'[c] = "idle"
  PROVE  CallerInv(c)'
  BY DEF CallerInv, FreshInv, AttemptInv, TimeInv, VerifyInv, AttemptSteps,
         BeforeReceipt, RecoverSteps

LEMMA ReleasingInv ==
  ASSUME NEW c \in Callers, pc'[c] \in {"releasing", "locking", "preflight", "attempting",
                                      "approving", "refused", "approvalRead"},
         subject'[c] \in Runs
  PROVE  CallerInv(c)'
  BY DEF CallerInv, FreshInv, AttemptInv, TimeInv, VerifyInv, AttemptSteps,
         BeforeReceipt, RecoverSteps

LEMMA KeptInv ==
  ASSUME NEW d \in Callers, CallerInv(d), Kept(d),
         pc[d] # "idle" => Undisturbed(d, subject[d])
  PROVE  CallerInv(d)'
  <1>1. CASE pc[d] = "idle"
    BY <1>1, IdleInv DEF Kept
  <1>2. CASE pc[d] # "idle"
    <2> USE <1>2 DEF Kept, Row
    <2>1. (pc[d] # "idle" => subject[d] \in Runs)'
      BY DEF CallerInv
    <2>2. FreshInv(d)'
      BY DEF CallerInv, FreshInv, Undisturbed
    <2>3. AttemptInv(d)'
      BY ValueAssumption
      DEF CallerInv, AttemptInv, Undisturbed, AttemptSteps, BeforeReceipt, Outcomes
    <2>4. TimeInv(d)'
      BY DEF CallerInv, TimeInv, AttemptInv, Undisturbed, AttemptSteps, RecoverSteps
    <2>5. VerifyInv(d)'
      BY ValueAssumption DEF CallerInv, VerifyInv, Undisturbed
    <2> QED
      BY <2>1, <2>2, <2>3, <2>4, <2>5 DEF CallerInv
  <1> QED
    BY <1>1, <1>2

Stored ==
    /\ run \in [Runs -> RunRow]
    /\ guard \in [run : Runs \cup {None}, open : BOOLEAN]
    /\ issued \in [Runs -> Nat]
    /\ lapsed \in [Runs -> SUBSET Nat]
    /\ receipt \in [Runs -> Receipts]
    /\ lease \in [owner : Callers \cup {None}, left : Nat]
    /\ asked \in [Runs -> Nat]
    /\ answered \in [Runs -> Outcomes \cup {None}]
    /\ observed \in SUBSET Runs
    /\ faults \in Nat

LEMMA TypeParts == TypeOK <=> Locals /\ Stored
  BY DEF TypeOK, Locals, Stored

LEMMA TypePartsNext == TypeOK' <=> Locals' /\ Stored'
  BY DEF TypeOK, Locals, Stored

\* A step of one caller that keeps its part of the invariant, and disturbs no
\* other caller, keeps the invariant.
LEMMA Compose ==
  ASSUME IInv, NEW c \in Callers,
         Locals', Stored', Bystanders(c),
         \A r \in Runs : RunInv(r)',
         CallerInv(c)',
         \A d \in Callers \ {c} : pc[d] # "idle" => Undisturbed(d, subject[d]),
         pc'[c] \in AttemptSteps =>
            \/ pc[c] \in AttemptSteps /\ subject'[c] = subject[c]
            \/ ~run[subject'[c]].attempt,
         GuardCoversRequest'
  PROVE  IInv'
  <1>1. \A d \in Callers : CallerInv(d)'
    BY KeptInv DEF IInv, Bystanders
  <1>2. \A d \in Callers \ {c} : pc[d] \in AttemptSteps => run[subject[d]].attempt
    BY DEF IInv, CallerInv, AttemptInv, Row
  <1>3. Exclusive'
    <2> SUFFICES ASSUME NEW a \in Callers, NEW b \in Callers, a # b,
                        pc'[a] \in AttemptSteps, pc'[b] \in AttemptSteps
                 PROVE  subject'[a] # subject'[b]
      BY DEF Exclusive
    <2>1. CASE a # c /\ b # c
      BY <2>1 DEF IInv, Exclusive, Bystanders, Kept
    <2>2. CASE a = c
      BY <1>2, <2>2 DEF IInv, Exclusive, Bystanders, Kept
    <2>3. CASE b = c
      BY <1>2, <2>3 DEF IInv, Exclusive, Bystanders, Kept
    <2> QED
      BY <2>1, <2>2, <2>3
  <1> QED
    BY <1>1, <1>3, TypePartsNext DEF IInv

\* A step that stores nothing.
LEMMA Control ==
  ASSUME IInv, NEW c \in Callers,
         Locals', Stored', Bystanders(c),
         UNCHANGED <<run, guard, receipt, lease, asked, answered, observed>>,
         CallerInv(c)',
         pc'[c] \in AttemptSteps => pc[c] \in AttemptSteps /\ subject'[c] = subject[c]
  PROVE  IInv'
  <1>1. \A r \in Runs : RunInv(r)'
    BY DEF IInv, RunInv
  <1>2. \A d \in Callers \ {c} : pc[d] # "idle" => Undisturbed(d, subject[d])
    BY DEF Undisturbed, Bystanders, Kept, Current
  <1>3. GuardCoversRequest'
    BY DEF IInv, GuardCoversRequest
  <1> QED
    BY <1>1, <1>2, <1>3, Compose

\* A call that ends, or throws, without a store.
LEMMA DoneKeeps ==
  ASSUME IInv, NEW c \in Callers, Done(c, fresh), Stored',
         UNCHANGED <<run, guard, receipt, lease, asked, answered, observed>>
  PROVE  IInv'
  <1>1. Locals
    BY TypeParts DEF IInv
  <1>2. fresh \in [Callers -> SUBSET {"run", "guard"}]
    BY <1>1 DEF Locals
  <1>3. Locals' /\ Bystanders(c) /\ pc'[c] = "idle"
    BY <1>1, <1>2, DoneStep
  <1> QED
    BY <1>3, IdleInv, Control DEF AttemptSteps

LEMMA AbandonKeeps ==
  ASSUME IInv, NEW c \in Callers, pc[c] # "idle", Abandon(c), Stored',
         UNCHANGED <<run, guard, receipt, lease, asked, answered, observed>>
  PROVE  IInv'
  <1>1. Locals' /\ Bystanders(c) /\ pc'[c] = "releasing" /\ subject' = subject
    BY TypeParts, AbandonStep DEF IInv
  <1>2. subject'[c] \in Runs
    BY <1>1 DEF IInv, CallerInv
  <1> QED
    BY <1>1, <1>2, ReleasingInv, Control DEF AttemptSteps

-----------------------------------------------------------------------------
(***************************************************************************)
(* approve.                                                                *)
(***************************************************************************)

LEMMA ApproveKeeps ==
  ASSUME IInv, NEW c \in Callers, NEW r \in Runs, Approve(c, r)
  PROVE  IInv'
  <1>1. Locals /\ Stored /\ "approving" \in Steps
    BY TypeParts DEF IInv, Steps, ApproveSteps
  <1>2. Locals' /\ Bystanders(c) /\ pc'[c] = "approving" /\ subject'[c] = r
    BY <1>1, GotoStep DEF Approve, Locals, Bystanders, Kept
  <1>3. Stored' /\ UNCHANGED <<run, guard, receipt, lease, asked, answered, observed>>
    BY <1>1 DEF Approve, Stored, store, history
  <1> QED
    BY <1>2, <1>3, ReleasingInv, Control DEF AttemptSteps

LEMMA PutApprovalKeeps ==
  ASSUME IInv, NEW c \in Callers, PutApproval(c)
  PROVE  IInv'
  <1>1. Locals /\ Stored /\ "refused" \in Steps /\ "approvalRead" \in Steps
    BY TypeParts DEF IInv, Steps, ApproveSteps
  <1>2. subject[c] \in Runs
    BY DEF IInv, CallerInv, PutApproval
  <1>3. issued[subject[c]] + 1 \in Nat
    BY <1>1, <1>2 DEF Stored
  <1>4. /\ UNCHANGED <<run, guard, receipt, lease, asked, answered, observed>>
        /\ UNCHANGED <<subject, fresh, outcome, left>>
        /\ Stored'
    BY <1>1, <1>2, <1>3 DEF PutApproval, Stored, history
  <1>5. \E step \in {"refused", "approvalRead"} : Goto(c, step)
    BY DEF PutApproval
  <1>6. Locals' /\ Bystanders(c) /\ pc'[c] \in {"refused", "approvalRead"}
    BY <1>1, <1>3, <1>4, <1>5, GotoStep DEF PutApproval, Locals, Bystanders, Kept
  <1> QED
    BY <1>2, <1>4, <1>6, ReleasingInv, Control DEF AttemptSteps

LEMMA RefusedKeeps ==
  ASSUME IInv, NEW c \in Callers, Refused(c)
  PROVE  IInv'
  <1>1. Stored' /\ UNCHANGED <<run, guard, receipt, lease, asked, answered, observed>>
    BY TypeParts DEF IInv, Refused, Stored, store, history
  <1> QED
    BY <1>1, DoneKeeps DEF Refused

LEMMA ApprovalReadKeeps ==
  ASSUME IInv, NEW c \in Callers, ApprovalRead(c)
  PROVE  IInv'
  <1>1. Locals /\ Stored /\ "approvalStore" \in Steps
    BY TypeParts DEF IInv, Steps, ApproveSteps
  <1>2. Stored' /\ UNCHANGED <<run, guard, receipt, lease, asked, answered, observed>>
    BY <1>1 DEF ApprovalRead, Stored, store, history
  <1>3. CASE Approvable(subject[c]) /\ ticket[c] \notin lapsed[subject[c]]
    <2>1. /\ Goto(c, "approvalStore") /\ Read(c, "run")
          /\ UNCHANGED <<subject, ticket, outcome, left>>
      BY <1>3 DEF ApprovalRead
    <2>2. Locals' /\ Bystanders(c) /\ pc'[c] = "approvalStore"
      BY <1>1, <2>1, ReadStep
    <2>3. subject[c] \in Runs /\ run[subject[c]].phase \in Untried
      BY <1>3 DEF ApprovalRead, Approvable, IInv, CallerInv, Untried
    <2>4. CallerInv(c)'
      BY <1>2, <2>1, <2>2, <2>3 DEF CallerInv, FreshInv, AttemptInv, TimeInv, VerifyInv, Row,
         AttemptSteps, BeforeReceipt, RecoverSteps
    <2> QED
      BY <1>2, <2>2, <2>4, Control DEF AttemptSteps
  <1>4. CASE ~(Approvable(subject[c]) /\ ticket[c] \notin lapsed[subject[c]])
    BY <1>2, <1>4, DoneKeeps DEF ApprovalRead
  <1> QED
    BY <1>3, <1>4

LEMMA ApprovalStoreKeeps ==
  ASSUME IInv, NEW c \in Callers, ApprovalStore(c)
  PROVE  IInv'
  <1> DEFINE r == subject[c]
  <1>1. Locals /\ Stored /\ r \in Runs /\ run[r] \in RunRow
    BY TypeParts DEF IInv, CallerInv, ApprovalStore, Stored
  <1>2. CASE "run" \notin fresh[c]
    <2>1. Done(c, fresh)
          /\ UNCHANGED <<run, guard, receipt, lease, asked, answered, observed>>
      BY <1>2 DEF ApprovalStore, history
    <2>2. Stored'
      BY <1>1, <2>1 DEF ApprovalStore, Stored, history
    <2> QED
      BY <2>1, <2>2, DoneKeeps
  <1>3. CASE "run" \in fresh[c]
    <2> DEFINE new == Approved(run[r], ticket[c])
    <2>1. run' = [run EXCEPT ![r] = new] /\ Done(c, AfterRun(c))
          /\ UNCHANGED <<guard, issued, receipt, lease, lapsed, asked, answered, observed, faults>>
      BY <1>1, <1>3 DEF ApprovalStore, Approved, history, Stored
    <2>2. ticket[c] \in Nat
      BY <1>1 DEF Locals
    <2>3. /\ new \in RunRow
          /\ new.phase = "approved"
          /\ new.attempt = run[r].attempt /\ new.wait = run[r].wait
          /\ new.output = run[r].output
      BY <1>1, <2>2, ApprovedRow
    <2> HIDE DEF new
    <2>4. /\ run' \in [Runs -> RunRow] /\ run'[r] = new
          /\ \A s \in Runs : s # r => run'[s] = run[s]
      BY <1>1, <2>1, <2>3 DEF Stored
    <2>5. Stored'
      BY <1>1, <2>1, <2>4 DEF Stored
    <2>6. /\ Locals' /\ Bystanders(c) /\ pc'[c] = "idle"
          /\ \A d \in Callers \ {c} : subject[d] = r => "run" \notin fresh'[d]
      BY <1>1, <2>1, AfterRunType, DoneStep
    <2>7. run[r].phase \in Untried
      BY <1>3 DEF IInv, CallerInv, FreshInv, ApprovalStore, Row
    <2>8. \A s \in Runs : RunInv(s)'
      BY <2>1, <2>3, <2>4, <2>7 DEF IInv, RunInv, Untried
    <2>9. \A d \in Callers \ {c} : pc[d] # "idle" => Undisturbed(d, subject[d])
      BY <2>1, <2>3, <2>4, <2>6 DEF IInv, CallerInv, Undisturbed, Bystanders, Kept, Current
    <2>10. GuardCoversRequest'
      BY <2>1 DEF IInv, GuardCoversRequest
    <2> QED
      BY <2>5, <2>6, <2>8, <2>9, <2>10, IdleInv, Compose DEF AttemptSteps
  <1> QED
    BY <1>2, <1>3

-----------------------------------------------------------------------------
(***************************************************************************)
(* apply, up to the request.                                               *)
(***************************************************************************)

LEMMA ApplyKeeps ==
  ASSUME IInv, NEW c \in Callers, NEW r \in Runs, Apply(c, r)
  PROVE  IInv'
  <1>1. Locals /\ Stored /\ "locking" \in Steps /\ run[r].approval \in Nat
    BY TypeParts, RowFields DEF IInv, Steps, ApplySteps, Stored
  <1>2. Locals' /\ Bystanders(c) /\ pc'[c] = "locking" /\ subject'[c] = r
    BY <1>1, GotoStep DEF Apply, Locals, Bystanders, Kept
  <1>3. Stored' /\ UNCHANGED <<run, guard, receipt, lease, asked, answered, observed>>
    BY <1>1 DEF Apply, Stored, store, history
  <1> QED
    BY <1>2, <1>3, ReleasingInv, Control DEF AttemptSteps

LEMMA AcquireLockKeeps ==
  ASSUME IInv, NEW c \in Callers, AcquireLock(c)
  PROVE  IInv'
  <1>1. Locals /\ Stored /\ "preflight" \in Steps /\ subject[c] \in Runs
    BY TypeParts DEF IInv, Steps, ApplySteps, CallerInv, AcquireLock
  <1>2. CASE lease.left = 0
    <2>1. /\ lease' = [owner |-> c, left |-> LockTtl]
          /\ Goto(c, "preflight")
          /\ UNCHANGED <<subject, fresh, ticket, outcome, left>>
          /\ UNCHANGED <<run, guard, issued, receipt, lapsed, asked, answered, observed, faults>>
      BY <1>2 DEF AcquireLock, history
    <2>2. Stored'
      BY <1>1, <2>1, TimeAssumption DEF Stored
    <2>3. Locals' /\ Bystanders(c) /\ pc'[c] = "preflight"
      BY <1>1, <2>1, GotoStep DEF Locals, Bystanders, Kept
    <2>4. \A r \in Runs : RunInv(r)'
      BY <2>1 DEF IInv, RunInv
    <2>5. \A d \in Callers \ {c} : pc[d] # "idle" => Undisturbed(d, subject[d])
      BY <2>1 DEF Undisturbed, Current
    <2>6. GuardCoversRequest'
      BY <2>1 DEF IInv, GuardCoversRequest
    <2>7. CallerInv(c)'
      BY <1>1, <2>1, <2>3, ReleasingInv
    <2> QED
      BY <2>2, <2>3, <2>4, <2>5, <2>6, <2>7, Compose DEF AttemptSteps
  <1>3. CASE lease.left # 0
    <2>1. Stored' /\ UNCHANGED <<run, guard, receipt, lease, asked, answered, observed>>
      BY <1>1, <1>3 DEF AcquireLock, Stored, history
    <2> QED
      BY <1>3, <2>1, DoneKeeps DEF AcquireLock
  <1> QED
    BY <1>2, <1>3

LEMMA PreflightKeeps ==
  ASSUME IInv, NEW c \in Callers, Preflight(c)
  PROVE  IInv'
  <1>1. Locals /\ Stored /\ {"attempting", "releasing"} \subseteq Steps /\ subject[c] \in Runs
    BY TypeParts DEF IInv, Steps, ApplySteps, CallerInv, Preflight
  <1>2. PICK step \in {"attempting", "releasing"} : Goto(c, step)
    BY DEF Preflight
  <1>3. UNCHANGED <<subject, fresh, ticket, outcome, left>>
    BY DEF Preflight
  <1>4. Locals' /\ Bystanders(c) /\ pc'[c] = step /\ subject'[c] \in Runs
    BY <1>1, <1>2, <1>3, GotoStep DEF Locals, Bystanders, Kept
  <1>5. Stored' /\ UNCHANGED <<run, guard, receipt, lease, asked, answered, observed>>
    BY <1>1 DEF Preflight, Stored, store, history
  <1> QED
    BY <1>2, <1>4, <1>5, ReleasingInv, Control DEF AttemptSteps

LEMMA AttemptReadKeeps ==
  ASSUME IInv, NEW c \in Callers, AttemptRead(c)
  PROVE  IInv'
  <1>1. Locals /\ Stored /\ "checkingGuard" \in Steps /\ subject[c] \in Runs
    BY TypeParts DEF IInv, Steps, ApplySteps, CallerInv, AttemptRead
  <1>2. Stored' /\ UNCHANGED <<run, guard, receipt, lease, asked, answered, observed>>
    BY <1>1 DEF AttemptRead, Stored, store, history
  <1>3. CASE Row(c).phase = "approved" /\ ~Row(c).attempt
    <2>1. /\ Goto(c, "checkingGuard") /\ Read(c, "run")
          /\ UNCHANGED <<subject, ticket, outcome, left>>
      BY <1>3 DEF AttemptRead
    <2>2. Locals' /\ Bystanders(c) /\ pc'[c] = "checkingGuard"
      BY <1>1, <2>1, ReadStep
    <2>3. CallerInv(c)'
      BY <1>1, <1>2, <1>3, <2>1, <2>2 DEF CallerInv, FreshInv, AttemptInv, TimeInv, VerifyInv, Row,
         AttemptSteps, BeforeReceipt, RecoverSteps
    <2> QED
      BY <1>2, <2>2, <2>3, Control DEF AttemptSteps
  <1>4. CASE ~(Row(c).phase = "approved" /\ ~Row(c).attempt)
    BY <1>2, <1>4, AbandonKeeps DEF AttemptRead
  <1> QED
    BY <1>3, <1>4

LEMMA GuardCheckKeeps ==
  ASSUME IInv, NEW c \in Callers, GuardCheck(c)
  PROVE  IInv'
  <1>1. Locals /\ Stored /\ "starting" \in Steps
    BY TypeParts DEF IInv, Steps, ApplySteps
  <1>2. Stored' /\ UNCHANGED <<run, guard, receipt, lease, asked, answered, observed>>
    BY <1>1 DEF GuardCheck, Stored, store, history
  <1>3. CASE TargetFree
    <2>1. /\ Goto(c, "starting") /\ Read(c, "guard")
          /\ UNCHANGED <<subject, ticket, outcome, left>>
      BY <1>3 DEF GuardCheck
    <2>2. /\ Locals' /\ Bystanders(c) /\ pc'[c] = "starting"
          /\ fresh'[c] = fresh[c] \cup {"guard"}
      BY <1>1, <2>1, ReadStep
    <2>3. pc[c] = "checkingGuard" /\ CallerInv(c)
      BY DEF GuardCheck, IInv
    <2>4. CallerInv(c)'
      BY <1>2, <1>3, <2>1, <2>2, <2>3 DEF TargetFree, CallerInv, FreshInv, AttemptInv, TimeInv, VerifyInv, Row,
         AttemptSteps, BeforeReceipt, RecoverSteps
    <2> QED
      BY <1>2, <2>2, <2>4, Control DEF AttemptSteps
  <1>4. CASE ~TargetFree
    BY <1>2, <1>4, AbandonKeeps DEF GuardCheck
  <1> QED
    BY <1>3, <1>4

\* The attempt: nobody else has one on this run, since the read was the latest.
LEMMA AttemptStoreKeeps ==
  ASSUME IInv, NEW c \in Callers, AttemptStore(c)
  PROVE  IInv'
  <1> DEFINE r == subject[c]
  <1>1. Locals /\ Stored /\ r \in Runs /\ run[r] \in RunRow
    BY TypeParts DEF IInv, CallerInv, AttemptStore, Stored
  <1>2. CASE "run" \notin fresh[c]
    <2>1. Abandon(c) /\ UNCHANGED <<run, guard, receipt, lease, asked, answered, observed>>
      BY <1>2 DEF AttemptStore, history
    <2>2. Stored'
      BY <1>1, <2>1 DEF AttemptStore, Stored, history
    <2> QED
      BY <2>1, <2>2, AbandonKeeps DEF AttemptStore
  <1>3. CASE "run" \in fresh[c]
    <2>1. PICK w \in IF Current(c) THEN {RecoverableIn(lease.left)} ELSE 0..RecoverableIn(0) :
             run' = [run EXCEPT ![subject[c]].phase = "verifying",
                                ![subject[c]].attempt = TRUE,
                                ![subject[c]].wait = w]
      BY <1>3 DEF AttemptStore
    <2>2. lease.left \in Nat /\ RecoverableIn(lease.left) \in Nat /\ RecoverableIn(0) \in Nat
      BY <1>1, WaitType DEF Stored
    <2>3. w \in Nat /\ (Current(c) => w >= lease.left + Margin)
      BY <2>2, TimeAssumption DEF RecoverableIn
    <2> DEFINE new == Attempted(run[r], w)
    <2>4. run' = [run EXCEPT ![r] = new]
      BY <1>1, <2>1 DEF Attempted, Stored
    <2>5. /\ new \in RunRow
          /\ new.phase = "verifying" /\ new.attempt /\ new.wait = w
          /\ new.output = run[r].output
      BY <1>1, <2>3, AttemptedRow
    <2> HIDE DEF new
    <2>6. /\ run' \in [Runs -> RunRow] /\ run'[r] = new
          /\ \A s \in Runs : s # r => run'[s] = run[s]
      BY <1>1, <2>4, <2>5 DEF Stored
    <2>7. /\ UNCHANGED <<guard, issued, receipt, lease, lapsed, asked, answered, observed, faults>>
          /\ UNCHANGED <<subject, ticket, outcome, left>>
          /\ fresh' = AfterRun(c) /\ Goto(c, "guarding")
      BY <1>3 DEF AttemptStore, history
    <2>8. Stored'
      BY <1>1, <2>6, <2>7 DEF Stored
    <2>9. "guarding" \in Steps
      BY DEF Steps, ApplySteps
    <2>10. /\ Locals' /\ Bystanders(c) /\ pc'[c] = "guarding"
           /\ fresh'[c] \subseteq fresh[c]
           /\ \A d \in Callers \ {c} : subject[d] = r => "run" \notin fresh'[d]
      BY <1>1, <2>7, <2>9, GotoStep, AfterRunType DEF Locals, Bystanders, Kept
    <2>11. pc[c] = "starting" /\ CallerInv(c) /\ RunInv(r)
      BY <1>1 DEF AttemptStore, IInv
    <2>12. /\ run[r].phase = "approved" /\ ~run[r].attempt
           /\ run[r].output = None /\ receipt[r] = None /\ asked[r] = 0
      BY <1>3, <2>11 DEF CallerInv, FreshInv, RunInv, Row, Untried
    <2>13. \A s \in Runs : RunInv(s)'
      <3>1. ASSUME NEW s \in Runs, s = r PROVE RunInv(s)'
        BY <2>5, <2>6, <2>7, <2>11, <2>12, <3>1, ValueAssumption DEF RunInv, Untried
      <3>2. \A s \in Runs : s # r => RunInv(s)'
        BY <2>6, <2>7 DEF IInv, RunInv
      <3> QED
        BY <3>1, <3>2
    <2>14. \A d \in Callers \ {c} : pc[d] # "idle" => Undisturbed(d, subject[d])
      BY <2>5, <2>6, <2>7, <2>10, <2>12 DEF IInv, CallerInv, Undisturbed, Bystanders, Kept, Current
    <2>15. GuardCoversRequest'
      BY <2>7 DEF IInv, GuardCoversRequest
    <2>16. CallerInv(c)'
      BY <1>1, <2>3, <2>5, <2>6, <2>7, <2>10, <2>11, <2>12 DEF Current, CallerInv, FreshInv, AttemptInv, TimeInv, VerifyInv, Row,
         AttemptSteps, BeforeReceipt, RecoverSteps
    <2> QED
      BY <2>7, <2>8, <2>10, <2>12, <2>13, <2>14, <2>15, <2>16, Compose
  <1> QED
    BY <1>2, <1>3

\* The guard was read after nobody else had opened it, and is stored at once.
LEMMA GuardStoreKeeps ==
  ASSUME IInv, NEW c \in Callers, GuardStore(c)
  PROVE  IInv'
  <1> DEFINE r == subject[c]
  <1>1. Locals /\ Stored /\ r \in Runs
    BY TypeParts DEF IInv, CallerInv, GuardStore
  <1>2. CASE "guard" \notin fresh[c]
    <2>1. Abandon(c) /\ UNCHANGED <<run, guard, receipt, lease, asked, answered, observed>>
      BY <1>2 DEF GuardStore, history
    <2>2. Stored'
      BY <1>1, <2>1 DEF GuardStore, Stored, history
    <2> QED
      BY <2>1, <2>2, AbandonKeeps DEF GuardStore
  <1>3. CASE "guard" \in fresh[c]
    <2>1. /\ guard' = [run |-> r, open |-> TRUE]
          /\ fresh' = AfterGuard /\ Goto(c, "sending")
          /\ UNCHANGED <<subject, ticket, outcome, left>>
          /\ UNCHANGED <<run, issued, receipt, lease, lapsed, asked, answered, observed, faults>>
      BY <1>3 DEF GuardStore, history
    <2>2. Stored'
      BY <1>1, <2>1 DEF Stored
    <2>3. "sending" \in Steps
      BY DEF Steps, ApplySteps
    <2>4. /\ Locals' /\ Bystanders(c) /\ pc'[c] = "sending"
          /\ \A d \in Callers : "guard" \notin fresh'[d]
      BY <1>1, <2>1, <2>3, GotoStep, AfterGuardType DEF Locals, Bystanders, Kept
    <2>5. pc[c] = "guarding" /\ CallerInv(c)
      BY DEF GuardStore, IInv
    <2>6. ~guard.open
      BY <1>3, <2>5 DEF CallerInv, FreshInv
    <2>7. \A s \in Runs : RunInv(s)'
      BY <2>1 DEF IInv, RunInv
    <2>8. \A d \in Callers \ {c} : pc[d] # "idle" => Undisturbed(d, subject[d])
      BY <2>1, <2>4, <2>6 DEF Undisturbed, Bystanders, Kept, Current
    <2>9. GuardCoversRequest'
      BY <2>1, <2>6 DEF IInv, GuardCoversRequest
    <2>10. CallerInv(c)'
      BY <1>1, <2>1, <2>4, <2>5 DEF Current, CallerInv, FreshInv, AttemptInv, TimeInv, VerifyInv, Row,
         AttemptSteps, BeforeReceipt, RecoverSteps
    <2> QED
      BY <2>1, <2>2, <2>4, <2>5, <2>7, <2>8, <2>9, <2>10, Compose DEF AttemptSteps
  <1> QED
    BY <1>2, <1>3

LEMMA LeaseLostKeeps ==
  ASSUME IInv, NEW c \in Callers, LeaseLost(c)
  PROVE  IInv'
  <1>1. Stored' /\ UNCHANGED <<run, guard, receipt, lease, asked, answered, observed>>
    BY TypeParts DEF IInv, LeaseLost, Stored, store, history
  <1> QED
    BY <1>1, AbandonKeeps DEF LeaseLost

LEMMA SendKeeps ==
  ASSUME IInv, NEW c \in Callers, Send(c)
  PROVE  IInv'
  <1> DEFINE r == subject[c]
  <1>1. Locals /\ Stored /\ r \in Runs /\ "inFlight" \in Steps
    BY TypeParts DEF IInv, CallerInv, Send, Steps, ApplySteps
  <1>2. /\ asked' = [asked EXCEPT ![r] = asked[r] + 1]
        /\ left' = [left EXCEPT ![c] = CallLimit]
        /\ Goto(c, "inFlight")
        /\ UNCHANGED <<subject, fresh, ticket, outcome>>
        /\ UNCHANGED <<run, guard, issued, receipt, lease, lapsed, answered, observed, faults>>
    BY <1>1 DEF Send, store
  <1>3. asked[r] + 1 \in Nat /\ lease.left \in Nat /\ run[r].wait \in Nat
    BY <1>1, RowFields DEF Stored
  <1>4. Stored'
    BY <1>1, <1>2, <1>3 DEF Stored
  <1>5. /\ Locals' /\ Bystanders(c) /\ pc'[c] = "inFlight" /\ left'[c] = CallLimit
    BY <1>1, <1>2, GotoStep, TimeAssumption DEF Locals, Bystanders, Kept
  <1>6. pc[c] = "sending" /\ CallerInv(c) /\ RunInv(r) /\ lease.left > 0 /\ Current(c)
    BY <1>1 DEF Send, IInv, Current
  <1>7. asked[r] = 0 /\ answered[r] = None /\ run[r].attempt /\ run[r].wait > CallLimit
    BY <1>3, <1>6, TimeAssumption DEF CallerInv, AttemptInv, TimeInv, RunInv, Row, AttemptSteps
  <1>8. asked'[r] > 0 /\ \A s \in Runs : s # r => asked'[s] = asked[s]
    BY <1>1, <1>2, <1>3, <1>7 DEF Stored
  <1>9. \A s \in Runs : RunInv(s)'
    BY <1>2, <1>7, <1>8 DEF IInv, RunInv
  <1>10. \A d \in Callers \ {c} : pc[d] \in AttemptSteps => subject[d] # r
    BY <1>6 DEF IInv, Exclusive, AttemptSteps
  <1>11. \A d \in Callers \ {c} : pc[d] # "idle" => Undisturbed(d, subject[d])
    BY <1>2, <1>8, <1>10 DEF IInv, CallerInv, Undisturbed, Current
  <1>12. GuardCoversRequest'
    BY <1>2, <1>6, <1>8 DEF IInv, GuardCoversRequest, CallerInv, AttemptInv
  <1>13. CallerInv(c)'
    BY <1>1, <1>2, <1>5, <1>6, <1>7, <1>8 DEF CallerInv, FreshInv, AttemptInv, TimeInv, VerifyInv, Row,
         AttemptSteps, BeforeReceipt, RecoverSteps
  <1> QED
    BY <1>2, <1>4, <1>5, <1>6, <1>9, <1>11, <1>12, <1>13, Compose DEF AttemptSteps

LEMMA NotSentKeeps ==
  ASSUME IInv, NEW c \in Callers, NotSent(c)
  PROVE  IInv'
  <1>1. Locals /\ Stored /\ "recording" \in Steps /\ "unknown" \in Outcomes
    BY TypeParts DEF IInv, Steps, ApplySteps, Outcomes
  <1>2. Stored' /\ UNCHANGED <<run, guard, receipt, lease, asked, answered, observed>>
    BY <1>1 DEF NotSent, Stored, store, history
  <1>3. /\ Locals' /\ Bystanders(c) /\ pc'[c] = "recording"
        /\ outcome'[c] = "unknown" /\ subject' = subject
    BY <1>1, GotoStep DEF NotSent, Locals, Bystanders, Kept
  <1>4. pc[c] = "sending" /\ CallerInv(c)
    BY DEF NotSent, IInv
  <1>5. CallerInv(c)'
    BY <1>1, <1>2, <1>3, <1>4 DEF CallerInv, FreshInv, AttemptInv, TimeInv, VerifyInv, Row,
         AttemptSteps, BeforeReceipt, RecoverSteps
  <1> QED
    BY <1>2, <1>3, <1>4, <1>5, Control DEF AttemptSteps

LEMMA AnswerKeeps ==
  ASSUME IInv, NEW c \in Callers, Answer(c)
  PROVE  IInv'
  <1> DEFINE r == subject[c]
  <1>1. Locals /\ Stored /\ r \in Runs /\ "recording" \in Steps
    BY TypeParts DEF IInv, CallerInv, Answer, Steps, ApplySteps
  <1>2. PICK o \in Outcomes :
          /\ outcome' = [outcome EXCEPT ![c] = o]
          /\ answered' = [answered EXCEPT ![r] = o]
    BY DEF Answer
  <1>3. /\ left' = [left EXCEPT ![c] = 0]
        /\ Goto(c, "recording")
        /\ UNCHANGED <<subject, fresh, ticket>>
        /\ UNCHANGED <<run, guard, issued, receipt, lease, lapsed, asked, observed, faults>>
    BY DEF Answer, store
  <1>4. Stored' /\ answered'[r] = o /\ \A s \in Runs : s # r => answered'[s] = answered[s]
    BY <1>1, <1>2, <1>3 DEF Stored
  <1>5. Locals' /\ Bystanders(c) /\ pc'[c] = "recording" /\ outcome'[c] = o
    BY <1>1, <1>2, <1>3, GotoStep DEF Locals, Bystanders, Kept
  <1>6. pc[c] = "inFlight" /\ CallerInv(c) /\ asked[r] > 0 /\ asked[r] \in Nat
    BY <1>1 DEF Answer, IInv, CallerInv, AttemptInv, Stored
  <1>7. \A s \in Runs : RunInv(s)'
    BY <1>3, <1>4, <1>6 DEF IInv, RunInv
  <1>8. \A d \in Callers \ {c} : pc[d] \in AttemptSteps => subject[d] # r
    BY <1>6 DEF IInv, Exclusive, AttemptSteps
  <1>9. \A d \in Callers \ {c} : pc[d] # "idle" => Undisturbed(d, subject[d])
    BY <1>3, <1>4, <1>8 DEF IInv, CallerInv, Undisturbed, Current
  <1>10. GuardCoversRequest'
    BY <1>3 DEF IInv, GuardCoversRequest
  <1>11. CallerInv(c)'
    BY <1>1, <1>3, <1>4, <1>5, <1>6 DEF CallerInv, FreshInv, AttemptInv, TimeInv, VerifyInv, Row,
         AttemptSteps, BeforeReceipt, RecoverSteps
  <1> QED
    BY <1>3, <1>4, <1>5, <1>6, <1>7, <1>9, <1>10, <1>11, Compose DEF AttemptSteps

-----------------------------------------------------------------------------
(***************************************************************************)
(* apply, from the answer to the release of the lease.                     *)
(***************************************************************************)

\* The only caller with an attempt on the run writes its receipt.
LEMMA RecordReceiptKeeps ==
  ASSUME IInv, NEW c \in Callers, RecordReceipt(c)
  PROVE  IInv'
  <1> DEFINE r == subject[c]
  <1>1. Locals /\ Stored /\ r \in Runs /\ {"applying", "releasing"} \subseteq Steps
    BY TypeParts DEF IInv, CallerInv, RecordReceipt, Steps, ApplySteps
  <1>2. pc[c] = "recording" /\ CallerInv(c) /\ RunInv(r)
    BY <1>1 DEF RecordReceipt, IInv
  <1>3. /\ UNCHANGED <<subject, fresh, ticket, outcome, left>>
        /\ UNCHANGED <<run, guard, issued, lease, lapsed, asked, answered, observed, faults>>
    BY DEF RecordReceipt, history
  <1>4. CASE FirstReceipt(r)
    <2>1. receipt' = [receipt EXCEPT ![r] = outcome[c]] /\ Goto(c, "applying")
      BY <1>4 DEF RecordReceipt
    <2>2. /\ run[r].attempt
          /\ outcome[c] \in Outcomes /\ outcome[c] \in {answered[r], "unknown"}
      BY <1>2 DEF CallerInv, AttemptInv, Row, AttemptSteps
    <2>3. outcome[c] # "recovery" /\ outcome[c] \in Receipts
      BY <2>2, ValueAssumption DEF Outcomes, Receipts
    <2>4. receipt[r] = None /\ run[r].output = None
      BY <1>2, <1>4, ValueAssumption DEF FirstReceipt, RunInv
    <2>5. Stored' /\ receipt'[r] = outcome[c] /\ \A s \in Runs : s # r => receipt'[s] = receipt[s]
      BY <1>1, <1>3, <2>1, <2>3 DEF Stored
    <2>6. Locals' /\ Bystanders(c) /\ pc'[c] = "applying"
      BY <1>1, <1>3, <2>1, GotoStep DEF Locals, Bystanders, Kept
    <2>7. \A s \in Runs : RunInv(s)'
      <3>1. ASSUME NEW s \in Runs, s = r PROVE RunInv(s)'
        BY <1>2, <1>3, <2>2, <2>3, <2>4, <2>5, <3>1 DEF RunInv
      <3>2. \A s \in Runs : s # r => RunInv(s)'
        BY <1>3, <2>5 DEF IInv, RunInv
      <3> QED
        BY <3>1, <3>2
    <2>8. \A d \in Callers \ {c} : pc[d] \in AttemptSteps => subject[d] # r
      BY <1>2 DEF IInv, Exclusive, AttemptSteps
    <2>9. \A d \in Callers \ {c} : pc[d] # "idle" => Undisturbed(d, subject[d])
      BY <1>3, <2>4, <2>5, <2>8 DEF IInv, CallerInv, Undisturbed, Current, AttemptSteps, BeforeReceipt
    <2>10. GuardCoversRequest'
      BY <1>3 DEF IInv, GuardCoversRequest
    <2>11. CallerInv(c)'
      BY <1>1, <1>2, <1>3, <2>2, <2>5, <2>6 DEF CallerInv, FreshInv, AttemptInv, TimeInv,
         VerifyInv, Row, AttemptSteps, BeforeReceipt, RecoverSteps
    <2> QED
      BY <1>2, <1>3, <2>5, <2>6, <2>7, <2>9, <2>10, <2>11, Compose DEF AttemptSteps
  <1>5. CASE ~FirstReceipt(r)
    <2>1. receipt' = receipt /\ Goto(c, "releasing")
      BY <1>5 DEF RecordReceipt
    <2>2. Locals' /\ Bystanders(c) /\ pc'[c] = "releasing"
      BY <1>1, <1>3, <2>1, GotoStep DEF Locals, Bystanders, Kept
    <2>3. Stored'
      BY <1>1, <1>3, <2>1 DEF Stored
    <2> QED
      BY <1>1, <1>3, <2>1, <2>2, <2>3, ReleasingInv, Control DEF AttemptSteps
  <1> QED
    BY <1>4, <1>5

\* What may be reported has no output yet.
LEMMA ReportableRow ==
  ASSUME IInv, NEW r \in Runs, Reportable(run[r])
  PROVE  run[r].output = None
  BY DEF IInv, RunInv, Reportable, Untried

LEMMA ApplyReadKeeps ==
  ASSUME IInv, NEW c \in Callers, ApplyRead(c)
  PROVE  IInv'
  <1>1. Locals /\ Stored /\ "storing" \in Steps /\ subject[c] \in Runs
    BY TypeParts DEF IInv, Steps, ApplySteps, CallerInv, ApplyRead
  <1>2. Stored' /\ UNCHANGED <<run, guard, receipt, lease, asked, answered, observed>>
    BY <1>1 DEF ApplyRead, Stored, store, history
  <1>3. CASE Reportable(Row(c))
    <2>1. /\ Goto(c, "storing") /\ Read(c, "run")
          /\ UNCHANGED <<subject, ticket, outcome, left>>
      BY <1>3 DEF ApplyRead
    <2>2. Locals' /\ Bystanders(c) /\ pc'[c] = "storing"
      BY <1>1, <2>1, ReadStep
    <2>3. pc[c] = "applying" /\ CallerInv(c) /\ Row(c).output = None
      BY <1>1, <1>3, ReportableRow DEF ApplyRead, IInv, Row
    <2>4. CallerInv(c)'
      BY <1>2, <2>1, <2>2, <2>3 DEF CallerInv, FreshInv, AttemptInv, TimeInv,
         VerifyInv, Row, AttemptSteps, BeforeReceipt, RecoverSteps
    <2> QED
      BY <1>2, <2>1, <2>2, <2>3, <2>4, Control DEF AttemptSteps
  <1>4. CASE ~Reportable(Row(c))
    BY <1>2, <1>4, AbandonKeeps DEF ApplyRead
  <1> QED
    BY <1>3, <1>4

\* The output of a run, stored by an apply or a recovery that has its receipt.
LEMMA ReportKeeps ==
  ASSUME IInv, NEW c \in Callers, pc[c] # "idle",
         NEW o \in Outcomes, NEW n \in Nat,
         run' = [run EXCEPT ![subject[c]] = Reported(@, o, n)],
         fresh' = AfterRun(c),
         UNCHANGED <<guard, issued, receipt, lease, lapsed, asked, answered, observed, faults>>,
         Row(c).attempt,
         Row(c).output = None,
         IF receipt[subject[c]] = "recovery" THEN o = "unknown" ELSE o = receipt[subject[c]]
  PROVE  /\ Stored'
         /\ run'[subject[c]].attempt
         /\ run'[subject[c]].output # None
         /\ \A r \in Runs : RunInv(r)'
         /\ \A d \in Callers \ {c} : pc[d] # "idle" => Undisturbed(d, subject[d])
         /\ GuardCoversRequest'
  <1> DEFINE r == subject[c]
  <1> DEFINE new == Reported(run[r], o, n)
  <1>1. Locals /\ Stored /\ r \in Runs /\ run[r] \in RunRow
    BY TypeParts DEF IInv, CallerInv, Stored
  <1>2. run' = [run EXCEPT ![r] = new]
    OBVIOUS
  <1>3. /\ new \in RunRow /\ new.phase \notin Untried
        /\ new.attempt = run[r].attempt /\ new.wait = run[r].wait /\ new.output = o
    BY <1>1, ReportedRow
  <1> HIDE DEF new
  <1>4. /\ run' \in [Runs -> RunRow] /\ run'[r] = new
        /\ \A s \in Runs : s # r => run'[s] = run[s]
    BY <1>1, <1>2, <1>3 DEF Stored
  <1>5. Stored'
    BY <1>1, <1>4 DEF Stored
  <1>6. o # None
    BY ValueAssumption DEF Outcomes
  <1>7. \A s \in Runs : RunInv(s)'
    <2>1. ASSUME NEW s \in Runs, s = r PROVE RunInv(s)'
      BY <1>1, <1>3, <1>4, <1>6, <2>1 DEF IInv, RunInv, Row
    <2>2. \A s \in Runs : s # r => RunInv(s)'
      BY <1>4 DEF IInv, RunInv
    <2> QED
      BY <2>1, <2>2
  <1>8. \A d \in Callers : subject[d] = r => "run" \notin fresh'[d]
    BY <1>1, AfterRunType
  <1>9. \A d \in Callers \ {c} : pc[d] # "idle" => Undisturbed(d, subject[d])
    BY <1>3, <1>4, <1>6, <1>8 DEF IInv, CallerInv, Undisturbed, Current, Row
  <1>10. GuardCoversRequest'
    BY DEF IInv, GuardCoversRequest
  <1> QED
    BY <1>3, <1>4, <1>5, <1>6, <1>7, <1>9, <1>10 DEF Row

LEMMA ApplyStoreKeeps ==
  ASSUME IInv, NEW c \in Callers, ApplyStore(c)
  PROVE  IInv'
  <1>1. Locals /\ Stored /\ "releasing" \in Steps /\ subject[c] \in Runs
    BY TypeParts DEF IInv, Steps, CallerInv, ApplyStore
  <1>2. pc[c] = "storing" /\ CallerInv(c)
    BY DEF ApplyStore, IInv
  <1>3. UNCHANGED <<guard, issued, receipt, lease, lapsed, asked, answered, observed, faults>>
    BY DEF ApplyStore, history
  <1>4. CASE "run" \in fresh[c]
    <2>1. PICK n \in 0..Delay : run' = [run EXCEPT ![subject[c]] = Reported(@, outcome[c], n)]
      BY <1>4 DEF ApplyStore
    <2>2. /\ fresh' = AfterRun(c) /\ Goto(c, "releasing")
          /\ UNCHANGED <<subject, ticket, outcome, left>>
      BY <1>4 DEF ApplyStore
    <2>3. /\ outcome[c] \in Outcomes /\ n \in Nat
          /\ Row(c).attempt /\ Row(c).output = None
          /\ receipt[subject[c]] = outcome[c] /\ outcome[c] # "recovery"
      BY <1>2, <1>4, ValueAssumption, TimeAssumption
      DEF CallerInv, AttemptInv, FreshInv, AttemptSteps, Outcomes
    <2>4. /\ Stored'
          /\ \A r \in Runs : RunInv(r)'
          /\ \A d \in Callers \ {c} : pc[d] # "idle" => Undisturbed(d, subject[d])
          /\ GuardCoversRequest'
      BY <1>2, <1>3, <2>1, <2>2, <2>3, ReportKeeps
    <2>5. Locals' /\ Bystanders(c) /\ pc'[c] = "releasing"
      BY <1>1, <2>2, GotoStep, AfterRunType DEF Locals, Bystanders, Kept
    <2> QED
      BY <1>1, <2>2, <2>4, <2>5, ReleasingInv, Compose DEF AttemptSteps
  <1>5. CASE "run" \notin fresh[c]
    <2>1. run' = run /\ Abandon(c)
      BY <1>5 DEF ApplyStore
    <2>2. Stored'
      BY <1>1, <1>3, <2>1 DEF Stored
    <2> QED
      BY <1>2, <1>3, <2>1, <2>2, AbandonKeeps
  <1> QED
    BY <1>4, <1>5

\* Only its owner clears or abandons a lease, and has nothing left to do under it.
LEMMA LeaseKeeps ==
  ASSUME IInv, NEW c \in Callers, Done(c, fresh),
         \/ lease' = lease
         \/ /\ lease.owner = c /\ lease'.owner = None
            /\ lease' \in [owner : Callers \cup {None}, left : Nat],
         faults' \in Nat,
         UNCHANGED <<run, guard, issued, receipt, lapsed, asked, answered, observed>>
  PROVE  IInv'
  <1>1. Locals /\ Stored
    BY TypeParts DEF IInv
  <1>2. fresh \in [Callers -> SUBSET {"run", "guard"}]
    BY <1>1 DEF Locals
  <1>3. Locals' /\ Bystanders(c) /\ pc'[c] = "idle"
    BY <1>1, <1>2, DoneStep
  <1>4. Stored'
    BY <1>1 DEF Stored
  <1>5. \A r \in Runs : RunInv(r)'
    BY DEF IInv, RunInv
  <1>6. None \notin Callers
    BY ValueAssumption
  <1>7. \A d \in Callers \ {c} : pc[d] # "idle" => Undisturbed(d, subject[d])
    BY <1>3, <1>6 DEF Undisturbed, Bystanders, Kept, Current
  <1>8. GuardCoversRequest'
    BY DEF IInv, GuardCoversRequest
  <1> QED
    BY <1>3, <1>4, <1>5, <1>7, <1>8, IdleInv, Compose DEF AttemptSteps

LEMMA ReleaseKeeps ==
  ASSUME IInv, NEW c \in Callers, Release(c)
  PROVE  IInv'
  <1>1. NoLease \in [owner : Callers \cup {None}, left : Nat] /\ NoLease.owner = None
    BY DEF NoLease
  <1>2. faults' \in Nat
    BY DEF IInv, TypeOK, Release
  <1> QED
    BY <1>1, <1>2, LeaseKeeps DEF Release, history

LEMMA CrashKeeps ==
  ASSUME IInv, NEW c \in Callers, Crash(c)
  PROVE  IInv'
  <1>1. lease \in [owner : Callers \cup {None}, left : Nat] /\ faults' \in Nat
    BY DEF IInv, TypeOK, Crash, Fault
  <1> DEFINE orphan == [lease EXCEPT !.owner = None]
  <1>2. orphan \in [owner : Callers \cup {None}, left : Nat] /\ orphan.owner = None
    BY <1>1
  <1>3. lease' = lease \/ (lease.owner = c /\ lease' = orphan)
    BY DEF Crash
  <1> HIDE DEF orphan
  <1> QED
    BY <1>1, <1>2, <1>3, LeaseKeeps DEF Crash, history

LEMMA ApplyFailsKeeps ==
  ASSUME IInv, NEW c \in Callers, ApplyFails(c)
  PROVE  IInv'
  <1>1. Stored' /\ UNCHANGED <<run, guard, receipt, lease, asked, answered, observed>>
    BY TypeParts DEF IInv, ApplyFails, Fault, Stored, store, history
  <1>2. pc[c] # "idle"
    BY DEF ApplyFails, ApplySteps
  <1> QED
    BY <1>1, <1>2, AbandonKeeps DEF ApplyFails

-----------------------------------------------------------------------------
(***************************************************************************)
(* verify and recover.                                                     *)
(***************************************************************************)

LEMMA VerifyKeeps ==
  ASSUME IInv, NEW c \in Callers, NEW r \in Runs, Verify(c, r)
  PROVE  IInv'
  <1> DEFINE step == VerifyFrom(run[r])
  <1>1. Locals /\ Stored /\ {"observing", "recovering"} \subseteq Steps
    BY TypeParts DEF IInv, Steps, VerifySteps
  <1>2. \/ step = "observing" /\ run[r].output # None
        \/ step = "recovering" /\ run[r].attempt /\ run[r].wait = 0
    BY DEF Verify, VerifyFrom
  <1>3. /\ Goto(c, step)
        /\ subject' = [subject EXCEPT ![c] = r]
        /\ UNCHANGED <<fresh, ticket, outcome, left>>
    BY DEF Verify
  <1> HIDE DEF step
  <1>4. Locals' /\ Bystanders(c) /\ pc'[c] = step /\ subject'[c] = r
    BY <1>1, <1>2, <1>3, GotoStep DEF Locals, Bystanders, Kept
  <1>5. Stored' /\ UNCHANGED <<run, guard, receipt, lease, asked, answered, observed>>
    BY <1>1 DEF Verify, Stored, store, history
  <1>6. CallerInv(c)'
    BY <1>2, <1>4, <1>5 DEF CallerInv, FreshInv, AttemptInv, TimeInv,
         VerifyInv, Row, AttemptSteps, BeforeReceipt, RecoverSteps
  <1> QED
    BY <1>2, <1>4, <1>5, <1>6, Control DEF AttemptSteps

\* A recovery that is first to the receipt of its run.
LEMMA RecoverReceiptKeeps ==
  ASSUME IInv, NEW c \in Callers, RecoverReceipt(c)
  PROVE  IInv'
  <1> DEFINE r == subject[c]
  <1>1. Locals /\ Stored /\ r \in Runs /\ "recoverRead" \in Steps
    BY TypeParts DEF IInv, CallerInv, RecoverReceipt, Steps, VerifySteps
  <1>2. pc[c] = "recovering" /\ CallerInv(c) /\ RunInv(r)
    BY <1>1 DEF RecoverReceipt, IInv
  <1>3. UNCHANGED <<run, guard, issued, lease, lapsed, asked, answered, observed, faults>>
    BY DEF RecoverReceipt, history
  <1>4. CASE FirstReceipt(r)
    <2>1. /\ receipt' = [receipt EXCEPT ![r] = "recovery"] /\ Goto(c, "recoverRead")
          /\ UNCHANGED <<subject, fresh, ticket, outcome, left>>
      BY <1>4 DEF RecoverReceipt
    <2>2. run[r].attempt /\ run[r].wait = 0
      BY <1>2 DEF CallerInv, TimeInv, Row, RecoverSteps
    <2>3. receipt[r] = None /\ run[r].output = None
      BY <1>2, <1>4, ValueAssumption DEF FirstReceipt, RunInv
    <2>4. Stored' /\ receipt'[r] = "recovery" /\ \A s \in Runs : s # r => receipt'[s] = receipt[s]
      BY <1>1, <1>3, <2>1 DEF Stored, Receipts
    <2>5. Locals' /\ Bystanders(c) /\ pc'[c] = "recoverRead"
      BY <1>1, <2>1, GotoStep DEF Locals, Bystanders, Kept
    <2>6. \A s \in Runs : RunInv(s)'
      <3>1. ASSUME NEW s \in Runs, s = r PROVE RunInv(s)'
        BY <1>2, <1>3, <2>2, <2>3, <2>4, <3>1 DEF RunInv
      <3>2. \A s \in Runs : s # r => RunInv(s)'
        BY <1>3, <2>4 DEF IInv, RunInv
      <3> QED
        BY <3>1, <3>2
    <2>7. \A d \in Callers \ {c} : pc[d] # "idle" => Undisturbed(d, subject[d])
      BY <1>3, <2>3, <2>4 DEF IInv, CallerInv, Undisturbed, Current
    <2>8. GuardCoversRequest'
      BY <1>3 DEF IInv, GuardCoversRequest
    <2>9. CallerInv(c)'
      BY <1>1, <1>2, <1>3, <2>1, <2>2, <2>4, <2>5 DEF CallerInv, FreshInv, AttemptInv, TimeInv,
         VerifyInv, Row, AttemptSteps, BeforeReceipt, RecoverSteps
    <2> QED
      BY <2>4, <2>5, <2>6, <2>7, <2>8, <2>9, Compose DEF AttemptSteps
  <1>5. CASE ~FirstReceipt(r)
    <2>1. receipt' = receipt /\ Done(c, fresh)
      BY <1>5 DEF RecoverReceipt
    <2>2. Stored'
      BY <1>1, <1>3, <2>1 DEF Stored
    <2> QED
      BY <1>3, <2>1, <2>2, DoneKeeps
  <1> QED
    BY <1>4, <1>5

LEMMA RecoverReadKeeps ==
  ASSUME IInv, NEW c \in Callers, RecoverRead(c)
  PROVE  IInv'
  <1>1. Locals /\ Stored /\ "recoverStore" \in Steps /\ subject[c] \in Runs
    BY TypeParts DEF IInv, Steps, VerifySteps, CallerInv, RecoverRead
  <1>2. Stored' /\ UNCHANGED <<run, guard, receipt, lease, asked, answered, observed>>
    BY <1>1 DEF RecoverRead, Stored, store, history
  <1>3. CASE Reportable(Row(c))
    <2>1. /\ Goto(c, "recoverStore") /\ Read(c, "run")
          /\ UNCHANGED <<subject, ticket, outcome, left>>
      BY <1>3 DEF RecoverRead
    <2>2. Locals' /\ Bystanders(c) /\ pc'[c] = "recoverStore"
      BY <1>1, <2>1, ReadStep
    <2>3. pc[c] = "recoverRead" /\ CallerInv(c) /\ Row(c).output = None
      BY <1>1, <1>3, ReportableRow DEF RecoverRead, IInv, Row
    <2>4. CallerInv(c)'
      BY <1>2, <2>1, <2>2, <2>3 DEF CallerInv, FreshInv, AttemptInv, TimeInv,
         VerifyInv, Row, AttemptSteps, BeforeReceipt, RecoverSteps
    <2> QED
      BY <1>2, <2>2, <2>4, Control DEF AttemptSteps
  <1>4. CASE ~Reportable(Row(c))
    BY <1>2, <1>4, DoneKeeps DEF RecoverRead
  <1> QED
    BY <1>3, <1>4

LEMMA RecoverStoreKeeps ==
  ASSUME IInv, NEW c \in Callers, RecoverStore(c)
  PROVE  IInv'
  <1>1. Locals /\ Stored /\ "observing" \in Steps /\ subject[c] \in Runs
    BY TypeParts DEF IInv, Steps, VerifySteps, CallerInv, RecoverStore
  <1>2. pc[c] = "recoverStore" /\ CallerInv(c)
    BY DEF RecoverStore, IInv
  <1>3. UNCHANGED <<guard, issued, receipt, lease, lapsed, asked, answered, observed, faults>>
    BY DEF RecoverStore, history
  <1>4. CASE "run" \in fresh[c]
    <2>1. /\ run' = [run EXCEPT ![subject[c]] = Reported(@, "unknown", 0)]
          /\ fresh' = AfterRun(c) /\ Goto(c, "observing")
          /\ UNCHANGED <<subject, ticket, outcome, left>>
      BY <1>4 DEF RecoverStore, RecoveredOutput
    <2>2. /\ "unknown" \in Outcomes /\ 0 \in Nat
          /\ Row(c).attempt /\ Row(c).output = None
          /\ receipt[subject[c]] = "recovery"
      BY <1>2, <1>4 DEF CallerInv, TimeInv, FreshInv, VerifyInv, RecoverSteps, Outcomes
    <2>3. /\ Stored'
          /\ run'[subject[c]].output # None
          /\ \A r \in Runs : RunInv(r)'
          /\ \A d \in Callers \ {c} : pc[d] # "idle" => Undisturbed(d, subject[d])
          /\ GuardCoversRequest'
      BY <1>2, <1>3, <2>1, <2>2, ReportKeeps
    <2>4. Locals' /\ Bystanders(c) /\ pc'[c] = "observing"
      BY <1>1, <2>1, GotoStep, AfterRunType DEF Locals, Bystanders, Kept
    <2>5. CallerInv(c)'
      BY <1>1, <2>1, <2>3, <2>4 DEF CallerInv, FreshInv, AttemptInv, TimeInv,
         VerifyInv, Row, AttemptSteps, BeforeReceipt, RecoverSteps
    <2> QED
      BY <2>3, <2>4, <2>5, Compose DEF AttemptSteps
  <1>5. CASE "run" \notin fresh[c]
    <2>1. run' = run /\ Done(c, fresh)
      BY <1>5 DEF RecoverStore
    <2>2. Stored'
      BY <1>1, <1>3, <2>1 DEF Stored
    <2> QED
      BY <1>3, <2>1, <2>2, DoneKeeps
  <1> QED
    BY <1>4, <1>5

LEMMA ObserveKeeps ==
  ASSUME IInv, NEW c \in Callers, NEW status \in Statuses, Observe(c, status)
  PROVE  IInv'
  <1>1. Locals /\ Stored /\ "observedRead" \in Steps
    BY TypeParts DEF IInv, Steps, VerifySteps
  <1>2. Stored' /\ UNCHANGED <<run, guard, receipt, lease, asked, answered, observed>>
    BY <1>1 DEF Observe, Stored, store, history
  <1>3. /\ Locals' /\ Bystanders(c) /\ pc'[c] = "observedRead"
        /\ outcome'[c] = status /\ subject' = subject
    BY <1>1, GotoStep DEF Observe, Locals, Bystanders, Kept
  <1>4. pc[c] = "observing" /\ CallerInv(c)
    BY DEF Observe, IInv
  <1>5. CallerInv(c)'
    BY <1>1, <1>2, <1>3, <1>4 DEF CallerInv, FreshInv, AttemptInv, TimeInv,
         VerifyInv, Row, AttemptSteps, BeforeReceipt, RecoverSteps
  <1> QED
    BY <1>2, <1>3, <1>5, Control DEF AttemptSteps

LEMMA ObservedReadKeeps ==
  ASSUME IInv, NEW c \in Callers, ObservedRead(c)
  PROVE  IInv'
  <1>1. Locals /\ Stored /\ "observedStore" \in Steps
    BY TypeParts DEF IInv, Steps, VerifySteps
  <1>2. Stored' /\ UNCHANGED <<run, guard, receipt, lease, asked, answered, observed>>
    BY <1>1 DEF ObservedRead, Stored, store, history
  <1>3. CASE Verifiable(Row(c))
    <2>1. /\ Goto(c, "observedStore") /\ Read(c, "run")
          /\ UNCHANGED <<subject, ticket, outcome, left>>
      BY <1>3 DEF ObservedRead
    <2>2. Locals' /\ Bystanders(c) /\ pc'[c] = "observedStore"
      BY <1>1, <2>1, ReadStep
    <2>3. pc[c] = "observedRead" /\ CallerInv(c)
      BY DEF ObservedRead, IInv
    <2>4. CallerInv(c)'
      BY <1>2, <2>1, <2>2, <2>3 DEF CallerInv, FreshInv, AttemptInv, TimeInv,
         VerifyInv, Row, AttemptSteps, BeforeReceipt, RecoverSteps
    <2> QED
      BY <1>2, <2>2, <2>4, Control DEF AttemptSteps
  <1>4. CASE ~Verifiable(Row(c))
    BY <1>2, <1>4, DoneKeeps DEF ObservedRead
  <1> QED
    BY <1>3, <1>4

LEMMA ObservedStoreKeeps ==
  ASSUME IInv, NEW c \in Callers, ObservedStore(c)
  PROVE  IInv'
  <1> DEFINE r == subject[c]
  <1>1. Locals /\ Stored /\ r \in Runs /\ run[r] \in RunRow /\ "guardRead" \in Steps
    BY TypeParts DEF IInv, CallerInv, ObservedStore, Stored, Steps, VerifySteps
  <1>2. pc[c] = "observedStore" /\ CallerInv(c) /\ RunInv(r)
    BY <1>1 DEF ObservedStore, IInv
  <1>3. UNCHANGED <<guard, issued, receipt, lease, lapsed, asked, answered, faults>>
    BY DEF ObservedStore
  <1>4. CASE "run" \in fresh[c]
    <2>1. PICK p \in Concluded(outcome[c]) : run' = [run EXCEPT ![subject[c]].phase = p]
      BY <1>4 DEF ObservedStore
    <2>2. observed' = IF outcome[c] \in Decisive THEN observed \cup {r} ELSE observed
      BY <1>4 DEF ObservedStore
    <2>3. p \in Phases /\ p \notin Untried
      BY <1>2, ConcludedType DEF CallerInv, VerifyInv
    <2>4. run[r].output # None /\ run[r].attempt
      BY <1>2 DEF CallerInv, VerifyInv, RunInv, Row
    <2> DEFINE new == Moved(run[r], p)
    <2>5. run' = [run EXCEPT ![r] = new]
      BY <1>1, <2>1 DEF Moved, Stored
    <2>6. /\ new \in RunRow /\ new.phase = p
          /\ new.attempt = run[r].attempt /\ new.wait = run[r].wait
          /\ new.output = run[r].output
      BY <1>1, <2>3, MovedRow
    <2> HIDE DEF new
    <2>7. /\ run' \in [Runs -> RunRow] /\ run'[r] = new
          /\ \A s \in Runs : s # r => run'[s] = run[s]
      BY <1>1, <2>5, <2>6 DEF Stored
    <2>8. Stored'
      BY <1>1, <1>3, <2>2, <2>7 DEF Stored
    <2>9. \A s \in Runs : RunInv(s)'
      <3>1. ASSUME NEW s \in Runs, s = r PROVE RunInv(s)'
        BY <1>2, <1>3, <2>3, <2>4, <2>6, <2>7, <3>1 DEF RunInv
      <3>2. \A s \in Runs : s # r => RunInv(s)'
        BY <1>3, <2>2, <2>7 DEF IInv, RunInv
      <3> QED
        BY <3>1, <3>2
    <2>10. observed \subseteq observed' /\ (outcome[c] \in Decisive => r \in observed')
      BY <2>2
    <2>11. GuardCoversRequest'
      BY <1>3, <2>10 DEF IInv, GuardCoversRequest
    <2>12. \/ /\ Goto(c, "guardRead") /\ fresh' = AfterRun(c) /\ outcome[c] \in Decisive
              /\ UNCHANGED <<subject, ticket, outcome, left>>
           \/ Done(c, AfterRun(c))
      BY <1>4 DEF ObservedStore, ClosesGuard
    <2>13. \/ pc'[c] = "guardRead" /\ subject'[c] = r /\ outcome[c] \in Decisive
           \/ pc'[c] = "idle"
      BY <1>1, <2>12, GotoStep, AfterRunType, DoneStep
    <2>14. Locals' /\ Bystanders(c)
      BY <1>1, <2>12, GotoStep, AfterRunType, DoneStep DEF Locals, Bystanders, Kept
    <2>15. \A d \in Callers \ {c} : subject[d] = r => "run" \notin fresh'[d]
      BY <1>1, <2>12, AfterRunType, DoneStep
    <2>16. \A d \in Callers \ {c} : pc[d] # "idle" => Undisturbed(d, subject[d])
      BY <1>3, <2>4, <2>6, <2>7, <2>10, <2>15 DEF IInv, CallerInv, Undisturbed, Current
    <2>17. CallerInv(c)'
      BY <1>1, <2>10, <2>13, IdleInv DEF CallerInv, FreshInv, AttemptInv, TimeInv,
         VerifyInv, Row, AttemptSteps, BeforeReceipt, RecoverSteps
    <2> QED
      BY <2>8, <2>9, <2>11, <2>13, <2>14, <2>16, <2>17, Compose DEF AttemptSteps
  <1>5. CASE "run" \notin fresh[c]
    <2>1. run' = run /\ observed' = observed /\ Done(c, fresh)
      BY <1>5 DEF ObservedStore
    <2>2. Stored'
      BY <1>1, <1>3, <2>1 DEF Stored
    <2> QED
      BY <1>3, <2>1, <2>2, DoneKeeps
  <1> QED
    BY <1>4, <1>5

LEMMA GuardReadKeeps ==
  ASSUME IInv, NEW c \in Callers, GuardRead(c)
  PROVE  IInv'
  <1>1. Locals /\ Stored /\ "guardClose" \in Steps
    BY TypeParts DEF IInv, Steps, VerifySteps
  <1>2. Stored' /\ UNCHANGED <<run, guard, receipt, lease, asked, answered, observed>>
    BY <1>1 DEF GuardRead, Stored, store, history
  <1>3. CASE guard.run = subject[c]
    <2>1. /\ Goto(c, "guardClose") /\ Read(c, "guard")
          /\ UNCHANGED <<subject, ticket, outcome, left>>
      BY <1>3 DEF GuardRead
    <2>2. Locals' /\ Bystanders(c) /\ pc'[c] = "guardClose"
      BY <1>1, <2>1, ReadStep
    <2>3. pc[c] = "guardRead" /\ CallerInv(c)
      BY DEF GuardRead, IInv
    <2>4. CallerInv(c)'
      BY <1>2, <1>3, <2>1, <2>2, <2>3 DEF CallerInv, FreshInv, AttemptInv, TimeInv,
         VerifyInv, Row, AttemptSteps, BeforeReceipt, RecoverSteps
    <2> QED
      BY <1>2, <2>2, <2>4, Control DEF AttemptSteps
  <1>4. CASE guard.run # subject[c]
    BY <1>2, <1>4, DoneKeeps DEF GuardRead
  <1> QED
    BY <1>3, <1>4

\* The guard that is closed is still that of the run whose effect was observed.
LEMMA GuardCloseKeeps ==
  ASSUME IInv, NEW c \in Callers, GuardClose(c)
  PROVE  IInv'
  <1>1. Locals /\ Stored
    BY TypeParts DEF IInv
  <1>2. UNCHANGED <<run, issued, receipt, lease, lapsed, asked, answered, observed, faults>>
    BY DEF GuardClose, history
  <1>3. CASE "guard" \in fresh[c]
    <2>1. guard' = [guard EXCEPT !.open = FALSE] /\ Done(c, AfterGuard)
      BY <1>3 DEF GuardClose
    <2>2. Stored'
      BY <1>1, <1>2, <2>1 DEF Stored
    <2>3. /\ Locals' /\ Bystanders(c) /\ pc'[c] = "idle"
          /\ \A d \in Callers \ {c} : "guard" \notin fresh'[d]
      BY <1>1, <2>1, AfterGuardType, DoneStep
    <2>4. guard.run = subject[c] /\ subject[c] \in observed
      BY <1>3 DEF IInv, CallerInv, FreshInv, VerifyInv, GuardClose
    <2>5. \A r \in Runs : guard = [run |-> r, open |-> TRUE] => r \in observed
      BY <2>4
    <2>6. \A s \in Runs : RunInv(s)'
      BY <1>2 DEF IInv, RunInv
    <2>7. GuardCoversRequest'
      BY <1>2, <2>5 DEF IInv, GuardCoversRequest
    <2>8. \A d \in Callers \ {c} : pc[d] # "idle" => Undisturbed(d, subject[d])
      BY <1>2, <2>3, <2>5 DEF IInv, CallerInv, Undisturbed, Current
    <2> QED
      BY <2>2, <2>3, <2>6, <2>7, <2>8, IdleInv, Compose DEF AttemptSteps
  <1>4. CASE "guard" \notin fresh[c]
    <2>1. guard' = guard /\ Done(c, fresh)
      BY <1>4 DEF GuardClose
    <2>2. Stored'
      BY <1>1, <1>2, <2>1 DEF Stored
    <2> QED
      BY <1>2, <2>1, <2>2, DoneKeeps
  <1> QED
    BY <1>3, <1>4

-----------------------------------------------------------------------------
(***************************************************************************)
(* New plans, lapsed approvals and time.                                   *)
(***************************************************************************)

LEMMA PlanKeeps ==
  ASSUME IInv, NEW r \in Runs, Plan(r)
  PROVE  IInv'
  <1>1. Locals /\ Stored /\ run[r].phase = "absent" /\ RunInv(r)
    BY TypeParts DEF IInv, Plan
  <1>2. UNCHANGED <<guard, issued, receipt, lease, local, lapsed, asked, answered, observed, faults>>
    BY DEF Plan, history
  <1> DEFINE new == [NoRun EXCEPT !.phase = "planned"]
  <1>3. run' = [run EXCEPT ![r] = new]
    BY DEF Plan
  <1>4. /\ new \in RunRow /\ new.phase = "planned"
        /\ ~new.attempt /\ new.output = None /\ new.wait = 0
    BY NoRunType
  <1> HIDE DEF new
  <1>5. /\ run' \in [Runs -> RunRow] /\ run'[r] = new
        /\ \A s \in Runs : s # r => run'[s] = run[s]
    BY <1>1, <1>3, <1>4 DEF Stored
  <1>6. Stored' /\ Locals'
    BY <1>1, <1>2, <1>5 DEF Stored, Locals, local
  <1>7. ~run[r].attempt /\ run[r].output = None
    BY <1>1 DEF RunInv, Untried
  <1>8. \A s \in Runs : RunInv(s)'
    <2>1. ASSUME NEW s \in Runs, s = r PROVE RunInv(s)'
      BY <1>1, <1>2, <1>4, <1>5, <1>7, <2>1 DEF RunInv, Untried
    <2>2. \A s \in Runs : s # r => RunInv(s)'
      BY <1>2, <1>5 DEF IInv, RunInv
    <2> QED
      BY <2>1, <2>2
  <1>9. ASSUME NEW d \in Callers PROVE CallerInv(d)'
    <2>1. CASE pc[d] = "idle"
      BY <1>2, <2>1, IdleInv DEF local
    <2>2. CASE pc[d] # "idle" /\ subject[d] = r
      BY <1>2, <1>4, <1>5, <1>7, <1>1, <2>2 DEF IInv, local, CallerInv, FreshInv, AttemptInv,
         TimeInv, VerifyInv, Row, AttemptSteps, BeforeReceipt, RecoverSteps, Untried
    <2>3. CASE pc[d] # "idle" /\ subject[d] # r
      <3>1. Undisturbed(d, subject[d]) /\ Kept(d)
        BY <1>2, <1>5, <2>3 DEF IInv, CallerInv, Undisturbed, Kept, local, Current
      <3> QED
        BY <3>1, KeptInv DEF IInv
    <2> QED
      BY <2>1, <2>2, <2>3
  <1>10. Exclusive' /\ GuardCoversRequest'
    BY <1>2 DEF IInv, Exclusive, GuardCoversRequest, local
  <1> QED
    BY <1>6, <1>8, <1>9, <1>10, TypePartsNext DEF IInv

LEMMA ExpireApprovalKeeps ==
  ASSUME IInv, NEW r \in Runs, ExpireApproval(r)
  PROVE  IInv'
  <1>1. Locals /\ Stored
    BY TypeParts DEF IInv
  <1>2. UNCHANGED <<store, local, history, faults>>
    BY DEF ExpireApproval
  <1>3. PICK n \in 1..issued[r] \ lapsed[r] : lapsed' = [lapsed EXCEPT ![r] = @ \cup {n}]
    BY DEF ExpireApproval
  <1>4. issued[r] \in Nat /\ n \in Nat
    BY <1>1 DEF Stored
  <1>5. Stored' /\ Locals'
    BY <1>1, <1>2, <1>3, <1>4 DEF Stored, Locals, store, local, history
  <1>6. \A s \in Runs : RunInv(s)'
    BY <1>2 DEF IInv, RunInv, store, history
  <1>7. \A d \in Callers : CallerInv(d)'
    <2>1. \A d \in Callers : Kept(d) /\ Undisturbed(d, subject[d])
      BY <1>2 DEF Kept, Undisturbed, Current, store, local, history
    <2> QED
      BY <2>1, KeptInv DEF IInv
  <1>8. Exclusive' /\ GuardCoversRequest'
    BY <1>2 DEF IInv, Exclusive, GuardCoversRequest, store, local, history
  <1> QED
    BY <1>5, <1>6, <1>7, <1>8, TypePartsNext DEF IInv

LEMMA StutterKeeps ==
  ASSUME IInv, UNCHANGED vars
  PROVE  IInv'
  BY DEF vars, IInv, TypeOK, RunInv, CallerInv, FreshInv, AttemptInv, TimeInv, VerifyInv,
     Row, Current, Exclusive, GuardCoversRequest

\* All clocks run at the same speed, so that a recovery comes no closer to a
\* lease or to a request.
LEMMA TickKeeps ==
  ASSUME IInv, Tick
  PROVE  IInv'
  <1>1. Locals /\ Stored
    BY TypeParts DEF IInv
  <1>2. UNCHANGED <<guard, issued, receipt, pc, subject, fresh, ticket, outcome,
                    lapsed, asked, answered, observed, faults>>
    BY DEF Tick, history
  <1>3. run' = [s \in Runs |-> Ticked(run[s])]
    BY DEF Tick, Ticked, Counted
  <1>4. \A s \in Runs : /\ run[s] \in RunRow
                        /\ run'[s] \in RunRow
                        /\ run'[s].phase = run[s].phase
                        /\ run'[s].attempt = run[s].attempt
                        /\ run'[s].output = run[s].output
                        /\ run'[s].wait = CountDown(run[s].wait)
    BY <1>1, <1>3, TickedRow DEF Stored
  <1>5. run' \in [Runs -> RunRow]
    BY <1>3, <1>4
  <1>6. /\ lease.left \in Nat
        /\ lease' \in [owner : Callers \cup {None}, left : Nat]
        /\ lease'.owner = lease.owner /\ lease'.left = CountDown(lease.left)
    <2>1. lease.left \in Nat /\ CountDown(lease.left) \in Nat
      BY <1>1, CountDownType DEF Stored
    <2> QED
      BY <1>1, <2>1 DEF Stored, Tick
  <1>7. \A d \in Callers : left[d] \in Nat /\ CountDown(left[d]) \in Nat
    BY <1>1, CountDownType DEF Locals
  <1>8. \A d \in Callers : left'[d] = CountDown(left[d])
    BY DEF Tick
  <1>9. left' \in [Callers -> Nat]
    BY <1>7 DEF Tick
  <1>10. Locals' /\ Stored'
    BY <1>1, <1>2, <1>5, <1>6, <1>9 DEF Locals, Stored
  <1>11. \A s \in Runs : RunInv(s)'
    BY <1>2, <1>4, CountDownType DEF IInv, RunInv
  <1>12. ASSUME NEW d \in Callers PROVE CallerInv(d)'
    <2>1. CASE pc[d] = "idle"
      BY <1>2, <2>1, IdleInv
    <2>2. CASE pc[d] # "idle"
      <3>1. subject[d] \in Runs /\ subject'[d] = subject[d] /\ pc'[d] = pc[d] /\ CallerInv(d)
        BY <1>2, <2>2 DEF IInv, CallerInv
      <3>2. TimeInv(d)'
        <4> DEFINE w == run[subject[d]].wait
        <4>1. w \in Nat /\ run'[subject[d]].wait = CountDown(w)
          BY <1>4, <3>1, RowFields
        <4>2. run'[subject[d]].attempt = run[subject[d]].attempt
          BY <1>4, <3>1
        <4>3. TimeInv(d)
          BY <3>1 DEF CallerInv
        <4> HIDE DEF w
        <4>4. ASSUME pc[d] \in {"guarding", "sending"}, Current(d)'
              PROVE  CountDown(w) >= lease'.left + Margin
          <5>1. lease.left > 0 /\ lease.owner = d /\ lease'.left = lease.left - 1
            BY <1>6, <4>4, CountDownType DEF Current
          <5>2. w >= lease.left + Margin
            BY <4>3, <4>4, <5>1 DEF TimeInv, Current, Row, w
          <5> QED
            BY <1>6, <4>1, <5>1, <5>2, TimeAssumption DEF CountDown
        <4>5. ASSUME pc[d] = "inFlight"
              PROVE  CountDown(w) > CountDown(left[d])
          <5>1. w > left[d] /\ left[d] > 0 /\ left[d] \in Nat
            BY <1>7, <4>3, <4>5 DEF TimeInv, Row, Tick, w
          <5> QED
            BY <4>1, <5>1 DEF CountDown
        <4>6. ASSUME pc[d] \in RecoverSteps
              PROVE  run[subject[d]].attempt /\ CountDown(w) = 0
          BY <4>3, <4>6 DEF TimeInv, Row, CountDown, w
        <4> QED
          BY <1>8, <3>1, <4>1, <4>2, <4>4, <4>5, <4>6 DEF TimeInv, Row
      <3>3. FreshInv(d)' /\ AttemptInv(d)' /\ VerifyInv(d)'
        BY <1>2, <1>4, <3>1 DEF CallerInv, FreshInv, AttemptInv, VerifyInv, Row
      <3> QED
        BY <3>1, <3>2, <3>3 DEF CallerInv
    <2> QED
      BY <2>1, <2>2
  <1>13. Exclusive' /\ GuardCoversRequest'
    BY <1>2 DEF IInv, Exclusive, GuardCoversRequest
  <1> QED
    BY <1>10, <1>11, <1>12, <1>13, TypePartsNext DEF IInv

-----------------------------------------------------------------------------
(***************************************************************************)
(* The inductive invariant and its consequences.                           *)
(***************************************************************************)

LEMMA InitInv == Init => IInv
  <1> SUFFICES ASSUME Init PROVE IInv
    OBVIOUS
  <1>1. TypeOK
    BY NoRunType DEF Init, NoLease, TypeOK, Receipts, Steps
  <1>2. \A r \in Runs : run[r].phase = "absent" /\ ~run[r].attempt /\ run[r].output = None
    BY DEF Init, NoRun
  <1>3. \A r \in Runs : RunInv(r)
    BY <1>2, ValueAssumption DEF Init, RunInv, Untried
  <1>4. \A c \in Callers : CallerInv(c)
    BY DEF Init, CallerInv, FreshInv, AttemptInv, TimeInv, VerifyInv, AttemptSteps,
       BeforeReceipt, RecoverSteps
  <1>5. Exclusive /\ GuardCoversRequest
    BY DEF Init, Exclusive, GuardCoversRequest, AttemptSteps
  <1> QED
    BY <1>1, <1>3, <1>4, <1>5 DEF IInv

LEMMA CallerKeeps ==
  ASSUME IInv, NEW c \in Callers, Begin(c) \/ CallerStep(c) \/ ApplyFails(c) \/ Crash(c)
  PROVE  IInv'
  <1>1. CASE Begin(c)
    BY <1>1, ApproveKeeps, ApplyKeeps, VerifyKeeps DEF Begin
  <1>2. CASE ApproveStep(c)
    BY <1>2, PutApprovalKeeps, RefusedKeeps, ApprovalReadKeeps, ApprovalStoreKeeps
    DEF ApproveStep
  <1>3. CASE ApplyStep(c)
    BY <1>3, AcquireLockKeeps, PreflightKeeps, AttemptReadKeeps, GuardCheckKeeps,
       AttemptStoreKeeps, GuardStoreKeeps, LeaseLostKeeps, SendKeeps, NotSentKeeps,
       AnswerKeeps, RecordReceiptKeeps, ApplyReadKeeps, ApplyStoreKeeps, ReleaseKeeps
    DEF ApplyStep
  <1>4. CASE VerifyStep(c)
    BY <1>4, RecoverReceiptKeeps, RecoverReadKeeps, RecoverStoreKeeps, ObserveKeeps,
       ObservedReadKeeps, ObservedStoreKeeps, GuardReadKeeps, GuardCloseKeeps
    DEF VerifyStep
  <1> QED
    BY <1>1, <1>2, <1>3, <1>4, ApplyFailsKeeps, CrashKeeps DEF CallerStep

THEOREM Invariance == Spec => []IInv
  <1>1. IInv /\ [Next]_vars => IInv'
    BY PlanKeeps, ExpireApprovalKeeps, CallerKeeps, TickKeeps, StutterKeeps DEF Next
  <1> QED
    BY <1>1, InitInv, PTL DEF Spec

\* Every variable keeps its type, for any constants.
THEOREM TypeCorrect == Spec => []TypeOK
  <1>1. IInv => TypeOK
    BY DEF IInv
  <1> QED
    BY <1>1, Invariance, PTL

\* A campaign that was asked to pause is guarded until its effect is observed:
\* no other plan gets as far as a request, whichever calls race or die.
THEOREM GuardCoversRequestHolds == Spec => []GuardCoversRequest
  <1>1. IInv => GuardCoversRequest
    BY DEF IInv
  <1> QED
    BY <1>1, Invariance, PTL

\* The output of a run is that of its only receipt.
THEOREM OutputMatchesReceiptHolds == Spec => []OutputMatchesReceipt
  <1>1. IInv => OutputMatchesReceipt
    BY DEF IInv, RunInv, OutputMatchesReceipt
  <1> QED
    BY <1>1, Invariance, PTL

\* A run whose request may be sent, or is in flight, has not been recovered:
\* its wait is longer than the lease, or than the time left to the request.
LEMMA Untouched ==
  ASSUME IInv, NEW c \in Callers,
         pc[c] = "inFlight" \/ (pc[c] = "sending" /\ Current(c))
  PROVE  /\ subject[c] \in Runs
         /\ receipt[subject[c]] = None
         /\ Row(c).attempt /\ Row(c).output = None
         /\ subject[c] \notin observed
         /\ guard = [run |-> subject[c], open |-> TRUE]
  <1>1. CallerInv(c) /\ subject[c] \in Runs /\ RunInv(subject[c])
    BY DEF IInv, CallerInv
  <1>2. Row(c).wait \in Nat /\ lease.left \in Nat /\ left[c] \in Nat
    BY <1>1, TypeParts, RowFields DEF IInv, Stored, Locals, Row
  <1>3. Row(c).wait > 0
    BY <1>1, <1>2, TimeAssumption DEF CallerInv, TimeInv, Current
  <1>4. receipt[subject[c]] = None
    BY <1>1, <1>3 DEF CallerInv, AttemptInv, RunInv, BeforeReceipt, Row
  <1>5. Row(c).attempt /\ Row(c).output = None
    BY <1>1, <1>4, ValueAssumption DEF CallerInv, AttemptInv, RunInv, AttemptSteps, Row
  <1> QED
    BY <1>1, <1>4, <1>5 DEF CallerInv, AttemptInv, RunInv, Row

\* No recovery, report or observation of a run whose request is in flight, for
\* any lease, verification delay, margin and request limit up to the margin.
THEOREM NoRecoveryInFlightHolds == Spec => []NoRecoveryInFlight
  <1>1. IInv => NoRecoveryInFlight
    BY Untouched DEF NoRecoveryInFlight
  <1> QED
    BY <1>1, Invariance, PTL

LEMMA AskedBySend ==
  ASSUME [Next]_vars, NEW r \in Runs, asked'[r] # asked[r]
  PROVE  \E c \in Callers : Send(c)
  <1>1. asked' # asked
    OBVIOUS
  <1>2. CASE UNCHANGED vars \/ Tick \/ \E s \in Runs : Plan(s) \/ ExpireApproval(s)
    BY <1>1, <1>2 DEF vars, Tick, Plan, ExpireApproval, history
  <1>3. ASSUME NEW c \in Callers, Begin(c) \/ ApplyFails(c) \/ Crash(c)
        PROVE  FALSE
    BY <1>1, <1>3 DEF Begin, Approve, Apply, Verify, ApplyFails, Crash, history
  <1>4. ASSUME NEW c \in Callers, ApproveStep(c)
        PROVE  FALSE
    BY <1>1, <1>4 DEF ApproveStep, PutApproval, Refused, ApprovalRead, ApprovalStore, history
  <1>5. ASSUME NEW c \in Callers, VerifyStep(c)
        PROVE  FALSE
    BY <1>1, <1>5 DEF VerifyStep, RecoverReceipt, RecoverRead, RecoverStore, Observe,
       ObservedRead, ObservedStore, GuardRead, GuardClose, history
  <1>6. ASSUME NEW c \in Callers, ApplyStep(c)
        PROVE  Send(c)
    BY <1>1, <1>6 DEF ApplyStep, AcquireLock, Preflight, AttemptRead, GuardCheck, AttemptStore,
       GuardStore, LeaseLost, NotSent, Answer, RecordReceipt, ApplyRead, ApplyStore, Release,
       history
  <1> QED
    BY <1>2, <1>3, <1>4, <1>5, <1>6 DEF Next, CallerStep

\* One request per plan, by the holder of an unexpired lease, behind a durable
\* attempt and an open guard, and before any receipt.
THEOREM RequestIsExclusiveHolds == Spec => RequestIsExclusive
  <1>1. IInv /\ [Next]_vars =>
          \A r \in Runs : asked'[r] # asked[r] =>
             /\ asked[r] = 0
             /\ \E c \in Callers : subject[c] = r /\ lease.owner = c /\ lease.left > 0
             /\ run[r].attempt /\ run[r].output = None
             /\ receipt[r] = None
             /\ guard = [run |-> r, open |-> TRUE]
    <2> SUFFICES ASSUME IInv, [Next]_vars, NEW r \in Runs, asked'[r] # asked[r]
                 PROVE  /\ asked[r] = 0
                        /\ \E c \in Callers : subject[c] = r /\ lease.owner = c /\ lease.left > 0
                        /\ run[r].attempt /\ run[r].output = None
                        /\ receipt[r] = None
                        /\ guard = [run |-> r, open |-> TRUE]
      OBVIOUS
    <2>1. PICK c \in Callers : Send(c)
      BY AskedBySend
    <2>2. pc[c] = "sending" /\ Current(c) /\ CallerInv(c)
      BY <2>1 DEF Send, IInv
    <2>3. subject[c] = r
      BY <2>1 DEF Send, IInv, TypeOK
    <2>4. asked[r] = 0
      BY <2>2, <2>3 DEF CallerInv, AttemptInv
    <2>5. run[r].attempt /\ run[r].output = None /\ receipt[r] = None
          /\ guard = [run |-> r, open |-> TRUE]
      BY <2>2, <2>3, Untouched DEF Row
    <2> QED
      BY <2>2, <2>3, <2>4, <2>5 DEF Current
  <1> QED
    BY <1>1, Invariance, PTL DEF Spec, RequestIsExclusive

-----------------------------------------------------------------------------
(***************************************************************************)
(* The workflow implements MutationContract.  What the contract sees of a  *)
(* step: nothing, a request, an answer, a report or an observation.        *)
(***************************************************************************)
SameOutputs == \A s \in Runs : run'[s].output = run[s].output

UnseenStep == SameOutputs /\ UNCHANGED <<asked, answered, observed>>

RequestStep(r) ==
    /\ asked[r] = 0 /\ r \notin observed
    /\ \A s \in Runs : asked[s] > 0 => s \in observed
    /\ asked'[r] > 0 /\ \A s \in Runs \ {r} : asked'[s] = asked[s]
    /\ SameOutputs /\ UNCHANGED <<answered, observed>>

AnswerStep(r) ==
    /\ asked[r] > 0 /\ r \notin observed /\ answered[r] = None
    /\ \E o \in Outcomes : answered' = [answered EXCEPT ![r] = o]
    /\ SameOutputs /\ UNCHANGED <<asked, observed>>

ReportStep(r) ==
    /\ run[r].output = None
    /\ \E o \in {answered[r], "unknown"} \ {None} : run'[r].output = o
    /\ \A s \in Runs \ {r} : run'[s].output = run[s].output
    /\ UNCHANGED <<asked, answered, observed>>

ObservationStep(r) ==
    /\ run[r].output # None
    /\ observed' = observed \cup {r}
    /\ SameOutputs /\ UNCHANGED <<asked, answered>>

SeenStep(r) == RequestStep(r) \/ AnswerStep(r) \/ ReportStep(r) \/ ObservationStep(r)

LEMMA RequestSeen ==
  ASSUME IInv, NEW c \in Callers, Send(c)
  PROVE  RequestStep(subject[c])
  <1> DEFINE r == subject[c]
  <1>1. pc[c] = "sending" /\ Current(c) /\ CallerInv(c)
    BY DEF Send, IInv
  <1>2. r \in Runs /\ r \notin observed /\ guard = [run |-> r, open |-> TRUE]
    BY <1>1, Untouched
  <1>3. asked[r] = 0 /\ asked' = [asked EXCEPT ![r] = asked[r] + 1] /\ asked \in [Runs -> Nat]
    BY <1>1 DEF Send, CallerInv, AttemptInv, IInv, TypeOK
  <1>4. asked'[r] > 0 /\ \A s \in Runs \ {r} : asked'[s] = asked[s]
    BY <1>2, <1>3
  <1>5. ASSUME NEW s \in Runs, asked[s] > 0, s \notin observed
        PROVE  FALSE
    <2>1. guard = [run |-> s, open |-> TRUE]
      BY <1>5 DEF IInv, GuardCoversRequest
    <2>2. s = r
      BY <1>2, <2>1
    <2> QED
      BY <1>3, <1>5, <2>2
  <1> QED
    BY <1>2, <1>3, <1>4, <1>5 DEF RequestStep, SameOutputs, Send, store

LEMMA AnswerSeen ==
  ASSUME IInv, NEW c \in Callers, Answer(c)
  PROVE  AnswerStep(subject[c])
  <1>1. pc[c] = "inFlight" /\ CallerInv(c)
    BY DEF Answer, IInv
  <1>2. subject[c] \notin observed
    BY <1>1, Untouched
  <1> QED
    BY <1>1, <1>2 DEF Answer, AnswerStep, SameOutputs, CallerInv, AttemptInv, store

\* The report of an apply or a recovery is the first one of its run.
LEMMA ReportSeen ==
  ASSUME IInv, NEW c \in Callers, pc[c] # "idle",
         NEW o \in Outcomes, NEW n \in Nat,
         run' = [run EXCEPT ![subject[c]] = Reported(@, o, n)],
         Row(c).output = None,
         o \in {answered[subject[c]], "unknown"},
         UNCHANGED <<asked, answered, observed>>
  PROVE  ReportStep(subject[c])
  <1> DEFINE r == subject[c]
  <1>1. r \in Runs /\ run \in [Runs -> RunRow] /\ run[r] \in RunRow
    BY DEF IInv, TypeOK, CallerInv
  <1>2. Reported(run[r], o, n) \in RunRow /\ Reported(run[r], o, n).output = o
    BY <1>1, ReportedRow
  <1>3. run'[r] = Reported(run[r], o, n) /\ \A s \in Runs : s # r => run'[s] = run[s]
    BY <1>1
  <1>4. o # None
    BY ValueAssumption DEF Outcomes
  <1> QED
    BY <1>2, <1>3, <1>4 DEF ReportStep, Row

LEMMA ObservationSeen ==
  ASSUME IInv, NEW c \in Callers, ObservedStore(c)
  PROVE  UnseenStep \/ ObservationStep(subject[c])
  <1> DEFINE r == subject[c]
  <1>1. /\ pc[c] = "observedStore" /\ CallerInv(c) /\ r \in Runs
        /\ run \in [Runs -> RunRow] /\ run[r] \in RunRow
    BY DEF ObservedStore, IInv, CallerInv, TypeOK
  <1>2. CASE "run" \in fresh[c]
    <2>1. PICK p \in Concluded(outcome[c]) : run' = [run EXCEPT ![r].phase = p]
      BY <1>2 DEF ObservedStore
    <2>2. p \in Phases
      BY <1>1, ConcludedType DEF CallerInv, VerifyInv
    <2>3. run' = [run EXCEPT ![r] = Moved(run[r], p)]
      BY <1>1, <2>1 DEF Moved
    <2>4. Moved(run[r], p).output = run[r].output
      BY <1>1, <2>2, MovedRow
    <2>5. SameOutputs
      BY <1>1, <2>3, <2>4 DEF SameOutputs
    <2> QED
      BY <1>1, <1>2, <2>5
      DEF ObservedStore, UnseenStep, ObservationStep, CallerInv, VerifyInv, Row
  <1>3. CASE "run" \notin fresh[c]
    BY <1>3 DEF ObservedStore, UnseenStep, SameOutputs
  <1> QED
    BY <1>2, <1>3

\* The other stores of a run keep its output.
LEMMA UnseenStore ==
  ASSUME IInv, NEW c \in Callers, ApprovalStore(c) \/ AttemptStore(c)
  PROVE  UnseenStep
  <1> DEFINE r == subject[c]
  <1>1. /\ r \in Runs /\ run \in [Runs -> RunRow] /\ run[r] \in RunRow
        /\ ticket[c] \in Nat /\ lease.left \in Nat
    BY DEF ApprovalStore, AttemptStore, IInv, CallerInv, TypeOK
  <1>2. UNCHANGED <<asked, answered, observed>>
    BY DEF ApprovalStore, AttemptStore, history
  <1>3. CASE run' = run
    BY <1>2, <1>3 DEF UnseenStep, SameOutputs
  <1>4. CASE ApprovalStore(c) /\ run' # run
    <2>1. run' = [run EXCEPT ![r] = Approved(run[r], ticket[c])]
      BY <1>1, <1>4 DEF ApprovalStore, Approved
    <2>2. Approved(run[r], ticket[c]).output = run[r].output
      BY <1>1, ApprovedRow
    <2> QED
      BY <1>1, <1>2, <2>1, <2>2 DEF UnseenStep, SameOutputs
  <1>5. CASE AttemptStore(c) /\ run' # run
    <2>1. PICK w \in IF Current(c) THEN {RecoverableIn(lease.left)} ELSE 0..RecoverableIn(0) :
             run' = [run EXCEPT ![r].phase = "verifying", ![r].attempt = TRUE, ![r].wait = w]
      BY <1>5 DEF AttemptStore
    <2>2. w \in Nat
      BY <1>1, <2>1, WaitType
    <2>3. run' = [run EXCEPT ![r] = Attempted(run[r], w)]
      BY <1>1, <2>1 DEF Attempted
    <2>4. Attempted(run[r], w).output = run[r].output
      BY <1>1, <2>2, AttemptedRow
    <2> QED
      BY <1>1, <1>2, <2>3, <2>4 DEF UnseenStep, SameOutputs
  <1> QED
    BY <1>3, <1>4, <1>5

LEMMA UnseenClock ==
  ASSUME IInv, Tick \/ \E r \in Runs : Plan(r)
  PROVE  UnseenStep
  <1>1. run \in [Runs -> RunRow]
    BY DEF IInv, TypeOK
  <1>2. CASE Tick
    <2>1. run' = [s \in Runs |-> Ticked(run[s])]
      BY <1>2 DEF Tick, Ticked, Counted
    <2>2. \A s \in Runs : run'[s].output = run[s].output
      BY <1>1, <2>1, TickedRow
    <2> QED
      BY <1>2, <2>2 DEF Tick, UnseenStep, SameOutputs, history
  <1>3. ASSUME NEW r \in Runs, Plan(r)
        PROVE  UnseenStep
    <2> DEFINE new == [NoRun EXCEPT !.phase = "planned"]
    <2>1. run' = [run EXCEPT ![r] = new] /\ run[r].output = None
      BY <1>3 DEF Plan, IInv, RunInv, Untried
    <2>2. new.output = None
      BY NoRunType
    <2> HIDE DEF new
    <2>3. SameOutputs
      BY <1>1, <2>1, <2>2 DEF SameOutputs
    <2> QED
      BY <1>3, <2>3 DEF Plan, UnseenStep, history
  <1> QED
    BY <1>2, <1>3

LEMMA CallerSeen ==
  ASSUME IInv, NEW c \in Callers, Begin(c) \/ CallerStep(c) \/ ApplyFails(c) \/ Crash(c)
  PROVE  UnseenStep \/ SeenStep(subject[c])
  <1>1. CASE Begin(c) \/ ApplyFails(c) \/ Crash(c)
    BY <1>1 DEF Begin, Approve, Apply, Verify, ApplyFails, Crash, UnseenStep, SameOutputs,
       store, history
  <1>2. CASE ApproveStep(c)
    BY <1>2, UnseenStore DEF ApproveStep, PutApproval, Refused, ApprovalRead, UnseenStep,
       SameOutputs, store, history
  <1>3. CASE ApplyStep(c)
    <2>1. CASE Send(c) \/ Answer(c)
      BY <2>1, RequestSeen, AnswerSeen DEF SeenStep
    <2>2. CASE ApplyStore(c)
      <3>1. CASE "run" \in fresh[c]
        <4>1. PICK n \in 0..Delay : run' = [run EXCEPT ![subject[c]] = Reported(@, outcome[c], n)]
          BY <2>2, <3>1 DEF ApplyStore
        <4>2. /\ outcome[c] \in Outcomes /\ outcome[c] \in {answered[subject[c]], "unknown"}
              /\ Row(c).output = None /\ n \in Nat
          BY <2>2, <3>1, TimeAssumption DEF ApplyStore, IInv, CallerInv, AttemptInv, FreshInv
        <4>3. ReportStep(subject[c])
          BY <2>2, <4>1, <4>2, ReportSeen DEF ApplyStore, history
        <4> QED
          BY <4>3 DEF SeenStep
      <3>2. CASE "run" \notin fresh[c]
        BY <2>2, <3>2 DEF ApplyStore, UnseenStep, SameOutputs, history
      <3> QED
        BY <3>1, <3>2
    <2>3. CASE AttemptStore(c)
      BY <2>3, UnseenStore
    <2>4. CASE ~(Send(c) \/ Answer(c) \/ ApplyStore(c) \/ AttemptStore(c))
      BY <1>3, <2>4 DEF ApplyStep, AcquireLock, Preflight, AttemptRead, GuardCheck, GuardStore,
         LeaseLost, NotSent, RecordReceipt, ApplyRead, Release, UnseenStep, SameOutputs,
         store, history
    <2> QED
      BY <2>1, <2>2, <2>3, <2>4
  <1>4. CASE VerifyStep(c)
    <2>1. CASE ObservedStore(c)
      BY <2>1, ObservationSeen DEF SeenStep
    <2>2. CASE RecoverStore(c)
      <3>1. CASE "run" \in fresh[c]
        <4>1. run' = [run EXCEPT ![subject[c]] = Reported(@, "unknown", 0)]
          BY <2>2, <3>1 DEF RecoverStore, RecoveredOutput
        <4>2. Row(c).output = None /\ "unknown" \in Outcomes
          BY <2>2, <3>1 DEF RecoverStore, IInv, CallerInv, FreshInv, Outcomes
        <4>3. ReportStep(subject[c])
          BY <2>2, <4>1, <4>2, ReportSeen DEF RecoverStore, history
        <4> QED
          BY <4>3 DEF SeenStep
      <3>2. CASE "run" \notin fresh[c]
        BY <2>2, <3>2 DEF RecoverStore, UnseenStep, SameOutputs, history
      <3> QED
        BY <3>1, <3>2
    <2>3. CASE ~(ObservedStore(c) \/ RecoverStore(c))
      BY <1>4, <2>3 DEF VerifyStep, RecoverReceipt, RecoverRead, Observe, ObservedRead,
         GuardRead, GuardClose, UnseenStep, SameOutputs, store, history
    <2> QED
      BY <2>1, <2>2, <2>3
  <1> QED
    BY <1>1, <1>2, <1>3, <1>4 DEF CallerStep

LEMMA NextSeen ==
  ASSUME IInv, [Next]_vars
  PROVE  UnseenStep \/ \E r \in Runs : SeenStep(r)
  <1>1. ASSUME NEW c \in Callers, Begin(c) \/ CallerStep(c) \/ ApplyFails(c) \/ Crash(c)
        PROVE  UnseenStep \/ \E r \in Runs : SeenStep(r)
    <2>1. CASE subject[c] \in Runs
      BY <1>1, <2>1, CallerSeen
    <2>2. CASE subject[c] \notin Runs
      <3>1. pc[c] = "idle"
        BY <2>2 DEF IInv, CallerInv
      <3>2. Begin(c)
        BY <1>1, <3>1 DEF CallerStep, ApproveStep, PutApproval, Refused, ApprovalRead,
           ApprovalStore, ApplyStep, AcquireLock, Preflight, AttemptRead, GuardCheck,
           AttemptStore, GuardStore, LeaseLost, Send, NotSent, Answer, RecordReceipt,
           ApplyRead, ApplyStore, Release, VerifyStep, RecoverReceipt, RecoverRead,
           RecoverStore, Observe, ObservedRead, ObservedStore, GuardRead, GuardClose,
           ApplyFails, ApplySteps, Crash
      <3> QED
        BY <3>2 DEF Begin, Approve, Apply, Verify, UnseenStep, SameOutputs, store, history
    <2> QED
      BY <2>1, <2>2
  <1>2. CASE \E r \in Runs : ExpireApproval(r)
    BY <1>2 DEF ExpireApproval, UnseenStep, SameOutputs, store, history
  <1>3. CASE UNCHANGED vars
    BY <1>3 DEF vars, UnseenStep, SameOutputs
  <1> QED
    BY <1>1, <1>2, <1>3, UnseenClock DEF Next

\* The contract's view of the state.
Request == [r \in Runs |-> IF r \in observed THEN "observed"
                           ELSE IF asked[r] > 0 THEN "sent" ELSE "none"]
Report == [r \in Runs |-> run[r].output]

LEMMA ContractStep ==
  ASSUME IInv, [Next]_vars
  PROVE  [Contract!Next]_(Contract!cvars)
  <1>0. answered \in [Runs -> Outcomes \cup {None}] /\ observed \subseteq Runs
        /\ asked \in [Runs -> Nat]
    BY DEF IInv, TypeOK
  <1>1. CASE UnseenStep
    <2>1. Request' = Request /\ Report' = Report /\ answered' = answered
      BY <1>1 DEF UnseenStep, SameOutputs, Request, Report
    <2> QED
      BY <2>1 DEF Request, Report, Contract!cvars
  <1>2. ASSUME NEW r \in Runs, RequestStep(r)
        PROVE  Contract!Next
    <2>1. Request[r] = "none" /\ \A q \in Runs : Request[q] # "sent"
      BY <1>2 DEF RequestStep, Request
    <2>2. Request' = [Request EXCEPT ![r] = "sent"]
      <3>1. \A s \in Runs \ {r} : Request'[s] = Request[s]
        BY <1>2 DEF RequestStep, Request
      <3>2. Request'[r] = "sent"
        BY <1>2 DEF RequestStep, Request
      <3>3. Request' = [s \in Runs |-> Request'[s]] /\ Request = [s \in Runs |-> Request[s]]
        BY DEF Request
      <3> HIDE DEF Request
      <3> QED
        BY <3>1, <3>2, <3>3
    <2>3. answered' = answered /\ Report' = Report
      BY <1>2 DEF RequestStep, SameOutputs, Report
    <2>4. Contract!Send(r)
      BY <2>1, <2>2, <2>3 DEF Contract!Send, Request, Report
    <2> QED
      BY <2>4 DEF Contract!Next
  <1>3. ASSUME NEW r \in Runs, AnswerStep(r)
        PROVE  Contract!Next
    <2>1. Request[r] = "sent" /\ answered[r] = None
      BY <1>3 DEF AnswerStep, Request
    <2>2. Request' = Request /\ Report' = Report
      BY <1>3 DEF AnswerStep, SameOutputs, Request, Report
    <2>3. \E a \in Answers \cup {"unknown"} : answered' = [answered EXCEPT ![r] = a]
      BY <1>3 DEF AnswerStep, Outcomes
    <2>4. Contract!Answer(r)
      BY <2>1, <2>2, <2>3 DEF Contract!Answer, Request, Report
    <2> QED
      BY <2>4 DEF Contract!Next
  <1>4. ASSUME NEW r \in Runs, ReportStep(r)
        PROVE  Contract!Next
    <2>1. PICK o \in {answered[r], "unknown"} \ {None} : run'[r].output = o
      BY <1>4 DEF ReportStep
    <2>2. Report[r] = None
      BY <1>4 DEF ReportStep, Report
    <2>3. Report' = [Report EXCEPT ![r] = o]
      BY <1>4, <2>1 DEF ReportStep, Report
    <2>4. Request' = Request /\ answered' = answered
      BY <1>4 DEF ReportStep, Request
    <2>5. Contract!Report(r)
      BY <2>2, <2>3, <2>4 DEF Contract!Report, Request, Report
    <2> QED
      BY <2>5 DEF Contract!Next
  <1>5. ASSUME NEW r \in Runs, ObservationStep(r)
        PROVE  [Contract!Next]_(Contract!cvars)
    <2>1. Report[r] # None
      BY <1>5 DEF ObservationStep, Report
    <2>2. Report' = Report /\ answered' = answered
      BY <1>5 DEF ObservationStep, SameOutputs, Report
    <2>3. Request' = [Request EXCEPT ![r] = "observed"]
      BY <1>5 DEF ObservationStep, Request
    <2>4. CASE Request[r] # "observed"
      <3>1. Contract!Observe(r)
        BY <2>1, <2>2, <2>3, <2>4 DEF Contract!Observe, Request, Report
      <3> QED
        BY <3>1 DEF Contract!Next
    <2>5. CASE Request[r] = "observed"
      <3>1. Request' = Request
        BY <2>3, <2>5 DEF Request
      <3> QED
        BY <2>2, <3>1 DEF Contract!cvars, Request, Report
    <2> QED
      BY <2>4, <2>5
  <1> QED
    BY <1>1, <1>2, <1>3, <1>4, <1>5, NextSeen DEF SeenStep

\* The workflow implements the contract of a controlled mutation: a plan
\* reaches the provider at most once, requests on the target exclude each
\* other until their effect is observed, and a report is the answer or unknown.
THEOREM Implementation == Spec => ImplementsContract
  <1>1. Init => Contract!Init
    <2> SUFFICES ASSUME Init PROVE Contract!Init
      OBVIOUS
    <2>1. \A r \in Runs : run[r].output = None
      BY DEF Init, NoRun
    <2> QED
      BY <2>1 DEF Init, Contract!Init
  <1>2. IInv /\ [Next]_vars => [Contract!Next]_(Contract!cvars)
    BY ContractStep
  <1> QED
    BY <1>1, <1>2, Invariance, PTL DEF Spec, ImplementsContract, Contract!Spec
=============================================================================
