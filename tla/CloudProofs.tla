----------------------------- MODULE CloudProofs -----------------------------
(***************************************************************************)
(* Proofs about the apply of a Cloudflare plan and the lease of its        *)
(* target, for any calls, plans, operations, stores and deaths.            *)
(*                                                                         *)
(* What makes the properties inductive is who may have a lease at which    *)
(* step: a call that has come past the check of its lease owns it, unless  *)
(* its plan is one that lapsed or a live lease was taken away; a lease     *)
(* that has ended belongs to a lapsed plan; and an operation that a call   *)
(* has still to do was not done before.                                    *)
(***************************************************************************)
EXTENDS CloudApply, TLAPS

Outcome == {"succeeded", "failed", "skipped"}
LeaseRow == [owner : Owners \cup {Nobody, Gone}, fence : Nat, left : Nat, written : BOOLEAN]
Asking == {"looking", "unlinking", "counting", "staging", "committing", "creating", "filling", "refused", "thrown"}
Preparing == {"checkingApproval", "checkingLease", "checkingReceipt"}
Started == {"reading", "checking", "inFlight", "recording"}

LeaseTyped ==
    /\ backend \in {"sqlite", "local"}
    /\ leaseRecord \in LeaseRow
    /\ counter \in Nat /\ staged \in Nat
    /\ at \in [Owners -> Asking \cup {"out", "held", "dropping"}]
    /\ mine \in [Owners -> [fence : Nat, left : Nat]]
    /\ stolen \in BOOLEAN

ApplyTyped ==
    /\ approval \in [Plans -> Owners \cup {Nobody, Gone}]
    /\ engineReceipt \in [Plans -> Seq(Outcome) \cup {Nobody}]
    /\ applied = [p \in Plans |-> applied[p]] /\ \A p \in Plans : applied[p] \in [1 .. PlanSize(p) -> Nat]
    /\ applyAt \in [Owners -> {"idle", "acquiring", "releasing"} \cup Preparing \cup Started]
    /\ plan \in [Owners -> Plans \cup {Nobody}]
    /\ results \in [Owners -> Seq(Outcome)]
    /\ seen = [c \in Owners |-> seen[c]]
    /\ lapsed \subseteq Plans /\ thrown \subseteq Plans
    /\ calls \in Nat /\ deaths \in Nat

\* Where a call stands in the store of leases follows from where it stands in the
\* apply; it has results once it has started.
SoundCall(c) ==
    /\ applyAt[c] = "idle" => at[c] = "out"
    /\ applyAt[c] = "idle" <=> plan[c] = Nobody
    /\ applyAt[c] = "acquiring" => at[c] \in Asking
    /\ applyAt[c] \in Preparing \cup Started => at[c] = "held"
    /\ applyAt[c] = "releasing" => at[c] \in {"held", "dropping"}
    /\ applyAt[c] \notin Started \cup {"releasing"} => results[c] = <<>>

SoundLease(c) ==
    /\ leaseRecord.owner = c => at[c] \in {"filling", "held", "dropping"} /\ (leaseRecord.written \/ at[c] = "filling")
    /\ Owns(c) => leaseRecord.left = mine[c].left /\ (leaseRecord.left = 0 => plan[c] \in lapsed)
    /\ at[c] = "unlinking" => backend = "local" /\ lapsed # {}
    /\ at[c] = "dropping" => backend = "local" /\ (leaseRecord.owner = c \/ lapsed # {})
    /\ applyAt[c] \in {"checkingReceipt"} \cup Started => Owns(c) \/ plan[c] \in lapsed \/ stolen
    /\ applyAt[c] = "inFlight" /\ ~Late => CurrentLease(c) \/ stolen

SoundStore ==
    /\ leaseRecord.owner = Gone => lapsed # {}
    /\ leaseRecord.written => leaseRecord.owner # Nobody
    /\ LeaseKept

\* That the plan may be applied once more: EffectOnce admits it.
Excused(p) == backend = "local" /\ (p \in lapsed \cup thrown \/ stolen)
Untouched(p) == \A i \in 1 .. PlanSize(p) : applied[p][i] = 0

\* A call that has started has not done what it is at, nor what follows it.  In the
\* SQLite store that is so from the beginning.
SoundEffects(c) ==
    /\ applyAt[c] \in Started \/ (backend = "sqlite" /\ applyAt[c] \in {"acquiring"} \cup Preparing)
           => Excused(plan[c]) \/ \A i \in 1 .. PlanSize(plan[c]) : i >= Nth(c) => applied[plan[c]][i] = 0
    /\ backend = "sqlite" /\ applyAt[c] # "idle" => approval[plan[c]] = c

\* Nothing was done of a plan that has neither an approval, in the SQLite store,
\* nor a receipt, in the file store, and that no call has started.
SoundPlan(p) ==
    /\ \A i \in 1 .. PlanSize(p) : applied[p][i] > 1 => Excused(p)
    /\ backend = "sqlite" /\ approval[p] = Nobody => Untouched(p)
    /\ backend = "local" /\ engineReceipt[p] = Nobody /\ (\A c \in Owners : plan[c] = p => applyAt[c] \notin Started)
           => Untouched(p) \/ Excused(p)

\* What a merge has read is what there is, or the lease is another's by now; when
\* requests land while the lease they were checked under lasts.
SoundSettings(c) ==
    ~Late /\ applyAt[c] \in {"checking", "inFlight"} /\ Change(c) = "merge"
        => settings \subseteq seen[c] \/ leaseRecord.owner # c \/ stolen

CloudIndInv ==
    /\ LeaseTyped /\ ApplyTyped /\ SoundStore
    /\ \A c \in Owners : SoundCall(c) /\ SoundLease(c) /\ SoundEffects(c) /\ SoundSettings(c)
    /\ \A p \in Plans : SoundPlan(p)

-----------------------------------------------------------------------------
\* The steps of the store of leases, for one call.
LEMMA MaxOfTwo == ASSUME NEW a \in Nat, NEW b \in Nat PROVE Max({a, b}) \in Nat
<1>1. \E x \in {a, b} : \A y \in {a, b} : x >= y
  OBVIOUS
<1>2. Max({a, b}) \in {a, b}
  BY <1>1 DEF Max
<1> QED
  BY <1>2

\* Beside the call nothing of at and mine changes, and of its lease only the fence.
OneLease(c) ==
    /\ \A d \in Owners \ {c} : at'[d] = at[d] /\ mine'[d] = mine[d]
    /\ mine'[c].left = mine[c].left
    /\ backend' = backend

LEMMA FenceGiven ==
    ASSUME LeaseTyped, NEW c \in Owners, NEW fence \in Nat, mine' = [mine EXCEPT ![c].fence = fence]
    PROVE  /\ mine' \in [Owners -> [fence : Nat, left : Nat]] /\ mine'[c].left = mine[c].left /\ mine'[c].fence = fence
           /\ \A d \in Owners \ {c} : mine'[d] = mine[d]
<1>1. PICK m \in [fence : Nat, left : Nat] : m = mine[c]
  BY DEF LeaseTyped
<1>2. [m EXCEPT !.fence = fence] = [fence |-> fence, left |-> m.left]
  OBVIOUS
<1>3. mine' = [mine EXCEPT ![c] = [m EXCEPT !.fence = fence]]
  BY <1>1
<1>4. mine' = [mine EXCEPT ![c] = [fence |-> fence, left |-> m.left]]
  BY <1>2, <1>3
<1> QED
  BY <1>1, <1>4 DEF LeaseTyped

LEMMA StepTyped ==
    ASSUME LeaseTyped, NEW c \in Owners, NEW s \in Asking \cup {"out", "held", "dropping"}, Step(c, s)
    PROVE  /\ at' \in [Owners -> Asking \cup {"out", "held", "dropping"}] /\ at'[c] = s
           /\ \A d \in Owners \ {c} : at'[d] = at[d]
  BY DEF LeaseTyped, Step

LEMMA LeaseRows ==
    ASSUME LeaseTyped, NEW c \in Owners
    PROVE  /\ NoRecord \in LeaseRow
           /\ [NoRecord EXCEPT !.owner = c] = [owner |-> c, fence |-> 0, left |-> 0, written |-> FALSE]
           /\ [NoRecord EXCEPT !.owner = c] \in LeaseRow
           /\ [leaseRecord EXCEPT !.owner = Gone] \in LeaseRow
           /\ [leaseRecord EXCEPT !.owner = Gone].owner = Gone
           /\ [leaseRecord EXCEPT !.owner = Gone].left = leaseRecord.left
           /\ [leaseRecord EXCEPT !.owner = Gone].written = leaseRecord.written
           /\ \A n \in Nat, f \in Nat : [owner |-> c, fence |-> f, left |-> n, written |-> TRUE] \in LeaseRow
<1>1. NoRecord = [owner |-> Nobody, fence |-> 0, left |-> 0, written |-> FALSE] /\ NoRecord \in LeaseRow
  BY DEF LeaseRow, NoRecord
<1>2. [NoRecord EXCEPT !.owner = c] = [owner |-> c, fence |-> 0, left |-> 0, written |-> FALSE]
  <2>1. PICK r \in LeaseRow : r = NoRecord
    BY <1>1
  <2>2. [r EXCEPT !.owner = c] = [owner |-> c, fence |-> r.fence, left |-> r.left, written |-> r.written]
    BY DEF LeaseRow
  <2> QED
    BY <1>1, <2>1, <2>2
<1>3. [owner |-> c, fence |-> 0, left |-> 0, written |-> FALSE] \in LeaseRow
  BY DEF LeaseRow
<1>4. PICK l \in LeaseRow : l = leaseRecord
  BY DEF LeaseTyped
<1>5. [l EXCEPT !.owner = Gone] = [owner |-> Gone, fence |-> l.fence, left |-> l.left, written |-> l.written]
  BY DEF LeaseRow
<1>6. [owner |-> Gone, fence |-> l.fence, left |-> l.left, written |-> l.written] \in LeaseRow
  BY DEF LeaseRow
<1>7. \A n \in Nat, f \in Nat : [owner |-> c, fence |-> f, left |-> n, written |-> TRUE] \in LeaseRow
  BY DEF LeaseRow
<1> QED
  BY <1>1, <1>2, <1>3, <1>4, <1>5, <1>6, <1>7

LEMMA AcquireTyped ==
    ASSUME LeaseTyped, NEW c \in Owners, AcquireStep(c)
    PROVE  LeaseTyped' /\ OneLease(c) /\ at'[c] \in Asking \cup {"held"} /\ at[c] \in Asking
<1>1. mine[c].left \in Nat /\ mine[c].fence \in Nat /\ leaseRecord.fence \in Nat /\ counter \in Nat /\ staged \in Nat
  BY DEF LeaseTyped, LeaseRow
<1>2. Max({counter, mine[c].fence}) + 1 \in Nat /\ counter + 1 \in Nat
  BY <1>1, MaxOfTwo
<1>3. CASE SqliteAcquire(c)
  <2>1. CASE Step(c, "refused") /\ UNCHANGED <<leaseRecord, counter, mine>>
    BY <1>3, <2>1, StepTyped DEF SqliteAcquire, LeaseTyped, OneLease, Asking
  <2>2. CASE /\ counter' = counter + 1
             /\ leaseRecord' = [owner |-> c, fence |-> counter + 1, left |-> mine[c].left, written |-> TRUE]
             /\ mine' = [mine EXCEPT ![c].fence = counter + 1]
             /\ Step(c, "held")
    BY <1>1, <1>2, <1>3, <2>2, StepTyped, FenceGiven, LeaseRows DEF SqliteAcquire, LeaseTyped, OneLease, Asking
  <2> QED
    BY <1>3, <2>1, <2>2 DEF SqliteAcquire
<1>4. CASE Look(c)
  <2>1. PICK s \in {"thrown", "refused", "unlinking", "counting"} : Step(c, s)
    BY <1>4 DEF Look
  <2>2. mine' = [mine EXCEPT ![c].fence = leaseRecord.fence]
    BY <1>4 DEF Look
  <2> QED
    BY <1>1, <1>4, <2>1, <2>2, StepTyped, FenceGiven DEF Look, LeaseTyped, OneLease, Asking
<1>5. CASE UnlinkExpired(c)
  BY <1>5, StepTyped, LeaseRows DEF UnlinkExpired, LeaseTyped, OneLease, Asking
<1>6. CASE ReadCounter(c)
  BY <1>2, <1>6, StepTyped, FenceGiven DEF ReadCounter, LeaseTyped, OneLease, Asking
<1>7. CASE StageCounter(c)
  BY <1>1, <1>7, StepTyped DEF StageCounter, LeaseTyped, OneLease, Asking
<1>8. CASE CommitCounter(c)
  BY <1>1, <1>8, StepTyped DEF CommitCounter, LeaseTyped, OneLease, Asking
<1>9. CASE CreateLease(c)
  BY <1>9, StepTyped, LeaseRows DEF CreateLease, LeaseTyped, OneLease, Asking
<1>10. CASE FillLease(c)
  BY <1>1, <1>10, StepTyped, LeaseRows DEF FillLease, LeaseTyped, OneLease, Asking
<1> QED
  BY <1>3, <1>4, <1>5, <1>6, <1>7, <1>8, <1>9, <1>10 DEF AcquireStep

LEMMA ReleaseTyped ==
    ASSUME LeaseTyped, NEW c \in Owners, ReleaseStep(c)
    PROVE  LeaseTyped' /\ OneLease(c) /\ at'[c] \in {"out", "dropping"} /\ mine' = mine
<1>1. CASE SqliteRelease(c)
  BY <1>1, StepTyped, LeaseRows DEF SqliteRelease, LeaseTyped, OneLease
<1>2. CASE StartRelease(c)
  BY <1>2, StepTyped DEF StartRelease, LeaseTyped, OneLease
<1>3. CASE DropLease(c)
  BY <1>3, StepTyped, LeaseRows DEF DropLease, LeaseTyped, OneLease
<1> QED
  BY <1>1, <1>2, <1>3 DEF ReleaseStep

\* What the other calls see of a step of the call: no lease of theirs, or of a dead
\* process, comes up; one of theirs goes only when it has ended, or it is noted as
\* taken away; and in the file store some plan has lapsed by then.
SeenByOthers(c) ==
    /\ stolen => stolen'
    /\ stolen' => stolen \/ (backend = "local" /\ lapsed # {})
    /\ leaseRecord'.written => leaseRecord'.owner # Nobody
    /\ leaseRecord'.owner = Gone => leaseRecord' = leaseRecord
    /\ \A d \in Owners \ {c} :
        /\ leaseRecord'.owner = d => leaseRecord' = leaseRecord
        /\ leaseRecord.owner = d /\ leaseRecord' # leaseRecord
               => (leaseRecord.left = 0 \/ stolen') /\ (backend = "sqlite" \/ lapsed # {})

LEMMA KeptSeen ==
    ASSUME SoundStore, NEW c \in Owners, leaseRecord' = leaseRecord, stolen' = stolen
    PROVE  SeenByOthers(c)
  BY DEF SoundStore, SeenByOthers

LEMMA AcquireSeen ==
    ASSUME LeaseTyped, SoundStore, NEW c \in Owners, SoundLease(c), AcquireStep(c)
    PROVE  /\ SeenByOthers(c)
           /\ leaseRecord'.owner = c => at'[c] \in {"filling", "held"} /\ (leaseRecord'.written \/ at'[c] = "filling")
           /\ leaseRecord'.owner = c /\ leaseRecord'.written => at'[c] = "held" /\ leaseRecord'.left = mine'[c].left
           /\ at'[c] = "unlinking" => backend = "local" /\ leaseRecord.owner # Nobody
                                      /\ leaseRecord.left = 0 /\ leaseRecord.written /\ leaseRecord' = leaseRecord
<1>0. LeaseTyped' /\ OneLease(c) /\ at[c] \in Asking /\ at'[c] \in Asking \cup {"held"}
      /\ leaseRecord \in LeaseRow /\ stolen \in BOOLEAN
  BY AcquireTyped DEF LeaseTyped
<1>00. NoRecord.owner = Nobody /\ NoRecord.left = 0 /\ ~NoRecord.written /\ Nobody # Gone /\ Nobody # c /\ Gone # c
       /\ leaseRecord.left \in Nat /\ leaseRecord.written \in BOOLEAN
  BY <1>0, LeaseAssumption DEF NoRecord, LeaseRow
<1>1. CASE SqliteAcquire(c)
  <2>1. CASE Step(c, "refused") /\ UNCHANGED <<leaseRecord, counter, mine>>
    <3>1. at'[c] = "refused" /\ leaseRecord' = leaseRecord /\ stolen' = stolen /\ at[c] = "looking"
      BY <1>1, <2>1, StepTyped DEF SqliteAcquire, Asking
    <3> QED
      BY <3>1, KeptSeen DEF SoundLease
  <2>2. CASE /\ ~Live(leaseRecord)
             /\ leaseRecord' = [owner |-> c, fence |-> counter + 1, left |-> mine[c].left, written |-> TRUE]
             /\ mine' = [mine EXCEPT ![c].fence = counter + 1]
             /\ Step(c, "held")
    <3>1. at'[c] = "held" /\ stolen' = stolen /\ backend = "sqlite" /\ mine'[c].left = mine[c].left
      BY <1>0, <1>1, <2>2, StepTyped DEF SqliteAcquire, Asking, OneLease
    <3>2. leaseRecord'.owner = c /\ leaseRecord'.written /\ leaseRecord'.left = mine[c].left
      BY <2>2
    <3>3. \A d \in Owners : leaseRecord.owner = d => leaseRecord.left = 0
      BY <1>00, <2>2, LeaseAssumption DEF Live
    <3> QED
      BY <1>00, <3>1, <3>2, <3>3 DEF SeenByOthers
  <2> QED
    BY <1>1, <2>1, <2>2 DEF SqliteAcquire
<1>2. CASE Look(c)
  <2>1. /\ leaseRecord' = leaseRecord /\ stolen' = stolen /\ backend = "local" /\ at[c] = "looking"
        /\ \/ at'[c] \in {"thrown", "refused", "counting"}
           \/ at'[c] = "unlinking" /\ leaseRecord.written /\ ~Live(leaseRecord)
    BY <1>2, StepTyped DEF Look, Asking
  <2> QED
    BY <1>00, <2>1, KeptSeen DEF SoundLease, SoundStore, Live
<1>3. CASE UnlinkExpired(c)
  <2>1. /\ leaseRecord' = NoRecord /\ stolen' = (stolen \/ Live(leaseRecord)) /\ at'[c] = "counting"
        /\ backend = "local" /\ lapsed # {}
    BY <1>3, StepTyped DEF UnlinkExpired, SoundLease, Asking
  <2>2. \A d \in Owners : leaseRecord.owner = d => leaseRecord.left = 0 \/ stolen'
    <3>1. leaseRecord.owner # Nobody /\ leaseRecord.left > 0 => stolen'
      BY <2>1 DEF Live
    <3> QED
      BY <1>00, <3>1, LeaseAssumption
  <2>3. \A d \in Owners : leaseRecord'.owner # d
    BY <1>00, <2>1, LeaseAssumption
  <2> QED
    BY <1>00, <2>1, <2>2, <2>3 DEF SeenByOthers
<1>4. CASE ReadCounter(c) \/ StageCounter(c) \/ CommitCounter(c)
  <2>1. leaseRecord' = leaseRecord /\ stolen' = stolen /\ at[c] \in {"counting", "staging", "committing"}
        /\ at'[c] \in {"staging", "committing", "thrown", "creating"}
    BY <1>4, StepTyped DEF ReadCounter, StageCounter, CommitCounter, Asking
  <2> QED
    BY <2>1, KeptSeen DEF SoundLease
<1>5. CASE CreateLease(c)
  <2>1. CASE leaseRecord.owner = Nobody
    <3>1. leaseRecord' = [NoRecord EXCEPT !.owner = c] /\ stolen' = stolen /\ at'[c] = "filling"
      BY <1>5, <2>1, StepTyped DEF CreateLease, Asking
    <3>2. leaseRecord'.owner = c /\ ~leaseRecord'.written
      BY <3>1, LeaseRows
    <3> QED
      BY <1>00, <2>1, <3>1, <3>2, LeaseAssumption DEF SeenByOthers
  <2>2. CASE leaseRecord.owner # Nobody
    <3>1. leaseRecord' = leaseRecord /\ stolen' = stolen /\ at'[c] = "refused" /\ at[c] = "creating"
      BY <1>5, <2>2, StepTyped DEF CreateLease, Asking
    <3> QED
      BY <3>1, KeptSeen DEF SoundLease
  <2> QED
    BY <2>1, <2>2
<1>6. CASE FillLease(c)
  <2>1. at'[c] = "held" /\ at[c] = "filling" /\ stolen' = stolen /\ mine' = mine
    BY <1>6, StepTyped DEF FillLease
  <2>2. CASE leaseRecord.owner = c
    <3>1. leaseRecord' = [owner |-> c, fence |-> mine[c].fence, left |-> mine[c].left, written |-> TRUE]
      BY <1>6, <2>2 DEF FillLease
    <3>2. leaseRecord'.owner = c /\ leaseRecord'.written /\ leaseRecord'.left = mine[c].left
      BY <3>1
    <3> QED
      BY <1>00, <2>1, <2>2, <3>2 DEF SeenByOthers
  <2>3. CASE leaseRecord.owner # c
    <3>1. leaseRecord' = leaseRecord
      BY <1>6, <2>3 DEF FillLease
    <3> QED
      BY <2>1, <2>3, <3>1, KeptSeen
  <2> QED
    BY <2>2, <2>3
<1> QED
  BY <1>1, <1>2, <1>3, <1>4, <1>5, <1>6 DEF AcquireStep

LEMMA ReleaseSeen ==
    ASSUME LeaseTyped, SoundStore, NEW c \in Owners, SoundLease(c), ReleaseStep(c)
    PROVE  /\ SeenByOthers(c)
           /\ leaseRecord'.owner = c => leaseRecord' = leaseRecord /\ at'[c] = "dropping"
           /\ at'[c] = "dropping" => backend = "local" /\ leaseRecord'.owner = c
<1>0. leaseRecord \in LeaseRow /\ stolen \in BOOLEAN
  BY DEF LeaseTyped
<1>00. NoRecord.owner = Nobody /\ NoRecord.left = 0 /\ ~NoRecord.written /\ Nobody # Gone /\ Nobody # c /\ Gone # c
       /\ leaseRecord.left \in Nat /\ leaseRecord.written \in BOOLEAN
  BY <1>0, LeaseAssumption DEF NoRecord, LeaseRow
<1>1. CASE SqliteRelease(c)
  <2>1. at[c] = "held" /\ at'[c] = "out" /\ stolen' = stolen
    BY <1>1, StepTyped DEF SqliteRelease
  <2>2. CASE Owns(c)
    <3>1. leaseRecord' = NoRecord /\ leaseRecord.owner = c
      BY <1>1, <2>2 DEF SqliteRelease, Owns
    <3> QED
      BY <1>00, <2>1, <3>1, LeaseAssumption DEF SeenByOthers
  <2>3. CASE ~Owns(c)
    <3>1. leaseRecord' = leaseRecord /\ leaseRecord.owner # c
      BY <1>1, <2>1, <2>3 DEF SqliteRelease, Owns, SoundLease
    <3> QED
      BY <2>1, <3>1, KeptSeen
  <2> QED
    BY <2>2, <2>3
<1>2. CASE StartRelease(c)
  <2>1. leaseRecord' = leaseRecord /\ stolen' = stolen /\ backend = "local" /\ at[c] = "held"
        /\ at'[c] = IF Owns(c) THEN "dropping" ELSE "out"
    BY <1>2 DEF StartRelease, Step, LeaseTyped
  <2> QED
    BY <2>1, KeptSeen DEF Owns, SoundLease
<1>3. CASE DropLease(c)
  <2>1. /\ leaseRecord' = NoRecord /\ stolen' = (stolen \/ (Live(leaseRecord) /\ leaseRecord.owner # c)) /\ at'[c] = "out"
        /\ backend = "local" /\ (leaseRecord.owner = c \/ lapsed # {})
    BY <1>3, StepTyped DEF DropLease, SoundLease
  <2>2. \A d \in Owners \ {c} : leaseRecord.owner = d => leaseRecord.left = 0 \/ stolen'
    <3>1. leaseRecord.owner # Nobody /\ leaseRecord.left > 0 /\ leaseRecord.owner # c => stolen'
      BY <2>1 DEF Live
    <3> QED
      BY <1>00, <3>1, LeaseAssumption
  <2>3. \A d \in Owners : leaseRecord'.owner # d
    BY <1>00, <2>1, LeaseAssumption
  <2> QED
    BY <1>00, <2>1, <2>2, <2>3 DEF SeenByOthers
<1> QED
  BY <1>1, <1>2, <1>3 DEF ReleaseStep

-----------------------------------------------------------------------------
\* The steps of the apply, for one call.
Places == {"idle", "acquiring", "releasing"} \cup Preparing \cup Started

LEMMA GotoTyped ==
    ASSUME ApplyTyped, NEW c \in Owners, NEW s \in Places, ApplyGoto(c, s)
    PROVE  /\ applyAt' \in [Owners -> Places] /\ applyAt'[c] = s
           /\ \A d \in Owners \ {c} : applyAt'[d] = applyAt[d]
  BY DEF ApplyTyped, ApplyGoto, Places

LEMMA NextPlace == ASSUME NEW p \in Plans, NEW k \in Nat PROVE NextOperation(p, k) \in {"reading", "recording"}
  BY DEF NextOperation

LEMMA ResultTyped ==
    ASSUME ApplyTyped, NEW c \in Owners, plan[c] \in Plans, NEW ok \in Outcome, Result(c, ok)
    PROVE  /\ results' \in [Owners -> Seq(Outcome)] /\ Len(results'[c]) = Len(results[c]) + 1
           /\ seen' = [d \in Owners |-> seen'[d]]
           /\ applyAt' \in [Owners -> Places] /\ applyAt'[c] \in {"reading", "recording"}
           /\ \A d \in Owners \ {c} : results'[d] = results[d] /\ seen'[d] = seen[d] /\ applyAt'[d] = applyAt[d]
<1>1. results[c] \in Seq(Outcome) /\ Append(results[c], ok) \in Seq(Outcome)
      /\ Len(Append(results[c], ok)) = Len(results[c]) + 1 /\ Nth(c) + 1 \in Nat
  BY DEF ApplyTyped, Nth
<1>2. results' = [results EXCEPT ![c] = Append(results[c], ok)] /\ seen' = [seen EXCEPT ![c] = {}]
      /\ ApplyGoto(c, NextOperation(plan[c], Nth(c) + 1))
  BY DEF Result
<1>3. results' \in [Owners -> Seq(Outcome)] /\ results'[c] = Append(results[c], ok)
      /\ \A d \in Owners \ {c} : results'[d] = results[d]
  BY <1>1, <1>2 DEF ApplyTyped
<1>4. seen' = [d \in Owners |-> seen'[d]] /\ \A d \in Owners \ {c} : seen'[d] = seen[d]
  BY <1>2 DEF ApplyTyped
<1>5. NextOperation(plan[c], Nth(c) + 1) \in {"reading", "recording"}
  BY <1>1, NextPlace
<1>6. /\ applyAt' \in [Owners -> Places] /\ applyAt'[c] \in {"reading", "recording"}
      /\ \A d \in Owners \ {c} : applyAt'[d] = applyAt[d]
  BY <1>2, <1>5, GotoTyped DEF Places, Started
<1> QED
  BY <1>1, <1>3, <1>4, <1>6

LEMMA RetireTyped ==
    ASSUME ApplyTyped, NEW c \in Owners, Retire(c)
    PROVE  /\ approval' \in [Plans -> Owners \cup {Nobody, Gone}]
           /\ \A p \in Plans : approval'[p] = IF approval[p] = c THEN Gone ELSE approval[p]
           /\ applyAt' \in [Owners -> Places] /\ applyAt'[c] = "idle"
           /\ plan' \in [Owners -> Plans \cup {Nobody}] /\ plan'[c] = Nobody
           /\ results' \in [Owners -> Seq(Outcome)] /\ results'[c] = <<>>
           /\ seen' = [d \in Owners |-> seen'[d]]
           /\ \A d \in Owners \ {c} :
                applyAt'[d] = applyAt[d] /\ plan'[d] = plan[d] /\ results'[d] = results[d] /\ seen'[d] = seen[d]
<1>1. applyAt' \in [Owners -> Places] /\ applyAt'[c] = "idle" /\ \A d \in Owners \ {c} : applyAt'[d] = applyAt[d]
  BY GotoTyped DEF Retire, Places
<1>2. /\ approval' \in [Plans -> Owners \cup {Nobody, Gone}]
      /\ \A p \in Plans : approval'[p] = IF approval[p] = c THEN Gone ELSE approval[p]
  BY DEF Retire, ApplyTyped
<1>3. plan' \in [Owners -> Plans \cup {Nobody}] /\ plan'[c] = Nobody /\ \A d \in Owners \ {c} : plan'[d] = plan[d]
  BY DEF Retire, ApplyTyped
<1>4. results' \in [Owners -> Seq(Outcome)] /\ results'[c] = <<>> /\ \A d \in Owners \ {c} : results'[d] = results[d]
  BY DEF Retire, ApplyTyped
<1>5. seen' = [d \in Owners |-> seen'[d]] /\ \A d \in Owners \ {c} : seen'[d] = seen[d]
  BY DEF Retire, ApplyTyped
<1> QED
  BY <1>1, <1>2, <1>3, <1>4, <1>5

\* A step of one call leaves the others where they are.
OneCall(c) ==
    \A d \in Owners \ {c} :
        /\ applyAt'[d] = applyAt[d] /\ plan'[d] = plan[d] /\ results'[d] = results[d] /\ seen'[d] = seen[d]
        /\ at'[d] = at[d] /\ mine'[d] = mine[d]

Onward == backend' = backend /\ lapsed \subseteq lapsed' /\ thrown \subseteq thrown' /\ (stolen => stolen')

\* The others stay sound when a call takes no effect.
LEMMA OthersKept ==
    ASSUME CloudIndInv, NEW c \in Owners, NEW d \in Owners \ {c}, OneCall(c), Onward,
           leaseRecord'.owner = d => leaseRecord' = leaseRecord,
           leaseRecord.owner = d /\ leaseRecord' # leaseRecord
               => (leaseRecord.left = 0 \/ stolen') /\ (backend = "sqlite" \/ lapsed # {})
    PROVE  SoundCall(d)' /\ SoundLease(d)' /\ (settings' = settings => SoundSettings(d)')
<1>1. SoundCall(d) /\ SoundLease(d) /\ SoundSettings(d)
  BY DEF CloudIndInv
<1>2. applyAt'[d] = applyAt[d] /\ plan'[d] = plan[d] /\ results'[d] = results[d] /\ seen'[d] = seen[d]
      /\ at'[d] = at[d] /\ mine'[d] = mine[d]
  BY DEF OneCall
<1>3. SoundCall(d)'
  BY <1>1, <1>2 DEF SoundCall
<1>4. SoundLease(d)'
  <2>1. CASE leaseRecord' = leaseRecord
    BY <1>1, <1>2, <2>1 DEF Onward, SoundLease, Owns, CurrentLease
  <2>2. CASE leaseRecord' # leaseRecord
    <3>1. leaseRecord'.owner # d
      BY <2>2
    <3>2. Owns(d) => plan[d] \in lapsed \/ stolen'
      BY <1>1, <2>2 DEF SoundLease, Owns
    <3>3. CurrentLease(d) => stolen'
      BY <1>1, <2>2 DEF CurrentLease, Owns
    <3>4. at[d] = "dropping" => backend = "local" /\ lapsed # {}
      BY <1>1, <2>2 DEF SoundLease
    <3> QED
      BY <1>1, <1>2, <3>1, <3>2, <3>3, <3>4 DEF Onward, SoundLease, Owns, CurrentLease
  <2> QED
    BY <2>1, <2>2
<1>5. ASSUME settings' = settings PROVE SoundSettings(d)'
  BY <1>1, <1>2, <1>5 DEF Onward, SoundSettings, Change, Nth
<1> QED
  BY <1>3, <1>4, <1>5

LEMMA OthersEffects ==
    ASSUME CloudIndInv, NEW c \in Owners, NEW d \in Owners \ {c}, OneCall(c), Onward, UNCHANGED applied,
           backend = "sqlite" => \A p \in Plans : approval[p] = d => approval'[p] = d
    PROVE  SoundEffects(d)'
<1>1. SoundCall(d) /\ SoundEffects(d) /\ plan[d] \in Plans \cup {Nobody}
  BY DEF CloudIndInv, ApplyTyped
<1>2. applyAt'[d] = applyAt[d] /\ plan'[d] = plan[d] /\ results'[d] = results[d]
  BY DEF OneCall
<1> QED
  BY <1>1, <1>2 DEF Onward, SoundCall, SoundEffects, Excused, Nth, Started, Preparing

\* The plans stay sound when nothing is done and no call leaves what it started
\* without a receipt or without its plan having lapsed.
LEMMA PlansKept ==
    ASSUME CloudIndInv, Onward, UNCHANGED applied,
           \A p \in Plans : approval'[p] = Nobody => approval[p] = Nobody,
           \A p \in Plans : engineReceipt'[p] = Nobody => engineReceipt[p] = Nobody,
           \A d \in Owners : applyAt[d] \in Started =>
                \/ plan'[d] = plan[d] /\ applyAt'[d] \in Started
                \/ engineReceipt'[plan[d]] # Nobody \/ plan[d] \in lapsed' \cup thrown'
                \/ Excused(plan[d]) \/ Untouched(plan[d])
    PROVE  \A p \in Plans : SoundPlan(p)'
<1> SUFFICES ASSUME NEW p \in Plans PROVE SoundPlan(p)'
  OBVIOUS
<1>1. SoundPlan(p)
  BY DEF CloudIndInv
<1>2. Excused(p) => Excused(p)'
  BY DEF Onward, Excused
<1>3. Untouched(p) => Untouched(p)'
  BY DEF Untouched
<1>4. (\A i \in 1 .. PlanSize(p) : applied[p][i] > 1 => Excused(p))'
  BY <1>1, <1>2 DEF SoundPlan
<1>5. (backend = "sqlite" /\ approval[p] = Nobody => Untouched(p))'
  BY <1>1, <1>3 DEF SoundPlan, Onward
<1>6. ASSUME backend' = "local", engineReceipt'[p] = Nobody, \A d \in Owners : plan'[d] = p => applyAt'[d] \notin Started
      PROVE  Untouched(p)' \/ Excused(p)'
  <2>1. CASE \E d \in Owners : plan[d] = p /\ applyAt[d] \in Started
    BY <1>2, <1>3, <1>6, <2>1 DEF Excused
  <2>2. CASE \A d \in Owners : plan[d] = p => applyAt[d] \notin Started
    BY <1>1, <1>2, <1>3, <1>6, <2>2 DEF SoundPlan, Onward
  <2> QED
    BY <2>1, <2>2
<1> QED
  BY <1>4, <1>5, <1>6 DEF SoundPlan
LEMMA StepSound ==
    ASSUME CloudIndInv, NEW c \in Owners, OneCall(c), Onward, SeenByOthers(c), UNCHANGED <<applied, settings>>,
           \A p \in Plans : backend = "sqlite" /\ approval[p] \in Owners \ {c} => approval'[p] = approval[p],
           LeaseTyped', ApplyTyped', SoundStore', \A p \in Plans : SoundPlan(p)',
           SoundCall(c)', SoundLease(c)', SoundEffects(c)', SoundSettings(c)'
    PROVE  CloudIndInv'
<1>1. ASSUME NEW d \in Owners \ {c} PROVE SoundCall(d)' /\ SoundLease(d)' /\ SoundEffects(d)' /\ SoundSettings(d)'
  <2>1. /\ leaseRecord'.owner = d => leaseRecord' = leaseRecord
        /\ leaseRecord.owner = d /\ leaseRecord' # leaseRecord
               => (leaseRecord.left = 0 \/ stolen') /\ (backend = "sqlite" \/ lapsed # {})
    BY DEF SeenByOthers
  <2>2. backend = "sqlite" => \A p \in Plans : approval[p] = d => approval'[p] = d
    BY <1>1
  <2> QED
    BY <1>1, <2>1, <2>2, OthersKept, OthersEffects
<1>2. \A d \in Owners : SoundCall(d)' /\ SoundLease(d)' /\ SoundEffects(d)' /\ SoundSettings(d)'
  BY <1>1
<1> QED
  BY <1>2 DEF CloudIndInv

\* The calls beside one that only passes a check.
LEMMA PassesInv ==
    ASSUME CloudIndInv, NEW c \in Owners, NEW s \in Preparing \cup {"reading", "recording", "releasing"},
           applyAt[c] \in Preparing, ApplyGoto(c, s),
           UNCHANGED <<leaseVars, approval, engineReceipt, settings, applied, plan, results, seen, lapsed, thrown, calls, deaths>>,
           s \in {"checkingReceipt"} \cup Started => Owns(c) \/ plan[c] \in lapsed \/ stolen,
           s \in Started => engineReceipt[plan[c]] = Nobody
    PROVE  CloudIndInv'
<1>1. LeaseTyped /\ ApplyTyped /\ SoundStore /\ SoundCall(c) /\ SoundLease(c) /\ SoundEffects(c)
  BY DEF CloudIndInv
<1>2. applyAt' \in [Owners -> Places] /\ applyAt'[c] = s /\ \A d \in Owners \ {c} : applyAt'[d] = applyAt[d]
  BY <1>1, GotoTyped DEF Places, Started
<1>3. LeaseTyped' /\ ApplyTyped' /\ SoundStore' /\ OneCall(c) /\ Onward /\ SeenByOthers(c)
  <2>1. SeenByOthers(c)
    BY <1>1, KeptSeen DEF leaseVars
  <2> QED
    BY <1>1, <1>2, <2>1 DEF leaseVars, LeaseTyped, ApplyTyped, SoundStore, LeaseKept, OneCall, Onward, Places
<1>4. plan[c] \in Plans /\ results[c] = <<>> /\ at[c] = "held"
  BY <1>1 DEF SoundCall, ApplyTyped, Preparing, Started
<1>5. SoundCall(c)' /\ SoundSettings(c)'
  BY <1>1, <1>2, <1>4 DEF leaseVars, SoundCall, SoundSettings, Preparing, Started
<1>6. SoundLease(c)'
  BY <1>1, <1>2 DEF leaseVars, SoundLease, Owns, CurrentLease, Started, Preparing
<1>7. SoundEffects(c)'
  <2>1. ASSUME s \in Started, backend = "local" PROVE Excused(plan[c]) \/ Untouched(plan[c])
    <3>1. CASE \A d \in Owners : plan[d] = plan[c] => applyAt[d] \notin Started
      BY <1>4, <2>1, <3>1 DEF CloudIndInv, SoundPlan
    <3>2. CASE \E d \in Owners : plan[d] = plan[c] /\ applyAt[d] \in Started
      <4>1. PICK d \in Owners : plan[d] = plan[c] /\ applyAt[d] \in Started
        BY <3>2
      <4>2. d # c
        BY <4>1 DEF Started, Preparing
      <4>3. SoundLease(d)
        BY DEF CloudIndInv
      <4> QED
        BY <2>1, <4>1, <4>2, <4>3 DEF SoundLease, Owns, Excused
    <3> QED
      BY <3>1, <3>2
  <2>2. backend = "sqlite" => approval[plan[c]] = c /\ (Excused(plan[c]) \/ \A i \in 1 .. PlanSize(plan[c]) : i >= Nth(c) => applied[plan[c]][i] = 0)
    BY <1>1 DEF SoundEffects, Preparing
  <2>3. backend \in {"sqlite", "local"}
    BY <1>1 DEF LeaseTyped
  <2> QED
    BY <1>2, <2>1, <2>2, <2>3 DEF leaseVars, SoundEffects, Excused, Untouched, Nth, Preparing, Started
<1>8. \A p \in Plans : SoundPlan(p)'
  <2>1. \A d \in Owners : applyAt[d] \in Started => plan'[d] = plan[d] /\ applyAt'[d] \in Started
    BY <1>2 DEF Preparing, Started
  <2> QED
    BY <1>3, <2>1, PlansKept
<1> QED
  BY <1>3, <1>5, <1>6, <1>7, <1>8, StepSound

LEMMA PreflightInv ==
    ASSUME CloudIndInv, NEW c \in Owners, CheckApproval(c) \/ CheckTargetLease(c) \/ CheckReceipt(c)
    PROVE  CloudIndInv'
<1>0. SoundLease(c) /\ SoundCall(c) /\ ApplyTyped
  BY DEF CloudIndInv
<1>1. CASE CheckApproval(c)
  <2>1. PICK s \in {"checkingLease", "releasing"} :
          applyAt[c] = "checkingApproval" /\ ApplyGoto(c, s)
          /\ UNCHANGED <<leaseVars, approval, engineReceipt, settings, applied, plan, results, seen, lapsed, thrown, calls, deaths>>
    BY <1>1 DEF CheckApproval, ApplyPreflight
  <2> QED
    BY <2>1, PassesInv DEF Preparing, Started
<1>2. CASE CheckTargetLease(c)
  <2>1. PICK s \in {"checkingReceipt", "releasing"} :
          applyAt[c] = "checkingLease" /\ ApplyGoto(c, s) /\ (s = "checkingReceipt" => Owns(c))
          /\ UNCHANGED <<leaseVars, approval, engineReceipt, settings, applied, plan, results, seen, lapsed, thrown, calls, deaths>>
    BY <1>2 DEF CheckTargetLease, ApplyPreflight
  <2> QED
    BY <2>1, PassesInv DEF Preparing, Started
<1>3. CASE CheckReceipt(c)
  <2>1. plan[c] \in Plans
    BY <1>0, <1>3 DEF SoundCall, ApplyTyped, CheckReceipt, ApplyPreflight
  <2>2. PICK s \in {"reading", "recording", "releasing"} :
          applyAt[c] = "checkingReceipt" /\ ApplyGoto(c, s) /\ (s # "releasing" => engineReceipt[plan[c]] = Nobody)
          /\ UNCHANGED <<leaseVars, approval, engineReceipt, settings, applied, plan, results, seen, lapsed, thrown, calls, deaths>>
    BY <1>3, <2>1, NextPlace DEF CheckReceipt, ApplyPreflight
  <2>3. Owns(c) \/ plan[c] \in lapsed \/ stolen
    BY <1>0, <2>2 DEF SoundLease
  <2> QED
    BY <2>2, <2>3, PassesInv DEF Preparing, Started
<1> QED
  BY <1>1, <1>2, <1>3

\* An operation that has no effect is over.
LEMMA ResultInv ==
    ASSUME CloudIndInv, NEW c \in Owners, NEW ok \in Outcome, applyAt[c] \in {"reading", "checking", "inFlight"},
           Result(c, ok), UNCHANGED <<leaseVars, approval, engineReceipt, settings, applied, plan, thrown, calls, deaths>>,
           lapsed' \in {lapsed, lapsed \cup {plan[c]}}
    PROVE  CloudIndInv'
<1>1. LeaseTyped /\ ApplyTyped /\ SoundStore /\ SoundCall(c) /\ SoundLease(c) /\ SoundEffects(c)
  BY DEF CloudIndInv
<1>2. plan[c] \in Plans /\ at[c] = "held"
  BY <1>1 DEF SoundCall, ApplyTyped, Started
<1>3. /\ results' \in [Owners -> Seq(Outcome)] /\ Len(results'[c]) = Len(results[c]) + 1
      /\ seen' = [d \in Owners |-> seen'[d]]
      /\ applyAt' \in [Owners -> Places] /\ applyAt'[c] \in {"reading", "recording"}
      /\ \A d \in Owners \ {c} : results'[d] = results[d] /\ seen'[d] = seen[d] /\ applyAt'[d] = applyAt[d]
  BY <1>1, <1>2, ResultTyped
<1>4. LeaseTyped' /\ ApplyTyped' /\ SoundStore' /\ OneCall(c) /\ Onward /\ SeenByOthers(c)
  <2>1. SeenByOthers(c)
    BY <1>1, KeptSeen DEF leaseVars
  <2>2. lapsed' \subseteq Plans /\ lapsed \subseteq lapsed'
    BY <1>1, <1>2 DEF ApplyTyped
  <2> QED
    BY <1>1, <1>3, <2>1, <2>2 DEF leaseVars, LeaseTyped, ApplyTyped, SoundStore, LeaseKept, OneCall, Onward, Places
<1>5. SoundCall(c)' /\ SoundSettings(c)'
  BY <1>1, <1>2, <1>3 DEF leaseVars, SoundCall, SoundSettings, Preparing, Started
<1>6. SoundLease(c)'
  BY <1>1, <1>3, <1>4 DEF leaseVars, Onward, SoundLease, Owns, CurrentLease, Started, Preparing
<1>7. SoundEffects(c)'
  <2>1. Excused(plan[c]) \/ \A i \in 1 .. PlanSize(plan[c]) : i >= Nth(c) => applied[plan[c]][i] = 0
    BY <1>1 DEF SoundEffects, Started
  <2>2. Excused(plan[c]) => Excused(plan[c])'
    BY <1>4 DEF leaseVars, Excused, Onward
  <2>3. Len(results[c]) \in Nat /\ Len(results'[c]) = Len(results[c]) + 1
    BY <1>1, <1>3 DEF ApplyTyped
  <2>4. \A i \in 1 .. PlanSize(plan[c]) : i >= Nth(c)' => i >= Nth(c)
    <3> SUFFICES ASSUME NEW i \in 1 .. PlanSize(plan[c]), i >= Nth(c)' PROVE i >= Nth(c)
      OBVIOUS
    <3>1. i \in Int
      OBVIOUS
    <3> QED
      BY <2>3, <3>1 DEF Nth
  <2>5. Excused(plan[c])' \/ \A i \in 1 .. PlanSize(plan[c]) : i >= Nth(c)' => applied[plan[c]][i] = 0
    BY <2>1, <2>2, <2>4
  <2>6. backend = "sqlite" => approval[plan[c]] = c
    BY <1>1 DEF SoundEffects
  <2> QED
    BY <2>5, <2>6 DEF leaseVars, SoundEffects
<1>8. \A p \in Plans : SoundPlan(p)'
  <2>1. \A d \in Owners : applyAt[d] \in Started => plan'[d] = plan[d] /\ applyAt'[d] \in Started
    BY <1>3 DEF Started
  <2> QED
    BY <1>4, <2>1, PlansKept
<1> QED
  BY <1>4, <1>5, <1>6, <1>7, <1>8, StepSound

\* The call goes on with its operation.
LEMMA GoesOnInv ==
    ASSUME CloudIndInv, NEW c \in Owners, NEW s \in {"checking", "inFlight"}, applyAt[c] \in {"reading", "checking"},
           ApplyGoto(c, s),
           UNCHANGED <<leaseVars, approval, engineReceipt, settings, applied, plan, results, lapsed, thrown, calls, deaths>>,
           seen' = [d \in Owners |-> seen'[d]], \A d \in Owners \ {c} : seen'[d] = seen[d],
           s = "inFlight" => CurrentLease(c) /\ applyAt[c] = "checking" /\ seen' = seen,
           s = "checking" => (Change(c) = "merge" => seen'[c] = settings)
    PROVE  CloudIndInv'
<1>1. LeaseTyped /\ ApplyTyped /\ SoundStore /\ SoundCall(c) /\ SoundLease(c) /\ SoundEffects(c) /\ SoundSettings(c)
  BY DEF CloudIndInv
<1>2. applyAt' \in [Owners -> Places] /\ applyAt'[c] = s /\ \A d \in Owners \ {c} : applyAt'[d] = applyAt[d]
  BY <1>1, GotoTyped DEF Places, Started
<1>3. LeaseTyped' /\ ApplyTyped' /\ SoundStore' /\ OneCall(c) /\ Onward /\ SeenByOthers(c)
  <2>1. SeenByOthers(c)
    BY <1>1, KeptSeen DEF leaseVars
  <2> QED
    BY <1>1, <1>2, <2>1 DEF leaseVars, LeaseTyped, ApplyTyped, SoundStore, LeaseKept, OneCall, Onward, Places
<1>4. SoundCall(c)' /\ SoundLease(c)'
  BY <1>1, <1>2 DEF leaseVars, SoundCall, SoundLease, Owns, CurrentLease, Started, Preparing
<1>5. SoundSettings(c)'
  BY <1>1, <1>2 DEF leaseVars, SoundSettings, CurrentLease, Owns, Change, Nth
<1>6. SoundEffects(c)'
  BY <1>1, <1>2 DEF leaseVars, SoundEffects, Excused, Nth, Started, Preparing
<1>7. \A p \in Plans : SoundPlan(p)'
  <2>1. \A d \in Owners : applyAt[d] \in Started => plan'[d] = plan[d] /\ applyAt'[d] \in Started
    BY <1>2 DEF Started
  <2> QED
    BY <1>3, <2>1, PlansKept
<1> QED
  BY <1>3, <1>4, <1>5, <1>6, <1>7, StepSound

LEMMA OperationInv ==
    ASSUME CloudIndInv, NEW c \in Owners, ReadOperation(c) \/ BeforeEffect(c) \/ Refuse(c)
    PROVE  CloudIndInv'
<1>1. CASE ReadOperation(c)
  <2>1. ASSUME NEW ok \in {"skipped", "failed"}, Result(c, ok) PROVE CloudIndInv'
    BY <1>1, <2>1, ResultInv DEF ReadOperation, Outcome
  <2>2. CASE /\ ApplyGoto(c, "checking") /\ UNCHANGED results
             /\ seen' = [seen EXCEPT ![c] = IF Change(c) = "merge" THEN settings ELSE {}]
    <3>1. seen' = [d \in Owners |-> seen'[d]] /\ (\A d \in Owners \ {c} : seen'[d] = seen[d])
          /\ (Change(c) = "merge" => seen'[c] = settings)
      BY <2>2 DEF CloudIndInv, ApplyTyped
    <3> QED
      BY <1>1, <2>2, <3>1, GoesOnInv DEF ReadOperation
  <2> QED
    BY <1>1, <2>1, <2>2 DEF ReadOperation
<1>2. CASE BeforeEffect(c)
  <2>1. CASE CurrentLease(c) /\ ApplyGoto(c, "inFlight") /\ UNCHANGED <<results, seen, lapsed>>
    <3>1. seen' = [d \in Owners |-> seen'[d]] /\ seen' = seen
      BY <2>1 DEF CloudIndInv, ApplyTyped
    <3> QED
      BY <1>2, <2>1, <3>1, GoesOnInv DEF BeforeEffect
  <2>2. CASE Result(c, "failed") /\ lapsed' = lapsed \cup {plan[c]}
    BY <1>2, <2>2, ResultInv DEF BeforeEffect, Outcome
  <2> QED
    BY <1>2, <2>1, <2>2 DEF BeforeEffect
<1>3. CASE Refuse(c)
  BY <1>3, ResultInv DEF Refuse, Outcome
<1> QED
  BY <1>1, <1>2, <1>3

LEMMA RecordInv ==
    ASSUME CloudIndInv, NEW c \in Owners, RecordResults(c)
    PROVE  CloudIndInv'
<1>1. LeaseTyped /\ ApplyTyped /\ SoundStore /\ SoundCall(c) /\ SoundLease(c) /\ SoundEffects(c) /\ applyAt[c] = "recording"
  BY DEF CloudIndInv, RecordResults
<1>2. applyAt' \in [Owners -> Places] /\ applyAt'[c] = "releasing" /\ \A d \in Owners \ {c} : applyAt'[d] = applyAt[d]
  BY <1>1, GotoTyped DEF RecordResults, Places
<1>3. plan[c] \in Plans /\ at[c] = "held" /\ results[c] \in Seq(Outcome) /\ Nobody \notin Seq(Outcome)
  BY <1>1, ChangesAssumption DEF SoundCall, ApplyTyped, Started, Outcome
<1>4. /\ engineReceipt' \in [Plans -> Seq(Outcome) \cup {Nobody}] /\ engineReceipt'[plan[c]] # Nobody
      /\ \A p \in Plans : engineReceipt'[p] = Nobody => engineReceipt[p] = Nobody
  BY <1>1, <1>3 DEF RecordResults, ApplyTyped
<1>5. LeaseTyped' /\ ApplyTyped' /\ SoundStore' /\ OneCall(c) /\ Onward /\ SeenByOthers(c)
  <2>1. SeenByOthers(c)
    BY <1>1, KeptSeen DEF RecordResults, leaseVars
  <2> QED
    BY <1>1, <1>2, <1>4, <2>1
    DEF RecordResults, leaseVars, LeaseTyped, ApplyTyped, SoundStore, LeaseKept, OneCall, Onward, Places
<1>6. SoundCall(c)' /\ SoundLease(c)' /\ SoundSettings(c)' /\ SoundEffects(c)'
  BY <1>1, <1>2, <1>3
  DEF RecordResults, leaseVars, SoundCall, SoundLease, Owns, CurrentLease, SoundSettings, SoundEffects, Started, Preparing
<1>7. \A p \in Plans : SoundPlan(p)'
  <2>1. \A d \in Owners : applyAt[d] \in Started =>
            (plan'[d] = plan[d] /\ applyAt'[d] \in Started) \/ engineReceipt'[plan[d]] # Nobody
    BY <1>2, <1>4 DEF RecordResults
  <2>2. UNCHANGED <<applied, approval>>
    BY DEF RecordResults
  <2> QED
    BY <1>4, <1>5, <2>1, <2>2, PlansKept
<1> QED
  BY <1>5, <1>6, <1>7, StepSound DEF RecordResults

LEMMA AcquireInv ==
    ASSUME CloudIndInv, NEW c \in Owners, AcquireLease(c)
    PROVE  CloudIndInv'
<1>1. LeaseTyped /\ ApplyTyped /\ SoundStore /\ SoundCall(c) /\ SoundLease(c) /\ SoundEffects(c)
      /\ applyAt[c] = "acquiring" /\ AcquireStep(c)
  BY DEF CloudIndInv, AcquireLease
<1>2. LeaseTyped' /\ OneLease(c) /\ at'[c] \in Asking \cup {"held"} /\ at[c] \in Asking
  BY <1>1, AcquireTyped
<1>3. /\ SeenByOthers(c)
      /\ leaseRecord'.owner = c => at'[c] \in {"filling", "held"} /\ (leaseRecord'.written \/ at'[c] = "filling")
      /\ leaseRecord'.owner = c /\ leaseRecord'.written => at'[c] = "held" /\ leaseRecord'.left = mine'[c].left
      /\ at'[c] = "unlinking" => backend = "local" /\ leaseRecord.owner # Nobody
                                 /\ leaseRecord.left = 0 /\ leaseRecord.written /\ leaseRecord' = leaseRecord
  BY <1>1, AcquireSeen
<1>4. /\ plan[c] \in Plans /\ results[c] = <<>>
      /\ lapsed \subseteq lapsed' /\ lapsed' \subseteq Plans
      /\ at'[c] = "held" /\ mine'[c].left = 0 => plan[c] \in lapsed'
  BY <1>1 DEF AcquireLease, SoundCall, ApplyTyped, Started
<1>5. /\ applyAt' \in [Owners -> Places] /\ applyAt'[c] = IF at'[c] = "held" THEN "checkingApproval" ELSE "acquiring"
      /\ \A d \in Owners \ {c} : applyAt'[d] = applyAt[d]
  <2>1. CASE at'[c] = "held"
    BY <1>1, <2>1, GotoTyped DEF AcquireLease, Places, Preparing
  <2>2. CASE at'[c] # "held"
    BY <1>1, <2>2 DEF AcquireLease, ApplyTyped, Places
  <2> QED
    BY <2>1, <2>2
<1>6. ApplyTyped' /\ OneCall(c) /\ Onward
  BY <1>1, <1>2, <1>3, <1>4, <1>5 DEF AcquireLease, ApplyTyped, OneCall, OneLease, Onward, SeenByOthers, Places
<1>7. SoundStore'
  BY <1>1, <1>3, <1>4, <1>6 DEF SoundStore, LeaseKept, SeenByOthers, Onward
<1>8. SoundCall(c)' /\ SoundSettings(c)'
  BY <1>1, <1>2, <1>4, <1>5 DEF AcquireLease, SoundCall, SoundSettings, Asking, Preparing, Started
<1>9. SoundLease(c)'
  <2>1. at'[c] = "unlinking" => backend = "local" /\ lapsed # {}
    <3>1. leaseRecord.owner \in Owners \cup {Nobody, Gone}
      BY <1>1 DEF LeaseTyped, LeaseRow
    <3>2. ASSUME NEW d \in Owners, leaseRecord.owner = d, leaseRecord.left = 0, leaseRecord.written PROVE lapsed # {}
      BY <3>2 DEF CloudIndInv, SoundLease, Owns
    <3> QED
      BY <1>1, <1>3, <3>1, <3>2 DEF SoundStore
  <2>2. applyAt'[c] \notin {"checkingReceipt"} \cup Started
    BY <1>5 DEF Started
  <2>3. at'[c] # "dropping" /\ plan'[c] = plan[c] /\ backend' = backend
    BY <1>2 DEF AcquireLease, OneLease, Asking
  <2>4. Owns(c)' => at'[c] = "held" /\ leaseRecord'.left = mine'[c].left /\ (leaseRecord'.left = 0 => plan[c] \in lapsed')
    BY <1>3, <1>4 DEF Owns
  <2> QED
    BY <1>3, <1>4, <2>1, <2>2, <2>3, <2>4 DEF SoundLease, Started
<1>10. SoundEffects(c)'
  BY <1>1, <1>5, <1>6 DEF AcquireLease, SoundEffects, Excused, Nth, Onward, Started, Preparing
<1>11. \A p \in Plans : SoundPlan(p)'
  <2>1. \A d \in Owners : applyAt[d] \in Started => plan'[d] = plan[d] /\ applyAt'[d] \in Started
    BY <1>1, <1>5 DEF AcquireLease, Started
  <2> QED
    BY <1>6, <2>1, PlansKept DEF AcquireLease
<1> QED
  BY <1>2, <1>3, <1>6, <1>7, <1>8, <1>9, <1>10, <1>11, StepSound DEF AcquireLease

\* What is the same of a call that retires, whatever it was at.
LEMMA RetiredSound ==
    ASSUME CloudIndInv, NEW c \in Owners, Retire(c), at'[c] = "out", leaseRecord'.owner # c
    PROVE  SoundCall(c)' /\ SoundLease(c)' /\ SoundEffects(c)' /\ SoundSettings(c)'
<1>1. applyAt'[c] = "idle" /\ plan'[c] = Nobody /\ results'[c] = <<>>
  BY RetireTyped DEF CloudIndInv
<1> QED
  BY <1>1 DEF SoundCall, SoundLease, Owns, CurrentLease, SoundEffects, SoundSettings, Preparing, Started

LEMMA UnavailableInv ==
    ASSUME CloudIndInv, NEW c \in Owners, Unavailable(c)
    PROVE  CloudIndInv'
<1>1. LeaseTyped /\ ApplyTyped /\ SoundStore /\ SoundCall(c) /\ SoundLease(c) /\ applyAt[c] = "acquiring"
      /\ Retire(c) /\ GiveUp(c)
  BY DEF CloudIndInv, Unavailable
<1>2. at' \in [Owners -> Asking \cup {"out", "held", "dropping"}] /\ at'[c] = "out" /\ \A d \in Owners \ {c} : at'[d] = at[d]
  BY <1>1, StepTyped DEF GiveUp
<1>3. leaseRecord' = leaseRecord /\ stolen' = stolen /\ leaseRecord.owner # c
  BY <1>1 DEF GiveUp, SoundLease
<1>4. LeaseTyped' /\ ApplyTyped' /\ SoundStore' /\ OneCall(c) /\ Onward /\ SeenByOthers(c)
  <2>1. SeenByOthers(c)
    BY <1>1, <1>3, KeptSeen
  <2>2. LeaseTyped' /\ SoundStore' /\ Onward
    BY <1>1, <1>2 DEF GiveUp, Unavailable, LeaseTyped, SoundStore, LeaseKept, Onward
  <2>3. ApplyTyped' /\ OneCall(c)
    BY <1>1, <1>2, RetireTyped DEF GiveUp, Unavailable, ApplyTyped, OneCall, Places
  <2> QED
    BY <2>1, <2>2, <2>3
<1>5. SoundCall(c)' /\ SoundLease(c)' /\ SoundEffects(c)' /\ SoundSettings(c)'
  BY <1>1, <1>2, <1>3, RetiredSound
<1>6. \A p \in Plans : approval'[p] = IF approval[p] = c THEN Gone ELSE approval[p]
  BY <1>1, RetireTyped
<1>7. \A p \in Plans : SoundPlan(p)'
  <2>1. \A d \in Owners : applyAt[d] \in Started => plan'[d] = plan[d] /\ applyAt'[d] \in Started
    BY <1>1, <1>4 DEF OneCall, Started
  <2>2. \A p \in Plans : approval'[p] = Nobody => approval[p] = Nobody
    BY <1>6, LeaseAssumption
  <2> QED
    BY <1>4, <2>1, <2>2, PlansKept DEF Unavailable
<1> QED
  BY <1>4, <1>5, <1>6, <1>7, StepSound DEF Unavailable

LEMMA ReleaseInv ==
    ASSUME CloudIndInv, NEW c \in Owners, ReleaseLease(c)
    PROVE  CloudIndInv'
<1>1. LeaseTyped /\ ApplyTyped /\ SoundStore /\ SoundCall(c) /\ SoundLease(c) /\ SoundEffects(c)
      /\ applyAt[c] = "releasing" /\ ReleaseStep(c)
  BY DEF CloudIndInv, ReleaseLease
<1>2. LeaseTyped' /\ OneLease(c) /\ at'[c] \in {"out", "dropping"} /\ mine' = mine
  BY <1>1, ReleaseTyped
<1>3. /\ SeenByOthers(c)
      /\ leaseRecord'.owner = c => leaseRecord' = leaseRecord /\ at'[c] = "dropping"
      /\ at'[c] = "dropping" => backend = "local" /\ leaseRecord'.owner = c
  BY <1>1, ReleaseSeen
<1>4. Onward /\ SoundStore'
  BY <1>1, <1>2, <1>3 DEF ReleaseLease, OneLease, Onward, SeenByOthers, SoundStore, LeaseKept
<1>5. CASE at'[c] = "out"
  <2>1. Retire(c) /\ leaseRecord'.owner # c
    BY <1>3, <1>5 DEF ReleaseLease
  <2>2. ApplyTyped' /\ OneCall(c)
    BY <1>1, <1>2, <2>1, RetireTyped DEF ReleaseLease, ApplyTyped, OneCall, OneLease, Places
  <2>3. SoundCall(c)' /\ SoundLease(c)' /\ SoundEffects(c)' /\ SoundSettings(c)'
    BY <1>5, <2>1, RetiredSound
  <2>4. \A p \in Plans : approval'[p] = IF approval[p] = c THEN Gone ELSE approval[p]
    BY <1>1, <2>1, RetireTyped
  <2>5. \A p \in Plans : SoundPlan(p)'
    <3>1. \A d \in Owners : applyAt[d] \in Started => plan'[d] = plan[d] /\ applyAt'[d] \in Started
      BY <1>1, <2>2 DEF OneCall, Started
    <3>2. \A p \in Plans : approval'[p] = Nobody => approval[p] = Nobody
      BY <2>4, LeaseAssumption
    <3> QED
      BY <1>4, <3>1, <3>2, PlansKept DEF ReleaseLease
  <2> QED
    BY <1>2, <1>3, <1>4, <2>2, <2>3, <2>4, <2>5, StepSound DEF ReleaseLease
<1>6. CASE at'[c] = "dropping"
  <2>1. UNCHANGED <<approval, applyAt, plan, results, seen>>
    BY <1>6 DEF ReleaseLease, cloudLocal
  <2>2. ApplyTyped' /\ OneCall(c)
    BY <1>1, <1>2, <2>1 DEF ReleaseLease, ApplyTyped, OneCall, OneLease
  <2>3. SoundCall(c)' /\ SoundLease(c)' /\ SoundEffects(c)' /\ SoundSettings(c)'
    BY <1>1, <1>2, <1>3, <1>4, <1>6, <2>1
    DEF ReleaseLease, Onward, SoundCall, SoundLease, Owns, CurrentLease, SoundEffects, SoundSettings, Preparing, Started
  <2>4. \A p \in Plans : SoundPlan(p)'
    BY <1>4, <2>1, PlansKept DEF ReleaseLease
  <2> QED
    BY <1>2, <1>3, <1>4, <2>1, <2>2, <2>3, <2>4, StepSound DEF ReleaseLease
<1> QED
  BY <1>2, <1>5, <1>6

LEMMA StartApplyInv ==
    ASSUME CloudIndInv, NEW c \in Owners, NEW p \in Plans, StartApply(c, p)
    PROVE  CloudIndInv'
<1>1. LeaseTyped /\ ApplyTyped /\ SoundStore /\ SoundCall(c) /\ SoundLease(c) /\ SoundPlan(p) /\ applyAt[c] = "idle"
  BY DEF CloudIndInv, StartApply
<1>2. /\ at' \in [Owners -> Asking \cup {"out", "held", "dropping"}] /\ at'[c] = "looking"
      /\ \A d \in Owners \ {c} : at'[d] = at[d]
  BY <1>1, StepTyped DEF StartApply, Ask, Asking
<1>3. /\ mine' \in [Owners -> [fence : Nat, left : Nat]]
      /\ \A d \in Owners \ {c} : mine'[d] = mine[d]
  BY <1>1, LeaseAssumption DEF StartApply, Ask, LeaseTyped
<1>4. /\ applyAt' \in [Owners -> Places] /\ applyAt'[c] = "acquiring"
      /\ \A d \in Owners \ {c} : applyAt'[d] = applyAt[d]
  BY <1>1, GotoTyped DEF StartApply, Places
<1>5. /\ plan' \in [Owners -> Plans \cup {Nobody}] /\ plan'[c] = p /\ \A d \in Owners \ {c} : plan'[d] = plan[d]
  BY <1>1 DEF StartApply, ApplyTyped
<1>6. /\ approval' \in [Plans -> Owners \cup {Nobody, Gone}] /\ approval'[p] = c
      /\ \A q \in Plans \ {p} : approval'[q] = approval[q]
      /\ backend = "sqlite" => approval[p] = Nobody
      /\ Nobody \notin Owners /\ p # Nobody
  BY <1>1, LeaseAssumption, ChangesAssumption DEF StartApply, ApplyTyped, LeaseTyped
<1>7. results[c] = <<>> /\ leaseRecord.owner # c
  BY <1>1 DEF SoundCall, SoundLease, Started
<1>8. LeaseTyped' /\ ApplyTyped' /\ SoundStore' /\ OneCall(c) /\ Onward /\ SeenByOthers(c)
  <2>1. SeenByOthers(c)
    BY <1>1, KeptSeen DEF StartApply
  <2>2. LeaseTyped' /\ SoundStore'
    BY <1>1, <1>2, <1>3 DEF StartApply, LeaseTyped, SoundStore, LeaseKept
  <2>3. ApplyTyped'
    BY <1>1, <1>4, <1>5, <1>6 DEF StartApply, ApplyTyped, Places
  <2>4. OneCall(c) /\ Onward
    BY <1>2, <1>3, <1>4, <1>5 DEF StartApply, OneCall, Onward
  <2> QED
    BY <2>1, <2>2, <2>3, <2>4
<1>9. SoundCall(c)' /\ SoundLease(c)' /\ SoundSettings(c)'
  BY <1>1, <1>2, <1>4, <1>5, <1>6, <1>7
  DEF StartApply, SoundCall, SoundLease, Owns, CurrentLease, SoundSettings, Asking, Preparing, Started
<1>10. SoundEffects(c)'
  <2>1. backend = "sqlite" => Untouched(p)
    BY <1>1, <1>6 DEF SoundPlan
  <2> QED
    BY <1>4, <1>5, <1>6, <2>1 DEF StartApply, SoundEffects, Untouched, Started, Preparing
<1>11. \A q \in Plans : SoundPlan(q)'
  <2>1. \A d \in Owners : applyAt[d] \in Started => plan'[d] = plan[d] /\ applyAt'[d] \in Started
    BY <1>1, <1>4, <1>5 DEF Started
  <2>2. \A q \in Plans : approval'[q] = Nobody => approval[q] = Nobody
    BY <1>6
  <2> QED
    BY <1>8, <2>1, <2>2, PlansKept DEF StartApply
<1>12. \A q \in Plans : backend = "sqlite" /\ approval[q] \in Owners \ {c} => approval'[q] = approval[q]
  BY <1>6
<1> QED
  BY <1>8, <1>9, <1>10, <1>11, <1>12, StepSound DEF StartApply

\* Time takes as much from the lease as from what its owner knows of it.
LEMMA ElapseInv ==
    ASSUME CloudIndInv, Elapse
    PROVE  CloudIndInv'
<1>1. LeaseTyped /\ ApplyTyped /\ SoundStore /\ leaseRecord.left \in Nat /\ leaseRecord.owner \in Owners \cup {Nobody, Gone}
  BY DEF CloudIndInv, LeaseTyped, LeaseRow
<1>2. \A n \in Nat : Less(n) \in Nat /\ (Less(n) = 0 => n = 0 \/ n = 1) /\ (n > 1 => Less(n) > 0)
  BY DEF Less
<1>3. /\ leaseRecord' \in LeaseRow /\ leaseRecord'.owner = leaseRecord.owner /\ leaseRecord'.written = leaseRecord.written
      /\ leaseRecord'.left = Less(leaseRecord.left)
  <2>1. PICK l \in LeaseRow, n \in Nat : l = leaseRecord /\ n = Less(l.left)
    BY <1>1, <1>2 DEF LeaseTyped
  <2>2. leaseRecord' = [l EXCEPT !.left = n]
    BY <2>1 DEF Elapse, PassTime
  <2>3. [l EXCEPT !.left = n] = [owner |-> l.owner, fence |-> l.fence, left |-> n, written |-> l.written]
    BY DEF LeaseRow
  <2> QED
    BY <2>1, <2>2, <2>3 DEF LeaseRow
<1>4. mine' \in [Owners -> [fence : Nat, left : Nat]] /\ \A c \in Owners : mine'[c].left = Less(mine[c].left)
  <2>1. mine' = [c \in Owners |-> [mine[c] EXCEPT !.left = Less(mine[c].left)]]
    BY DEF Elapse, PassTime
  <2>2. ASSUME NEW c \in Owners PROVE mine'[c] \in [fence : Nat, left : Nat] /\ mine'[c].left = Less(mine[c].left)
    <3>1. PICK m \in [fence : Nat, left : Nat], n \in Nat : m = mine[c] /\ n = Less(m.left)
      BY <1>1, <1>2 DEF LeaseTyped
    <3>2. mine'[c] = [m EXCEPT !.left = n]
      BY <2>1, <3>1
    <3>3. [m EXCEPT !.left = n] = [fence |-> m.fence, left |-> n]
      OBVIOUS
    <3> QED
      BY <3>1, <3>2, <3>3
  <2> QED
    BY <2>1, <2>2
<1>5. UNCHANGED <<backend, counter, staged, at, stolen, approval, engineReceipt, settings, applied, applyAt, plan, results, seen, thrown, calls, deaths>>
  BY DEF Elapse, PassTime, cloudLocal
<1>6. /\ lapsed \subseteq lapsed' /\ lapsed' \subseteq Plans
      /\ \A c \in Owners : leaseRecord.owner = c /\ leaseRecord.left = 1 => plan[c] \in lapsed'
  <2>1. ASSUME NEW c \in Owners, leaseRecord.owner = c PROVE plan[c] \in Plans
    <3>1. SoundCall(c) /\ SoundLease(c) /\ plan[c] \in Plans \cup {Nobody}
      BY <1>1 DEF CloudIndInv, ApplyTyped
    <3> QED
      BY <2>1, <3>1 DEF SoundCall, SoundLease
  <2>2. lapsed' = IF leaseRecord.left = 1 /\ leaseRecord.owner \in Owners
                  THEN lapsed \cup {plan[leaseRecord.owner]} ELSE lapsed
    BY DEF Elapse
  <2>3. lapsed \subseteq Plans
    BY <1>1 DEF ApplyTyped
  <2>4. CASE leaseRecord.left = 1 /\ leaseRecord.owner \in Owners
    BY <2>1, <2>2, <2>3, <2>4
  <2>5. CASE ~(leaseRecord.left = 1 /\ leaseRecord.owner \in Owners)
    BY <2>2, <2>3, <2>5
  <2> QED
    BY <2>4, <2>5
<1>7. LeaseTyped' /\ ApplyTyped' /\ SoundStore' /\ Onward
  BY <1>1, <1>3, <1>4, <1>5, <1>6 DEF LeaseTyped, ApplyTyped, SoundStore, LeaseKept, Onward
<1>8. ASSUME NEW c \in Owners PROVE SoundCall(c)' /\ SoundLease(c)' /\ SoundEffects(c)' /\ SoundSettings(c)'
  <2>1. SoundCall(c) /\ SoundLease(c) /\ SoundEffects(c) /\ SoundSettings(c) /\ mine[c].left \in Nat
    BY <1>1 DEF CloudIndInv, LeaseTyped
  <2>2. SoundCall(c)' /\ SoundSettings(c)' /\ SoundEffects(c)'
    BY <1>3, <1>5, <1>6, <2>1 DEF SoundCall, SoundSettings, Change, Nth, SoundEffects, Excused
  <2>3. Owns(c)' <=> Owns(c)
    BY <1>3 DEF Owns
  <2>4. Owns(c) => leaseRecord'.left = mine'[c].left /\ (leaseRecord'.left = 0 => plan[c] \in lapsed')
    BY <1>1, <1>2, <1>3, <1>4, <1>6, <2>1 DEF SoundLease, Owns
  <2>5. applyAt[c] = "inFlight" /\ ~Late => CurrentLease(c)' \/ stolen
    <3> SUFFICES ASSUME applyAt[c] = "inFlight", ~Late, ~stolen PROVE CurrentLease(c)'
      OBVIOUS
    <3>1. mine[c].left > 1 /\ CurrentLease(c)
      BY <2>1 DEF Elapse, SoundLease
    <3>2. leaseRecord.left = mine[c].left
      BY <2>1, <3>1 DEF SoundLease, CurrentLease
    <3> QED
      BY <1>1, <1>2, <1>3, <2>3, <3>1, <3>2 DEF CurrentLease
  <2>6. SoundLease(c)'
    BY <1>3, <1>5, <1>6, <2>1, <2>3, <2>4, <2>5 DEF SoundLease
  <2> QED
    BY <2>2, <2>6
<1>9. \A p \in Plans : SoundPlan(p)'
  BY <1>5, <1>7, PlansKept
<1> QED
  BY <1>7, <1>8, <1>9 DEF CloudIndInv

-----------------------------------------------------------------------------
\* An operation takes effect.
LEMMA OperationDone ==
    ASSUME ApplyTyped, NEW c \in Owners, plan[c] \in Plans, TakeEffect(c)
    PROVE  /\ applied' = [p \in Plans |-> applied'[p]] /\ \A p \in Plans : applied'[p] \in [1 .. PlanSize(p) -> Nat]
           /\ \A p \in Plans \ {plan[c]} : applied'[p] = applied[p]
           /\ \A i \in 1 .. PlanSize(plan[c]) :
                /\ i # Nth(c) => applied'[plan[c]][i] = applied[plan[c]][i]
                /\ applied[plan[c]][i] = 0 => applied'[plan[c]][i] \in {0, 1}
<1> DEFINE p == plan[c]
           k == Nth(c)
           n == IF applied[p][k] = 2 THEN 2 ELSE applied[p][k] + 1
           row == [applied[p] EXCEPT ![k] = n]
<1>1. applied' = [applied EXCEPT ![p] = row]
  <2>1. applied' = [applied EXCEPT ![p][k] = IF @ = 2 THEN 2 ELSE @ + 1]
    BY DEF TakeEffect
  <2> QED
    BY <2>1
<1>2. applied[p] \in [1 .. PlanSize(p) -> Nat]
  BY DEF ApplyTyped
<1>3. k \in 1 .. PlanSize(p) => applied[p][k] \in Nat /\ n \in Nat /\ (applied[p][k] = 0 => n = 1)
  <2> SUFFICES ASSUME k \in 1 .. PlanSize(p) PROVE applied[p][k] \in Nat /\ n \in Nat /\ (applied[p][k] = 0 => n = 1)
    OBVIOUS
  <2> HIDE DEF k
  <2>1. applied[p][k] \in Nat
    BY <1>2
  <2> QED
    BY <2>1
<1> HIDE DEF n
<1>4. /\ row \in [1 .. PlanSize(p) -> Nat]
      /\ \A i \in 1 .. PlanSize(p) : row[i] = IF i = k THEN n ELSE applied[p][i]
  BY <1>2, <1>3
<1> HIDE DEF row, k
<1>5. applied' = [q \in Plans |-> applied'[q]] /\ applied'[p] = row /\ \A q \in Plans \ {p} : applied'[q] = applied[q]
  BY <1>1 DEF ApplyTyped
<1>6. \A q \in Plans : applied'[q] \in [1 .. PlanSize(q) -> Nat]
  BY <1>4, <1>5 DEF ApplyTyped
<1>7. \A i \in 1 .. PlanSize(p) : (i # k => row[i] = applied[p][i]) /\ (applied[p][i] = 0 => row[i] \in {0, 1})
  BY <1>3, <1>4
<1> QED
  BY <1>5, <1>6, <1>7 DEF k

\* The other calls and the plans after it, whether the call goes on or dies.
LEMMA EffectSeen ==
    ASSUME CloudIndInv, NEW c \in Owners, NEW p \in Plans, p = plan[c], applyAt[c] = "inFlight", TakeEffect(c),
           OneCall(c), Onward, stolen' = stolen,
           leaseRecord' = leaseRecord \/ (leaseRecord'.owner = Gone /\ Gone \notin Owners),
           \A q \in Plans : approval[q] \in Owners \ {c} => approval'[q] = approval[q],
           \A q \in Plans : approval'[q] = Nobody => approval[q] = Nobody, UNCHANGED engineReceipt,
           \/ plan'[c] = p /\ applyAt'[c] \in Started
           \/ p \in lapsed'
    PROVE  /\ \A d \in Owners \ {c} : SoundEffects(d)' /\ SoundSettings(d)'
           /\ \A q \in Plans : SoundPlan(q)'
           /\ \A i \in 1 .. PlanSize(p) : i > Nth(c) => Excused(p)' \/ applied'[p][i] = 0
<1>1. /\ LeaseTyped /\ ApplyTyped /\ SoundCall(c) /\ SoundLease(c) /\ SoundEffects(c)
      /\ backend \in {"sqlite", "local"}
  BY DEF CloudIndInv, LeaseTyped
<1>2. plan[c] \in Plans
  OBVIOUS
<1>3. /\ \A q \in Plans \ {p} : applied'[q] = applied[q]
      /\ \A i \in 1 .. PlanSize(p) :
           /\ i # Nth(c) => applied'[p][i] = applied[p][i]
           /\ applied[p][i] = 0 => applied'[p][i] \in {0, 1}
  BY <1>1, <1>2, OperationDone
<1>4. \A q \in Plans : Excused(q) => Excused(q)'
  BY DEF Excused, Onward
<1>5. Excused(p) \/ \A i \in 1 .. PlanSize(p) : i >= Nth(c) => applied[p][i] = 0
  BY <1>1 DEF SoundEffects, Started
<1>6. Nth(c) \in Nat
  BY <1>1 DEF Nth, ApplyTyped
<1>7. \A i \in 1 .. PlanSize(p) : i > Nth(c) => Excused(p)' \/ applied'[p][i] = 0
  <2> SUFFICES ASSUME NEW i \in 1 .. PlanSize(p), i > Nth(c), ~Excused(p)' PROVE applied'[p][i] = 0
    OBVIOUS
  <2>1. i >= Nth(c) /\ i # Nth(c)
    BY <1>6
  <2> QED
    BY <1>2, <1>3, <1>4, <1>5, <2>1
<1>8. ASSUME NEW q \in Plans PROVE SoundPlan(q)'
  <2>1. SoundPlan(q)
    BY DEF CloudIndInv
  <2>2. ASSUME NEW i \in 1 .. PlanSize(q), applied'[q][i] > 1 PROVE Excused(q)'
    <3>1. CASE q = p /\ i = Nth(c)
      <4>1. i >= Nth(c)
        BY <1>6, <3>1
      <4>2. Excused(q) \/ applied[q][i] = 0
        BY <1>5, <3>1, <4>1
      <4> QED
        BY <1>3, <1>4, <2>2, <3>1, <4>2
    <3>2. CASE ~(q = p /\ i = Nth(c))
      <4>1. applied'[q][i] = applied[q][i]
        BY <1>3, <3>2
      <4> QED
        BY <1>4, <2>1, <2>2, <4>1 DEF SoundPlan
    <3> QED
      BY <3>1, <3>2
  <2>3. (backend = "sqlite" /\ approval[q] = Nobody => Untouched(q))'
    <3>1. ASSUME backend = "sqlite", approval'[q] = Nobody PROVE Untouched(q)'
      <4>1. approval[q] = Nobody /\ q # p
        BY <1>1, <3>1, LeaseAssumption DEF SoundEffects
      <4>2. applied'[q] = applied[q]
        BY <1>3, <4>1
      <4> QED
        BY <2>1, <3>1, <4>1, <4>2 DEF SoundPlan, Untouched
    <3> QED
      BY <3>1 DEF Onward
  <2>4. ASSUME backend' = "local", engineReceipt'[q] = Nobody, \A d \in Owners : plan'[d] = q => applyAt'[d] \notin Started
        PROVE  Untouched(q)' \/ Excused(q)'
    <3>1. CASE q = p
      BY <2>4, <3>1 DEF Excused
    <3>2. CASE q # p
      <4>1. \A d \in Owners : plan[d] = q => applyAt[d] \notin Started
        BY <2>4, <3>2 DEF OneCall
      <4>2. Untouched(q) \/ Excused(q)
        BY <2>1, <2>4, <4>1 DEF SoundPlan, Onward
      <4> QED
        BY <1>3, <1>4, <3>2, <4>2 DEF Untouched
    <3> QED
      BY <3>1, <3>2
  <2> QED
    BY <2>2, <2>3, <2>4 DEF SoundPlan
<1>9. ASSUME NEW d \in Owners \ {c} PROVE SoundEffects(d)' /\ SoundSettings(d)'
  <2>1. SoundCall(d) /\ SoundLease(d) /\ SoundEffects(d) /\ SoundSettings(d) /\ plan[d] \in Plans \cup {Nobody}
    BY <1>1 DEF CloudIndInv, ApplyTyped
  <2>2. applyAt'[d] = applyAt[d] /\ plan'[d] = plan[d] /\ results'[d] = results[d] /\ seen'[d] = seen[d]
    BY DEF OneCall
  <2>3. backend = "sqlite" /\ applyAt[d] # "idle" => approval[plan[d]] = d /\ approval'[plan[d]] = d /\ plan[d] \in Plans
    BY <2>1 DEF SoundEffects, SoundCall
  <2>4. ASSUME applyAt[d] \in Started \/ (backend = "sqlite" /\ applyAt[d] \in {"acquiring"} \cup Preparing)
        PROVE  Excused(plan[d])' \/ \A i \in 1 .. PlanSize(plan[d]) : i >= Nth(d) => applied'[plan[d]][i] = 0
    <3>1. PICK r \in Plans : r = plan[d] /\ r = plan'[d]
      BY <2>1, <2>2, <2>4 DEF SoundCall, Started, Preparing
    <3>2. Excused(r)' \/ \A i \in 1 .. PlanSize(r) : i >= Nth(d) => applied'[r][i] = 0
      <4>1. CASE r # p
        BY <1>3, <1>4, <2>1, <2>4, <3>1, <4>1 DEF SoundEffects
      <4>2. CASE r = p
        <5>1. backend = "local"
          BY <1>1, <2>3, <2>4, <3>1, <4>2 DEF SoundEffects, Started, Preparing
        <5>2. p \in lapsed \/ stolen
          BY <1>1, <2>1, <2>4, <3>1, <4>2, <5>1 DEF SoundLease, Owns, Started
        <5> QED
          BY <1>4, <4>2, <5>1, <5>2 DEF Excused
      <4> QED
        BY <4>1, <4>2
    <3> QED
      BY <3>1, <3>2
  <2>5. SoundEffects(d)'
    BY <2>2, <2>3, <2>4 DEF SoundEffects, Onward, Nth
  <2>6. SoundSettings(d)'
    <3>1. CASE Late \/ stolen
      BY <3>1 DEF SoundSettings
    <3>2. CASE ~Late /\ ~stolen
      <4>1. leaseRecord.owner = c
        BY <1>1, <3>2 DEF SoundLease, CurrentLease, Owns
      <4> QED
        BY <4>1 DEF SoundSettings
    <3> QED
      BY <3>1, <3>2
  <2> QED
    BY <2>5, <2>6
<1> QED
  BY <1>7, <1>8, <1>9
LEMMA AcceptInv ==
    ASSUME CloudIndInv, NEW c \in Owners, Accept(c)
    PROVE  CloudIndInv'
<1>1. LeaseTyped /\ ApplyTyped /\ SoundStore /\ SoundCall(c) /\ SoundLease(c) /\ SoundEffects(c) /\ applyAt[c] = "inFlight"
  BY DEF CloudIndInv, Accept
<1>2. PICK p \in Plans, ok \in Outcome : p = plan[c] /\ p = plan'[c] /\ Result(c, ok) /\ TakeEffect(c)
  BY <1>1 DEF Accept, SoundCall, ApplyTyped, Outcome
<1>3. /\ results' \in [Owners -> Seq(Outcome)] /\ Len(results'[c]) = Len(results[c]) + 1
      /\ seen' = [d \in Owners |-> seen'[d]]
      /\ applyAt' \in [Owners -> Places] /\ applyAt'[c] \in {"reading", "recording"}
      /\ \A d \in Owners \ {c} : results'[d] = results[d] /\ seen'[d] = seen[d] /\ applyAt'[d] = applyAt[d]
  BY <1>1, <1>2, ResultTyped
<1>4. applied' = [q \in Plans |-> applied'[q]] /\ \A q \in Plans : applied'[q] \in [1 .. PlanSize(q) -> Nat]
  BY <1>1, <1>2, OperationDone
<1>5. LeaseTyped' /\ ApplyTyped' /\ SoundStore' /\ OneCall(c) /\ Onward
  BY <1>1, <1>3, <1>4 DEF Accept, leaseVars, LeaseTyped, ApplyTyped, SoundStore, LeaseKept, OneCall, Onward, Places
<1>6. /\ \A d \in Owners \ {c} : SoundEffects(d)' /\ SoundSettings(d)'
      /\ \A q \in Plans : SoundPlan(q)'
      /\ \A i \in 1 .. PlanSize(p) : i > Nth(c) => Excused(p)' \/ applied'[p][i] = 0
  <2>1. plan'[c] = p /\ applyAt'[c] \in Started
    BY <1>2, <1>3 DEF Started
  <2>2. UNCHANGED <<leaseRecord, stolen, approval, engineReceipt>>
    BY DEF Accept, leaseVars
  <2> QED
    BY <1>1, <1>2, <1>5, <2>1, <2>2, EffectSeen
<1>7. \A d \in Owners \ {c} : SoundCall(d)' /\ SoundLease(d)'
  BY <1>5, OthersKept DEF Accept, leaseVars
<1>8. SoundCall(c)' /\ SoundSettings(c)'
  BY <1>1, <1>3 DEF Accept, leaseVars, SoundCall, SoundSettings, Preparing, Started
<1>9. SoundLease(c)'
  BY <1>1, <1>3 DEF Accept, leaseVars, SoundLease, Owns, CurrentLease, Started, Preparing
<1>10. SoundEffects(c)'
  <2>1. \A i \in 1 .. PlanSize(p) : i >= Nth(c)' => i > Nth(c)
    <3> SUFFICES ASSUME NEW i \in 1 .. PlanSize(p), i >= Nth(c)' PROVE i > Nth(c)
      OBVIOUS
    <3>1. i \in Int /\ Len(results[c]) \in Nat /\ Len(results'[c]) = Len(results[c]) + 1
      BY <1>1, <1>3 DEF ApplyTyped
    <3> QED
      BY <3>1 DEF Nth
  <2>2. Excused(p)' \/ \A i \in 1 .. PlanSize(p) : i >= Nth(c)' => applied'[p][i] = 0
    BY <1>6, <2>1
  <2>3. backend = "sqlite" => approval[p] = c
    BY <1>1, <1>2 DEF SoundEffects
  <2> QED
    BY <1>2, <2>2, <2>3 DEF Accept, leaseVars, SoundEffects
<1> QED
  BY <1>5, <1>6, <1>7, <1>8, <1>9, <1>10 DEF CloudIndInv

LEMMA ThrowInv ==
    ASSUME CloudIndInv, NEW c \in Owners, Throw(c)
    PROVE  CloudIndInv'
<1>1. LeaseTyped /\ ApplyTyped /\ SoundStore /\ SoundCall(c) /\ SoundLease(c) /\ SoundEffects(c)
      /\ applyAt[c] \in Preparing \cup {"reading", "recording"}
  BY DEF CloudIndInv, Throw, Preparing
<1>2. applyAt' \in [Owners -> Places] /\ applyAt'[c] = "releasing" /\ \A d \in Owners \ {c} : applyAt'[d] = applyAt[d]
  BY <1>1, GotoTyped DEF Throw, Places
<1>3. plan[c] \in Plans /\ at[c] = "held" /\ thrown \subseteq thrown' /\ thrown' \subseteq Plans /\ deaths' \in Nat
  BY <1>1 DEF Throw, SoundCall, ApplyTyped, Preparing, Started
<1>4. LeaseTyped' /\ ApplyTyped' /\ SoundStore' /\ OneCall(c) /\ Onward /\ SeenByOthers(c)
  <2>1. SeenByOthers(c)
    BY <1>1, KeptSeen DEF Throw, leaseVars
  <2> QED
    BY <1>1, <1>2, <1>3, <2>1
    DEF Throw, leaseVars, LeaseTyped, ApplyTyped, SoundStore, LeaseKept, OneCall, Onward, Places
<1>5. SoundCall(c)' /\ SoundLease(c)' /\ SoundSettings(c)' /\ SoundEffects(c)'
  BY <1>1, <1>2, <1>3
  DEF Throw, leaseVars, SoundCall, SoundLease, Owns, CurrentLease, SoundSettings, SoundEffects, Started, Preparing
<1>6. applyAt[c] \in Started => plan[c] \in thrown' \/ Excused(plan[c]) \/ Untouched(plan[c])
  <2>1. CASE results[c] = <<>>
    <3>1. Nth(c) = 1
      BY <2>1 DEF Nth
    <3> QED
      BY <1>1, <3>1 DEF SoundEffects, Untouched
  <2>2. CASE results[c] # <<>>
    BY <2>2 DEF Throw
  <2> QED
    BY <2>1, <2>2
<1>7. \A p \in Plans : SoundPlan(p)'
  <2>1. \A d \in Owners : applyAt[d] \in Started =>
            \/ plan'[d] = plan[d] /\ applyAt'[d] \in Started
            \/ plan[d] \in thrown' \/ Excused(plan[d]) \/ Untouched(plan[d])
    BY <1>2, <1>6 DEF Throw
  <2>2. UNCHANGED <<applied, approval, engineReceipt>>
    BY DEF Throw
  <2> QED
    BY <1>4, <2>1, <2>2, PlansKept
<1> QED
  BY <1>4, <1>5, <1>7, StepSound DEF Throw

LEMMA DieInv ==
    ASSUME CloudIndInv, NEW c \in Owners, Die(c)
    PROVE  CloudIndInv'
<1>1. LeaseTyped /\ ApplyTyped /\ SoundStore /\ SoundCall(c) /\ SoundLease(c) /\ SoundEffects(c) /\ applyAt[c] # "idle"
      /\ Forget(c) /\ Retire(c)
  BY DEF CloudIndInv, Die
<1>2. PICK p \in Plans : p = plan[c]
  BY <1>1 DEF SoundCall, ApplyTyped
<1>3. /\ leaseRecord' \in LeaseRow /\ (leaseRecord' = leaseRecord \/ (leaseRecord.owner = c /\ leaseRecord'.owner = Gone))
      /\ leaseRecord'.written = leaseRecord.written /\ leaseRecord'.owner # c
      /\ Gone \notin Owners /\ Nobody \notin Owners /\ Gone # Nobody
  <2>1. CASE leaseRecord.owner = c
    BY <1>1, <2>1, LeaseRows, LeaseAssumption DEF Forget
  <2>2. CASE leaseRecord.owner # c
    BY <1>1, <2>2, LeaseAssumption DEF Forget, LeaseTyped
  <2> QED
    BY <2>1, <2>2
<1>4. at' \in [Owners -> Asking \cup {"out", "held", "dropping"}] /\ at'[c] = "out" /\ \A d \in Owners \ {c} : at'[d] = at[d]
  BY <1>1, StepTyped DEF Forget
<1>5. UNCHANGED <<backend, counter, staged, mine, stolen, engineReceipt, thrown, calls>> /\ deaths' \in Nat
      /\ lapsed' = lapsed \cup {p}
  BY <1>1, <1>2 DEF Die, Forget, ApplyTyped
<1>6. UNCHANGED <<applied, settings>> \/ (applyAt[c] = "inFlight" /\ TakeEffect(c))
  BY DEF Die
<1>7. applied' = [q \in Plans |-> applied'[q]] /\ \A q \in Plans : applied'[q] \in [1 .. PlanSize(q) -> Nat]
  <2>1. CASE UNCHANGED <<applied, settings>>
    BY <1>1, <2>1 DEF ApplyTyped
  <2>2. CASE TakeEffect(c)
    BY <1>1, <1>2, <2>2, OperationDone
  <2> QED
    BY <1>6, <2>1, <2>2
<1>8. LeaseTyped' /\ ApplyTyped' /\ SoundStore' /\ OneCall(c) /\ Onward
  <2>1. LeaseTyped' /\ Onward
    BY <1>1, <1>3, <1>4, <1>5 DEF LeaseTyped, Onward
  <2>2. SoundStore'
    BY <1>1, <1>3, <1>5 DEF SoundStore, LeaseKept
  <2>3. ApplyTyped' /\ OneCall(c)
    BY <1>1, <1>2, <1>4, <1>5, <1>7, RetireTyped DEF ApplyTyped, OneCall, Places
  <2> QED
    BY <2>1, <2>2, <2>3
<1>9. SoundCall(c)' /\ SoundLease(c)' /\ SoundEffects(c)' /\ SoundSettings(c)'
  BY <1>1, <1>3, <1>4, RetiredSound
<1>10. \A q \in Plans : approval'[q] = IF approval[q] = c THEN Gone ELSE approval[q]
  BY <1>1, RetireTyped
<1>11. /\ \A q \in Plans : approval[q] \in Owners \ {c} => approval'[q] = approval[q]
       /\ \A q \in Plans : approval'[q] = Nobody => approval[q] = Nobody
  BY <1>3, <1>10
<1>12. \A d \in Owners \ {c} : leaseRecord'.owner = d \/ leaseRecord.owner = d => leaseRecord' = leaseRecord
  BY <1>3
<1>13. \A d \in Owners \ {c} : SoundCall(d)' /\ SoundLease(d)' /\ (settings' = settings => SoundSettings(d)')
  BY <1>8, <1>12, OthersKept
<1>14. (\A d \in Owners \ {c} : SoundEffects(d)' /\ SoundSettings(d)') /\ \A q \in Plans : SoundPlan(q)'
  <2>1. CASE UNCHANGED <<applied, settings>>
    <3>1. \A d \in Owners \ {c} : SoundEffects(d)'
      BY <1>8, <1>11, <2>1, OthersEffects
    <3>2. \A d \in Owners : applyAt[d] \in Started => (plan'[d] = plan[d] /\ applyAt'[d] \in Started) \/ plan[d] \in lapsed'
      BY <1>2, <1>5, <1>8 DEF OneCall
    <3>3. \A q \in Plans : SoundPlan(q)'
      BY <1>5, <1>8, <1>11, <2>1, <3>2, PlansKept
    <3> QED
      BY <1>13, <2>1, <3>1, <3>3
  <2>2. CASE applyAt[c] = "inFlight" /\ TakeEffect(c)
    <3>1. p \in lapsed' /\ UNCHANGED <<stolen, engineReceipt>>
          /\ (leaseRecord' = leaseRecord \/ (leaseRecord'.owner = Gone /\ Gone \notin Owners))
      BY <1>3, <1>5
    <3> QED
      BY <1>2, <1>8, <1>11, <2>2, <3>1, EffectSeen
  <2> QED
    BY <1>6, <2>1, <2>2
<1> QED
  BY <1>8, <1>9, <1>13, <1>14 DEF CloudIndInv

LEMMA CloudInitInv == CloudInit => CloudIndInv
<1> SUFFICES ASSUME CloudInit PROVE CloudIndInv
  OBVIOUS
<1>1. PICK dead \in Plans \cup {Nobody} :
        /\ LeaseInit(dead # Nobody)
        /\ approval = [p \in Plans |-> IF p = dead THEN Gone ELSE Nobody]
        /\ lapsed = {dead} \ {Nobody}
  BY DEF CloudInit
<1>2. /\ leaseRecord \in LeaseRow
      /\ leaseRecord.owner = IF dead # Nobody THEN Gone ELSE Nobody
      /\ leaseRecord.written => dead # Nobody
  <2>1. CASE dead = Nobody
    BY <1>1, <2>1 DEF LeaseInit, NoRecord, LeaseRow
  <2>2. CASE dead # Nobody
    <3>0. [owner |-> Nobody, fence |-> 0, left |-> 0, written |-> FALSE] \in LeaseRow
      BY DEF LeaseRow
    <3>1. PICK r \in LeaseRow : r = NoRecord
      BY <3>0 DEF NoRecord
    <3>2. leaseRecord = [r EXCEPT !.owner = Gone, !.fence = 1, !.written = TRUE]
      BY <1>1, <2>2, <3>1 DEF LeaseInit
    <3>3. PICK s \in LeaseRow : s = [r EXCEPT !.owner = Gone] /\ s.owner = Gone
      <4>1. [r EXCEPT !.owner = Gone] = [owner |-> Gone, fence |-> r.fence, left |-> r.left, written |-> r.written]
        BY DEF LeaseRow
      <4>2. [owner |-> Gone, fence |-> r.fence, left |-> r.left, written |-> r.written] \in LeaseRow
        BY DEF LeaseRow
      <4> QED
        BY <4>1, <4>2
    <3>4. PICK t \in LeaseRow : t = [s EXCEPT !.fence = 1] /\ t.owner = Gone
      <4>1. [s EXCEPT !.fence = 1] = [owner |-> s.owner, fence |-> 1, left |-> s.left, written |-> s.written]
        BY DEF LeaseRow
      <4>2. [owner |-> s.owner, fence |-> 1, left |-> s.left, written |-> s.written] \in LeaseRow
        BY DEF LeaseRow
      <4> QED
        BY <3>3, <4>1, <4>2
    <3>5. \A w \in BOOLEAN : [t EXCEPT !.written = w] = [owner |-> t.owner, fence |-> t.fence, left |-> t.left, written |-> w]
      BY DEF LeaseRow
    <3>6. \A w \in BOOLEAN : [owner |-> t.owner, fence |-> t.fence, left |-> t.left, written |-> w] \in LeaseRow
      BY DEF LeaseRow
    <3>7. TRUE \in BOOLEAN
      OBVIOUS
    <3>8. [t EXCEPT !.written = TRUE] \in LeaseRow
      BY <3>5, <3>6, <3>7, Zenon
    <3>9. [t EXCEPT !.written = TRUE].owner = Gone
      BY <3>4, <3>5, <3>7, Zenon
    <3>10. leaseRecord = [t EXCEPT !.written = TRUE]
      BY <3>2, <3>3, <3>4
    <3> QED
      BY <2>2, <3>8, <3>9, <3>10
  <2> QED
    BY <2>1, <2>2
<1>3. LeaseTyped /\ ~stolen /\ at = [c \in Owners |-> "out"]
  <2>1. backend \in {"sqlite", "local"} /\ counter = leaseRecord.fence /\ staged = 0 /\ stolen = FALSE
        /\ at = [c \in Owners |-> "out"] /\ mine = [c \in Owners |-> [fence |-> 0, left |-> 0]]
    BY <1>1, LeaseAssumption DEF LeaseInit
  <2> QED
    BY <1>2, <2>1 DEF LeaseTyped, LeaseRow
<1>4. \A p \in Plans : applied[p] = [i \in 1 .. PlanSize(p) |-> 0]
  BY DEF CloudInit
<1>5. ApplyTyped
  <2>1. approval \in [Plans -> Owners \cup {Nobody, Gone}] /\ lapsed \subseteq Plans /\ thrown \subseteq Plans
    BY <1>1 DEF CloudInit
  <2>2. applied = [p \in Plans |-> applied[p]] /\ \A p \in Plans : applied[p] \in [1 .. PlanSize(p) -> Nat]
    BY <1>4 DEF CloudInit
  <2>3. engineReceipt \in [Plans -> Seq(Outcome) \cup {Nobody}] /\ plan \in [Owners -> Plans \cup {Nobody}]
        /\ seen = [c \in Owners |-> seen[c]]
    BY DEF CloudInit
  <2>4. applyAt \in [Owners -> {"idle", "acquiring", "releasing"} \cup Preparing \cup Started]
    BY DEF CloudInit
  <2>5. results \in [Owners -> Seq(Outcome)] /\ calls \in Nat /\ deaths \in Nat
    BY DEF CloudInit
  <2> QED
    BY <2>1, <2>2, <2>3, <2>4, <2>5 DEF ApplyTyped
<1>6. \A p \in Plans : SoundPlan(p)
  <2> SUFFICES ASSUME NEW p \in Plans PROVE SoundPlan(p)
    OBVIOUS
  <2>1. \A i \in 1 .. PlanSize(p) : applied[p][i] = 0
    BY <1>4
  <2> QED
    BY <2>1 DEF SoundPlan, Untouched
<1>7. SoundStore
  BY <1>1, <1>2, <1>3, LeaseAssumption DEF SoundStore, LeaseKept
<1>8. ASSUME NEW c \in Owners PROVE SoundCall(c) /\ SoundLease(c) /\ SoundEffects(c) /\ SoundSettings(c)
  <2>1. applyAt[c] = "idle" /\ plan[c] = Nobody /\ results[c] = <<>> /\ at[c] = "out" /\ leaseRecord.owner # c
    BY <1>2, <1>3, LeaseAssumption DEF CloudInit
  <2> QED
    BY <2>1 DEF SoundCall, SoundLease, Owns, CurrentLease, SoundEffects, SoundSettings, Preparing, Started
<1> QED
  BY <1>3, <1>5, <1>6, <1>7, <1>8 DEF CloudIndInv

LEMMA CloudStepInv == CloudIndInv /\ [CloudNext]_cloudVars => CloudIndInv'
<1> SUFFICES ASSUME CloudIndInv, [CloudNext]_cloudVars PROVE CloudIndInv'
  OBVIOUS
<1>1. CASE UNCHANGED cloudVars
  BY <1>1 DEF cloudVars, leaseVars, cloudLocal, CloudIndInv, LeaseTyped, ApplyTyped, SoundStore, LeaseKept, SoundCall,
              SoundLease, Owns, CurrentLease, SoundEffects, SoundSettings, SoundPlan, Excused, Untouched, Change, Nth
<1>2. ASSUME NEW c \in Owners, AcquireLease(c) \/ Unavailable(c) \/ ReleaseLease(c) PROVE CloudIndInv'
  BY <1>2, AcquireInv, UnavailableInv, ReleaseInv
<1>3. ASSUME NEW c \in Owners, CheckApproval(c) \/ CheckTargetLease(c) \/ CheckReceipt(c) PROVE CloudIndInv'
  BY <1>3, PreflightInv
<1>4. ASSUME NEW c \in Owners, ReadOperation(c) \/ BeforeEffect(c) \/ Refuse(c) PROVE CloudIndInv'
  BY <1>4, OperationInv
<1>5. ASSUME NEW c \in Owners, Accept(c) PROVE CloudIndInv'
  BY <1>5, AcceptInv
<1>6. ASSUME NEW c \in Owners, RecordResults(c) PROVE CloudIndInv'
  BY <1>6, RecordInv
<1>7. ASSUME NEW c \in Owners, Die(c) PROVE CloudIndInv'
  BY <1>7, DieInv
<1>10. ASSUME NEW c \in Owners, Throw(c) PROVE CloudIndInv'
  BY <1>10, ThrowInv
<1>8. ASSUME NEW c \in Owners, NEW p \in Plans, StartApply(c, p) PROVE CloudIndInv'
  BY <1>8, StartApplyInv
<1>9. CASE Elapse
  BY <1>9, ElapseInv
<1> QED
  BY <1>1, <1>2, <1>3, <1>4, <1>5, <1>6, <1>7, <1>8, <1>9, <1>10 DEF CloudNext, CallStep

LEMMA CloudInductive == CloudSpec => []CloudIndInv
  BY CloudInitInv, CloudStepInv, PTL DEF CloudSpec

-----------------------------------------------------------------------------
\* A live lease is removed by nobody but its owner, whatever calls meet, pause or
\* die (acquire and release of the SQLite store; of the file store until some
\* lease has ended under its call).
THEOREM LeaseIsKept == CloudSpec => []LeaseKept
<1>1. CloudIndInv => LeaseKept
  BY DEF CloudIndInv, SoundStore
<1> QED
  BY <1>1, CloudInductive, PTL

\* A provider operation is requested with effect once, although the plan may be
\* applied by several calls and again after a crash (the approval row, the receipt
\* and the lease assertion before each request).
THEOREM EffectsOnce == CloudSpec => []EffectOnce
<1>1. CloudIndInv => EffectOnce
  BY DEF CloudIndInv, SoundPlan, Excused, EffectOnce
<1> QED
  BY <1>1, CloudInductive, PTL

\* While requests land under the lease they were checked under, an update of the
\* settings of a worker replaces nothing that it has not read, though it reads
\* before it asserts its lease (listWorkerSettings, beforeEffect).
THEOREM BindingsAreKept == ASSUME ~Late PROVE CloudSpec => BindingsKept
<1>1. ASSUME CloudIndInv, [CloudNext]_cloudVars PROVE settings \subseteq settings' \/ stolen
  <2>1. ASSUME NEW c \in Owners, applyAt[c] = "inFlight", TakeEffect(c) PROVE settings \subseteq settings' \/ stolen
    <3>1. SoundLease(c) /\ SoundSettings(c)
      BY <1>1, <2>1 DEF CloudIndInv
    <3>2. CASE Change(c) = "merge"
      <4>1. leaseRecord.owner = c \/ stolen
        BY <2>1, <3>1 DEF SoundLease, CurrentLease, Owns
      <4>2. settings \subseteq seen[c] \/ stolen
        BY <2>1, <3>1, <3>2, <4>1 DEF SoundSettings
      <4> QED
        BY <2>1, <3>2, <4>2 DEF TakeEffect
    <3>3. CASE Change(c) # "merge"
      BY <2>1, <3>3 DEF TakeEffect
    <3> QED
      BY <3>2, <3>3
  <2>2. ASSUME NEW c \in Owners, Accept(c) PROVE settings \subseteq settings' \/ stolen
    BY <2>1, <2>2 DEF Accept
  <2>3. ASSUME NEW c \in Owners, Die(c) PROVE settings \subseteq settings' \/ stolen
    BY <2>1, <2>3 DEF Die
  <2>4. UNCHANGED settings
        \/ \E c \in Owners : Accept(c) \/ Die(c)
    BY <1>1 DEF CloudNext, CallStep, AcquireLease, Unavailable, CheckApproval, CheckTargetLease, CheckReceipt, ApplyPreflight,
                ReadOperation, BeforeEffect, Refuse, RecordResults, ReleaseLease, StartApply, Throw, Elapse, cloudVars
  <2> QED
    BY <2>2, <2>3, <2>4
<1>2. ASSUME CloudIndInv, [CloudNext]_cloudVars PROVE [settings \subseteq settings' \/ stolen]_cloudVars
  BY <1>1, <1>2
<1> QED
  BY <1>2, CloudInductive, PTL DEF CloudSpec, BindingsKept

\* A SQLite receipt is recorded by a call whose own approval is the stored one (the
\* approval is put before the lease is asked for, and a row is never replaced).
THEOREM ReceiptsApproved == CloudSpec => ReceiptApproved
<1> DEFINE Approving == \A c \in Owners : \A p \in Plans :
                            applyAt[c] = "recording" /\ plan[c] = p /\ engineReceipt'[p] # engineReceipt[p]
                                => approval[p] = c \/ backend = "local"
<1>1. CloudIndInv => Approving
  BY DEF CloudIndInv, SoundEffects, LeaseTyped
<1>2. CloudIndInv /\ [CloudNext]_cloudVars => [Approving]_cloudVars
  BY <1>1
<1> QED
  BY <1>2, CloudInductive, PTL DEF CloudSpec, ReceiptApproved
-----------------------------------------------------------------------------
\* A call that has started has no receipt of its plan yet, unless the plan of the
\* file store has lapsed: two calls of one plan are at work only then.
Lapse(p) == backend = "local" /\ (p \in lapsed \/ stolen)
Pending(c) == applyAt[c] \in Started => engineReceipt[plan[c]] = Nobody \/ Lapse(plan[c])

\* The steps that neither record a receipt nor bring a call past the look-up of one.
LEMMA PendingKept ==
    ASSUME CloudIndInv, \A c \in Owners : Pending(c), UNCHANGED engineReceipt, Onward,
           \A c \in Owners : applyAt'[c] \in Started => applyAt[c] \in Started /\ plan'[c] = plan[c]
    PROVE  \A c \in Owners : Pending(c)'
  BY DEF Pending, Lapse, Onward

LEMMA StepOnward == ASSUME CloudIndInv, [CloudNext]_cloudVars PROVE Onward
<1>1. LeaseTyped /\ ApplyTyped /\ SoundStore
  BY DEF CloudIndInv
<1>2. ASSUME NEW c \in Owners, AcquireLease(c) PROVE Onward
  <2>1. AcquireStep(c) /\ SoundLease(c) /\ lapsed \subseteq lapsed' /\ thrown' = thrown
    BY <1>2 DEF CloudIndInv, AcquireLease
  <2>2. OneLease(c) /\ SeenByOthers(c)
    BY <1>1, <2>1, AcquireTyped, AcquireSeen
  <2> QED
    BY <2>1, <2>2 DEF Onward, OneLease, SeenByOthers
<1>3. ASSUME NEW c \in Owners, ReleaseLease(c) PROVE Onward
  <2>1. ReleaseStep(c) /\ SoundLease(c) /\ UNCHANGED <<lapsed, thrown>>
    BY <1>3 DEF CloudIndInv, ReleaseLease
  <2>2. OneLease(c) /\ SeenByOthers(c)
    BY <1>1, <2>1, ReleaseTyped, ReleaseSeen
  <2> QED
    BY <2>1, <2>2 DEF Onward, OneLease, SeenByOthers
<1>4. ASSUME NEW c \in Owners, Unavailable(c) \/ CheckApproval(c) \/ CheckTargetLease(c) \/ CheckReceipt(c) PROVE Onward
  BY <1>4 DEF Unavailable, GiveUp, CheckApproval, CheckTargetLease, CheckReceipt, ApplyPreflight, leaseVars, Onward
<1>5. ASSUME NEW c \in Owners, ReadOperation(c) \/ BeforeEffect(c) \/ Accept(c) \/ Refuse(c) PROVE Onward
  BY <1>5 DEF ReadOperation, BeforeEffect, Accept, Refuse, leaseVars, Onward
<1>6. ASSUME NEW c \in Owners, RecordResults(c) \/ Throw(c) \/ Die(c) PROVE Onward
  BY <1>6 DEF RecordResults, Throw, Die, Forget, leaseVars, Onward
<1>7. ASSUME NEW c \in Owners, NEW p \in Plans, StartApply(c, p) PROVE Onward
  BY <1>7 DEF StartApply, Ask, Onward
<1>8. CASE Elapse \/ UNCHANGED cloudVars
  BY <1>8 DEF Elapse, PassTime, cloudVars, leaseVars, Onward
<1> QED
  BY <1>2, <1>3, <1>4, <1>5, <1>6, <1>7, <1>8 DEF CloudNext, CallStep

\* A receipt is recorded while another call of its plan is at work only when the
\* plan has lapsed.
LEMMA RecordPending ==
    ASSUME CloudIndInv, \A d \in Owners : Pending(d), NEW c \in Owners, RecordResults(c)
    PROVE  \A d \in Owners : Pending(d)'
<1> SUFFICES ASSUME NEW d \in Owners, applyAt'[d] \in Started PROVE engineReceipt'[plan[d]] = Nobody \/ Lapse(plan[d])
  BY DEF RecordResults, Pending, Lapse, leaseVars
<1>1. ApplyTyped /\ LeaseTyped /\ SoundCall(c) /\ SoundCall(d) /\ SoundLease(c) /\ SoundLease(d)
      /\ SoundEffects(c) /\ SoundEffects(d) /\ Pending(d) /\ applyAt[c] = "recording"
  BY DEF CloudIndInv, RecordResults
<1>2. applyAt'[c] = "releasing" /\ applyAt[d] \in Started /\ d # c
  BY <1>1 DEF RecordResults, ApplyGoto, ApplyTyped, Started
<1>3. CASE plan[d] = plan[c]
  <2>1. backend = "local"
    BY <1>1, <1>2, <1>3 DEF SoundEffects, LeaseTyped, Started
  <2>2. plan[c] \in lapsed \/ stolen
    BY <1>1, <1>2, <1>3 DEF SoundLease, Owns, Started
  <2> QED
    BY <1>3, <2>1, <2>2 DEF Lapse
<1>4. CASE plan[d] # plan[c]
  <2>1. plan[d] \in Plans
    BY <1>1, <1>2 DEF SoundCall, ApplyTyped, Started
  <2>2. engineReceipt'[plan[d]] = engineReceipt[plan[d]]
    BY <1>1, <1>4, <2>1 DEF RecordResults, ApplyTyped
  <2> QED
    BY <1>1, <1>2, <2>2 DEF Pending
<1> QED
  BY <1>3, <1>4

LEMMA LookUpPending ==
    ASSUME CloudIndInv, \A d \in Owners : Pending(d), NEW c \in Owners, CheckReceipt(c)
    PROVE  \A d \in Owners : Pending(d)'
<1>1. ApplyTyped
  BY DEF CloudIndInv
<1>2. \A d \in Owners \ {c} : applyAt'[d] = applyAt[d]
  BY <1>1 DEF CheckReceipt, ApplyPreflight, ApplyGoto, ApplyTyped
<1>3. engineReceipt[plan[c]] # Nobody => applyAt'[c] = "releasing"
  BY <1>1 DEF CheckReceipt, ApplyPreflight, ApplyGoto, ApplyTyped
<1>4. UNCHANGED <<engineReceipt, plan, backend, stolen, lapsed>>
  BY DEF CheckReceipt, ApplyPreflight, leaseVars
<1> QED
  BY <1>2, <1>3, <1>4 DEF Pending, Lapse, Started

LEMMA PendingNext ==
    ASSUME CloudIndInv, \A d \in Owners : Pending(d), [CloudNext]_cloudVars
    PROVE  \A d \in Owners : Pending(d)'
<1>1. Onward /\ ApplyTyped
  BY StepOnward DEF CloudIndInv
<1>2. ASSUME NEW c \in Owners, AcquireLease(c) PROVE \A d \in Owners : Pending(d)'
  <2>1. \A d \in Owners : applyAt'[d] \in Started => applyAt[d] \in Started
    BY <1>1, <1>2 DEF AcquireLease, ApplyGoto, ApplyTyped, Started
  <2> QED
    BY <1>1, <1>2, <2>1, PendingKept DEF AcquireLease
<1>3. ASSUME NEW c \in Owners, Retire(c), UNCHANGED engineReceipt PROVE \A d \in Owners : Pending(d)'
  <2>1. \A d \in Owners : applyAt'[d] \in Started => applyAt[d] \in Started /\ plan'[d] = plan[d]
    BY <1>1, <1>3, RetireTyped DEF Started
  <2> QED
    BY <1>1, <1>3, <2>1, PendingKept
<1>4. ASSUME NEW c \in Owners, CheckApproval(c) \/ CheckTargetLease(c) \/ Throw(c) PROVE \A d \in Owners : Pending(d)'
  <2>1. \A d \in Owners : applyAt'[d] \in Started => applyAt[d] \in Started
    BY <1>1, <1>4 DEF CheckApproval, CheckTargetLease, ApplyPreflight, Throw, ApplyGoto, ApplyTyped, Started
  <2>2. UNCHANGED <<engineReceipt, plan>>
    BY <1>4 DEF CheckApproval, CheckTargetLease, ApplyPreflight, Throw
  <2> QED
    BY <1>1, <2>1, <2>2, PendingKept
<1>5. ASSUME NEW c \in Owners, ReadOperation(c) \/ BeforeEffect(c) \/ Accept(c) \/ Refuse(c)
      PROVE  \A d \in Owners : Pending(d)'
  <2>1. UNCHANGED <<engineReceipt, plan>> /\ applyAt[c] \in Started
    BY <1>5 DEF ReadOperation, BeforeEffect, Accept, Refuse, Started
  <2>2. \A d \in Owners \ {c} : applyAt'[d] = applyAt[d]
    BY <1>1, <1>5 DEF ReadOperation, BeforeEffect, Accept, Refuse, Result, ApplyGoto, ApplyTyped
  <2> QED
    BY <1>1, <2>1, <2>2, PendingKept
<1>6. ASSUME NEW c \in Owners, NEW p \in Plans, StartApply(c, p) PROVE \A d \in Owners : Pending(d)'
  <2>1. \A d \in Owners : applyAt'[d] \in Started => applyAt[d] \in Started /\ plan'[d] = plan[d]
    BY <1>1, <1>6 DEF StartApply, ApplyGoto, ApplyTyped, Started
  <2> QED
    BY <1>1, <1>6, <2>1, PendingKept DEF StartApply
<1>7. ASSUME UNCHANGED <<engineReceipt, plan, applyAt>> PROVE \A d \in Owners : Pending(d)'
  BY <1>1, <1>7, PendingKept
<1>8. CASE Elapse \/ UNCHANGED cloudVars
  BY <1>7, <1>8 DEF Elapse, cloudVars, cloudLocal
<1>9. ASSUME NEW c \in Owners, Unavailable(c) \/ ReleaseLease(c) \/ Die(c) PROVE \A d \in Owners : Pending(d)'
  BY <1>3, <1>7, <1>9 DEF Unavailable, ReleaseLease, Die, cloudLocal
<1> QED
  BY <1>2, <1>4, <1>5, <1>6, <1>8, <1>9, RecordPending, LookUpPending DEF CloudNext, CallStep

\* A plan with a receipt takes no effect any more, whatever its calls meet (the look-up
\* of the receipt under the lease; the file store until a call dies or its lease ends).
THEOREM ReceiptsFinal == CloudSpec => ReceiptFinal
<1> DEFINE Final == \A p \in Plans : engineReceipt[p] # Nobody /\ applied'[p] # applied[p] => Lapse(p)
           IInv == CloudIndInv /\ \A c \in Owners : Pending(c)
<1>1. CloudInit => IInv
  <2>1. CloudInit => \A c \in Owners : Pending(c)
    BY DEF CloudInit, Pending, Started
  <2> QED
    BY <2>1, CloudInitInv
<1>2. IInv /\ [CloudNext]_cloudVars => IInv'
  BY CloudStepInv, PendingNext
<1>3. ASSUME IInv, [CloudNext]_cloudVars PROVE Final
  <2>1. ASSUME NEW c \in Owners, applyAt[c] = "inFlight", TakeEffect(c) PROVE Final
    <3>1. ApplyTyped /\ SoundCall(c) /\ Pending(c)
      BY <1>3 DEF CloudIndInv
    <3>2. plan[c] \in Plans
      BY <2>1, <3>1 DEF SoundCall, ApplyTyped
    <3>3. \A p \in Plans \ {plan[c]} : applied'[p] = applied[p]
      BY <2>1, <3>1, <3>2, OperationDone
    <3> QED
      BY <2>1, <3>1, <3>3 DEF Pending, Started
  <2>2. UNCHANGED applied \/ \E c \in Owners : Accept(c) \/ Die(c)
    BY <1>3 DEF CloudNext, CallStep, AcquireLease, Unavailable, CheckApproval, CheckTargetLease, CheckReceipt, ApplyPreflight,
                ReadOperation, BeforeEffect, Refuse, RecordResults, ReleaseLease, StartApply, Throw, Elapse, cloudVars
  <2> QED
    BY <2>1, <2>2 DEF Accept, Die
<1>4. IInv /\ [CloudNext]_cloudVars => [Final]_cloudVars
  BY <1>3
<1>5. CloudSpec => [][Final]_cloudVars
  BY <1>1, <1>2, <1>4, PTL DEF CloudSpec
<1> QED
  BY <1>5 DEF ReceiptFinal, Lapse
=============================================================================
