-------------------------- MODULE HostedReadProofs --------------------------
(***************************************************************************)
(* Theorems about HostedRead, for any number of workers, jobs and outputs, *)
(* any lease and any clock skew.                                           *)
(***************************************************************************)
EXTENDS HostedRead, TLAPS

\* The steps at which a worker has a claimed dispatch in hand.
Serving == {"executing", "claiming", "acting", "putting", "completing",
            "acking", "deferring"}

\* The locals of workOnce that are in scope at each step.
LocalsOK ==
    \A w \in Workers :
        /\ pc[w] = "recoverCommit" => target[w] \in Jobs
        /\ pc[w] \in Serving =>
              hand[w] \in DOMAIN dispatch /\ target[w] = hand[w][1]
        /\ pc[w] = "putting" => outcome[w] \in Outputs
        /\ pc[w] = "completing" => outcome[w] \in Outputs \cup Failures

TypeInv == TypeOK /\ LocalsOK

-----------------------------------------------------------------------------
(***************************************************************************)
(* The updates of one row.                                                 *)
(***************************************************************************)

LEMMA StampType == \A w \in Workers, n \in Nat : Stamp(w, n) \in Nat
  BY ClockAssumption DEF Stamp

\* A job row with four new columns is a job row.
Updated(row, p, n, t, x) ==
    [row EXCEPT !.phase = p, !.revision = n, !.token = t, !.expires = x]

LEMMA RowUpdate ==
  \A row \in JobRow, p \in Phases, n \in Nat, t \in Token \cup {Nil}, x \in Nat :
      /\ Updated(row, p, n, t, x) \in JobRow
      /\ Updated(row, p, n, t, x).phase = p
      /\ Updated(row, p, n, t, x).revision = n
      /\ Updated(row, p, n, t, x).token = t
      /\ Updated(row, p, n, t, x).expires = x
      /\ Updated(row, p, n, t, x).result = row.result
      /\ Updated(row, p, n, t, x).failure = row.failure
  <1> TAKE row \in JobRow, p \in Phases, n \in Nat, t \in Token \cup {Nil}, x \in Nat
  <1>1. Updated(row, p, n, t, x) \in JobRow
    BY DEF JobRow, Updated
  <1> QED
    BY <1>1 DEF JobRow, Updated

LEMMA RowFields ==
  ASSUME NEW row \in JobRow
  PROVE  /\ row.phase \in Phases
         /\ row.revision \in Nat
         /\ row.token \in Token \cup {Nil}
         /\ row.expires \in Nat
         /\ row.result \in Outputs \cup {Nil}
         /\ row.failure \in Failures \cup {Nil}
  BY DEF JobRow

LEMMA StartedRow ==
  ASSUME NEW row \in JobRow, NEW w \in Workers
  PROVE  /\ Started(row, w) \in JobRow
         /\ Started(row, w).phase = "running"
         /\ Started(row, w).revision = row.revision + 1
         /\ Started(row, w).token = [owner |-> w, revision |-> row.revision + 1]
         /\ Started(row, w).expires = Stamp(w, Lease)
         /\ Started(row, w).result = row.result
         /\ Started(row, w).failure = row.failure
  <1>1. row.revision + 1 \in Nat
    BY RowFields
  <1>2. "running" \in Phases
    BY DEF Phases, Live
  <1>3. [owner |-> w, revision |-> row.revision + 1] \in Token \cup {Nil}
    BY <1>1 DEF Token
  <1>4. Stamp(w, Lease) \in Nat
    BY StampType, ClockAssumption
  <1>5. Started(row, w) =
          Updated(row, "running", row.revision + 1,
                  [owner |-> w, revision |-> row.revision + 1], Stamp(w, Lease))
    BY DEF Started, Updated
  <1> QED
    BY <1>1, <1>2, <1>3, <1>4, <1>5, RowUpdate

LEMMA RequeuedRow ==
  ASSUME NEW row \in JobRow
  PROVE  /\ Requeued(row) \in JobRow
         /\ Requeued(row).phase = "queued"
         /\ Requeued(row).revision = row.revision + 1
         /\ Requeued(row).token = Nil
         /\ Requeued(row).result = row.result
         /\ Requeued(row).failure = row.failure
  <1>1. row.revision + 1 \in Nat
    BY RowFields
  <1>2. "queued" \in Phases /\ Nil \in Token \cup {Nil} /\ 0 \in Nat
    BY DEF Phases, Live
  <1>3. Requeued(row) = Updated(row, "queued", row.revision + 1, Nil, 0)
    BY DEF Requeued, Updated
  <1> QED
    BY <1>1, <1>2, <1>3, RowUpdate

LEMMA SettledRow ==
  ASSUME NEW row \in JobRow, NEW o \in Outputs \cup Failures
  PROVE  /\ Settled(row, o) \in JobRow
         /\ Settled(row, o).revision = row.revision + 1
         /\ o \in Failures =>
              /\ Settled(row, o).phase = "failed"
              /\ Settled(row, o).failure = o
              /\ Settled(row, o).result = row.result
         /\ o \notin Failures =>
              /\ Settled(row, o).phase = "succeeded"
              /\ Settled(row, o).failure = row.failure
              /\ Settled(row, o).result = o
  <1>1. row.revision + 1 \in Nat
    BY RowFields
  <1>2. "failed" \in Phases /\ "succeeded" \in Phases
    BY DEF Phases, Terminal
  <1>3. CASE o \in Failures
    BY <1>1, <1>2, <1>3 DEF Settled, JobRow
  <1>4. CASE o \notin Failures
    BY <1>1, <1>2, <1>4 DEF Settled, JobRow
  <1> QED
    BY <1>3, <1>4

LEMMA NoJobType == NoJob \in JobRow
  BY DEF NoJob, JobRow, Phases
LEMMA CountDownType == \A n \in Nat : CountDown(n) \in Nat /\ CountDown(n) <= n
  BY DEF CountDown

LEMMA NewDispatchType == \A n \in Nat : NewDispatch(n) \in DispatchRow
  BY DEF NewDispatch, DispatchRow

\* Inserting a dispatch keeps the others and their types.
LEMMA InsertDispatchType ==
  ASSUME TypeOK, NEW id \in Jobs \X (Nat \ {0}), NEW n \in Nat,
         InsertDispatch(id, n)
  PROVE  /\ DOMAIN dispatch' = DOMAIN dispatch \cup {id}
         /\ DOMAIN dispatch' \subseteq Jobs \X (Nat \ {0})
         /\ dispatch' \in [DOMAIN dispatch' -> DispatchRow]
         /\ \A d \in DOMAIN dispatch \ {id} : dispatch'[d] = dispatch[d]
         /\ dispatch'[id] = NewDispatch(n)
  BY NewDispatchType DEF InsertDispatch, TypeOK

\* Claims, acknowledgements, releases and the clock change one or two columns.
LEMMA DispatchUpdate ==
  ASSUME NEW row \in DispatchRow, NEW n \in Nat, NEW m \in Nat, NEW w \in Workers
  PROVE  /\ [row EXCEPT !.claim = w, !.expires = n] \in DispatchRow
         /\ [row EXCEPT !.completed = TRUE, !.claim = Nil, !.expires = 0] \in DispatchRow
         /\ [row EXCEPT !.available = n, !.claim = Nil, !.expires = 0] \in DispatchRow
         /\ [row EXCEPT !.available = n, !.expires = m] \in DispatchRow
  BY DEF DispatchRow

LEMMA DispatchFields ==
  ASSUME NEW row \in DispatchRow
  PROVE  /\ row.available \in Nat
         /\ row.claim \in Workers \cup {Nil}
         /\ row.expires \in Nat
         /\ row.completed \in BOOLEAN
  BY DEF DispatchRow

-----------------------------------------------------------------------------
(***************************************************************************)
(* Type correctness.                                                       *)
(***************************************************************************)

LEMMA TypeInit == Init => TypeInv
  <1> SUFFICES ASSUME Init PROVE TypeInv
    OBVIOUS
  <1>1. job \in [Jobs -> JobRow]
    BY NoJobType DEF Init
  <1>2. DOMAIN dispatch = {}
    BY DEF Init
  <1>3. /\ DOMAIN dispatch \subseteq Jobs \X (Nat \ {0})
        /\ dispatch \in [DOMAIN dispatch -> DispatchRow]
    BY <1>2 DEF Init
  <1>4. \A w \in Workers : pc[w] = "idle"
    BY DEF Init
  <1>5. LocalsOK
    BY <1>4 DEF LocalsOK, Serving
  <1> QED
    BY <1>1, <1>3, <1>5, BoundAssumption DEF Init, TypeInv, TypeOK, Steps

-----------------------------------------------------------------------------
\* Type correctness is inductive, with the scope of the locals.
LEMMA TypeStep == TypeInv /\ [Next]_vars => TypeInv'
  <1> SUFFICES ASSUME TypeInv, [Next]_vars PROVE TypeInv'
    OBVIOUS
  <1> USE DEF TypeInv, LocalsOK, Serving
  <1>f. MaxFaults \in Nat /\ faults \in 0..MaxFaults
    BY BoundAssumption DEF TypeOK
  <1>1. ASSUME NEW j \in Jobs, Admit(j) PROVE TypeInv'
    <2>1. [NoJob EXCEPT !.phase = "queued", !.revision = 1] \in JobRow
      BY NoJobType DEF NoJob, JobRow, Phases, Live
    <2>2. job' \in [Jobs -> JobRow]
      BY <1>1, <2>1 DEF TypeOK, Admit
    <2>3. <<j, 1>> \in Jobs \X (Nat \ {0})
      OBVIOUS
    <2>4. /\ DOMAIN dispatch' = DOMAIN dispatch \cup {<<j, 1>>}
          /\ DOMAIN dispatch' \subseteq Jobs \X (Nat \ {0})
          /\ dispatch' \in [DOMAIN dispatch' -> DispatchRow]
      BY <1>1, <2>3, InsertDispatchType DEF Admit
    <2>5. audit' \in [Jobs -> SUBSET (Kinds \X Nat)]
      BY <1>1 DEF TypeOK, Admit, InsertAudit, Kinds
    <2> QED
      BY <1>1, <2>2, <2>4, <2>5 DEF TypeOK, Admit, local
  <1>2. ASSUME NEW w \in Workers, NEW j \in Jobs, RecoverGet(w, j) PROVE TypeInv'
    <2>1. TypeOK'
      BY <1>2, RowFields DEF TypeOK, RecoverGet, Goto, Die, Forget, store, Steps
    <2>2. LocalsOK'
      BY <1>2 DEF TypeOK, RecoverGet, Goto, Die, Forget, store
    <2> QED
      BY <2>1, <2>2
  <1>3. ASSUME NEW w \in Workers, RecoverCommit(w) PROVE TypeInv'
    <2>1. target[w] \in Jobs /\ seen[w] \in Nat /\ job[target[w]] \in JobRow
      BY <1>3 DEF TypeOK, RecoverCommit
    <2>2. job' \in [Jobs -> JobRow]
      BY <1>3, <2>1, RequeuedRow DEF TypeOK, RecoverCommit
    <2>3. /\ <<target[w], seen[w] + 1>> \in Jobs \X (Nat \ {0})
          /\ Stamp(w, 0) \in Nat
      BY <2>1, StampType
    <2>4. /\ DOMAIN dispatch' = DOMAIN dispatch \cup {<<target[w], seen[w] + 1>>}
          /\ DOMAIN dispatch' \subseteq Jobs \X (Nat \ {0})
          /\ dispatch' \in [DOMAIN dispatch' -> DispatchRow]
      BY <1>3, <2>3, InsertDispatchType DEF RecoverCommit
    <2>5. audit' \in [Jobs -> SUBSET (Kinds \X Nat)]
      BY <1>3, <2>1 DEF TypeOK, RecoverCommit, InsertAudit, Kinds
    <2>6. TypeOK'
      BY <1>3, <2>2, <2>4, <2>5 DEF TypeOK, RecoverCommit, Goto, Steps
    <2>7. LocalsOK'
      BY <1>3, <2>4 DEF TypeOK, RecoverCommit, Goto
    <2> QED
      BY <2>6, <2>7
  <1>4. ASSUME NEW w \in Workers, NEW d \in DOMAIN dispatch, ClaimDispatch(w, d)
        PROVE  TypeInv'
    <2>1. Stamp(w, Lease) \in Nat
      BY StampType, ClockAssumption
    <2>2. [dispatch[d] EXCEPT !.claim = w, !.expires = Stamp(w, Lease)] \in DispatchRow
      BY <2>1, DispatchUpdate DEF TypeOK
    <2>3. /\ DOMAIN dispatch' = DOMAIN dispatch
          /\ dispatch' \in [DOMAIN dispatch' -> DispatchRow]
      BY <1>4, <2>2 DEF TypeOK, ClaimDispatch
    <2>4. d[1] \in Jobs
      BY DEF TypeOK
    <2>5. TypeOK'
      BY <1>4, <2>3, <2>4 DEF TypeOK, ClaimDispatch, Goto, Steps
    <2>6. LocalsOK'
      BY <1>4, <2>3 DEF TypeOK, ClaimDispatch, Goto
    <2> QED
      BY <2>5, <2>6
  <1>5. ASSUME NEW w \in Workers, ClaimJob(w) PROVE TypeInv'
    <2>1. hand[w] \in DOMAIN dispatch /\ target[w] = hand[w][1]
      BY <1>5 DEF ClaimJob
    <2>2. target[w] \in Jobs /\ seen[w] \in Nat /\ job[target[w]] \in JobRow
      BY <2>1 DEF TypeOK
    <2>3. job' \in [Jobs -> JobRow]
      BY <1>5, <2>2, StartedRow DEF TypeOK, ClaimJob
    <2>4. audit' \in [Jobs -> SUBSET (Kinds \X Nat)]
      BY <1>5, <2>2 DEF TypeOK, ClaimJob, InsertAudit, Kinds
    <2>5. TypeOK'
      BY <1>f, <1>5, <2>2, <2>3, <2>4 DEF TypeOK, ClaimJob, Reply, Goto, Fault, Steps
    <2>6. LocalsOK'
      BY <1>5 DEF TypeOK, ClaimJob, Reply, Goto
    <2> QED
      BY <2>5, <2>6
  <1>6. ASSUME NEW w \in Workers, Complete(w) PROVE TypeInv'
    <2>1. hand[w] \in DOMAIN dispatch /\ target[w] = hand[w][1]
          /\ outcome[w] \in Outputs \cup Failures
      BY <1>6 DEF Complete
    <2>2. target[w] \in Jobs /\ seen[w] \in Nat /\ job[target[w]] \in JobRow
      BY <2>1 DEF TypeOK
    <2>3. job' \in [Jobs -> JobRow]
      BY <1>6, <2>1, <2>2, SettledRow DEF TypeOK, Complete
    <2>4. Settled(job[target[w]], outcome[w]).phase \in Kinds
      BY <2>1, <2>2, SettledRow DEF Kinds, Terminal
    <2>5. audit' \in [Jobs -> SUBSET (Kinds \X Nat)]
      BY <1>6, <2>2, <2>4 DEF TypeOK, Complete, InsertAudit
    <2>6. TypeOK'
      BY <1>f, <1>6, <2>3, <2>5 DEF TypeOK, Complete, Reply, Goto, Fault, Steps
    <2>7. LocalsOK'
      BY <1>6 DEF TypeOK, Complete, Reply, Goto
    <2> QED
      BY <2>6, <2>7
  <1>7. ASSUME NEW w \in Workers, Acknowledge(w) PROVE TypeInv'
    <2>1. hand[w] \in DOMAIN dispatch
      BY <1>7 DEF Acknowledge
    <2>2. [dispatch[hand[w]] EXCEPT !.completed = TRUE, !.claim = Nil, !.expires = 0]
              \in DispatchRow
      BY <2>1, DispatchUpdate DEF TypeOK
    <2>3. /\ DOMAIN dispatch' = DOMAIN dispatch
          /\ dispatch' \in [DOMAIN dispatch' -> DispatchRow]
      BY <1>7, <2>1, <2>2 DEF TypeOK, Acknowledge
    <2>a. ASSUME Goto(w, "idle") /\ Forget(w) /\ UNCHANGED faults PROVE TypeOK'
      BY <1>f, <1>7, <2>3, <2>a DEF TypeOK, Acknowledge, Goto, Forget, Steps
    <2>b. ASSUME /\ Goto(w, "deferring") /\ Fault
                 /\ UNCHANGED <<todo, target, hand, seen, outcome>>
          PROVE  TypeOK'
      BY <1>f, <1>7, <2>3, <2>b DEF TypeOK, Acknowledge, Goto, Fault, Steps
    <2>4. TypeOK'
      BY <1>7, <2>a, <2>b DEF Acknowledge
    <2>5. LocalsOK'
      BY <1>7, <2>3 DEF TypeOK, Acknowledge, Goto, Forget
    <2> QED
      BY <2>4, <2>5
  <1>8. ASSUME NEW w \in Workers, Release(w) PROVE TypeInv'
    <2>1. hand[w] \in DOMAIN dispatch
      BY <1>8 DEF Release
    <2>2. Stamp(w, Retry) \in Nat
      BY StampType, ClockAssumption
    <2>3. [dispatch[hand[w]] EXCEPT !.available = Stamp(w, Retry), !.claim = Nil, !.expires = 0]
              \in DispatchRow
      BY <2>1, <2>2, DispatchUpdate DEF TypeOK
    <2>4. /\ DOMAIN dispatch' = DOMAIN dispatch
          /\ dispatch' \in [DOMAIN dispatch' -> DispatchRow]
      BY <1>8, <2>1, <2>3 DEF TypeOK, Release
    <2>5. TypeOK'
      BY <1>8, <2>4 DEF TypeOK, Release, Goto, Forget, Steps
    <2>6. LocalsOK'
      BY <1>8, <2>4 DEF TypeOK, Release, Goto, Forget
    <2> QED
      BY <2>5, <2>6
  <1>9. ASSUME Tick PROVE TypeInv'
    <2>1. ASSUME NEW j \in Jobs
          PROVE  [job[j] EXCEPT !.expires = CountDown(@)] \in JobRow
      <3>1. job[j] \in JobRow
        BY DEF TypeOK
      <3>2. CountDown(job[j].expires) \in Nat
        BY <3>1, RowFields, CountDownType
      <3> QED
        BY <3>1, <3>2 DEF JobRow
    <2>2. ASSUME NEW d \in DOMAIN dispatch
          PROVE  [dispatch[d] EXCEPT !.available = CountDown(@), !.expires = CountDown(@)]
                     \in DispatchRow
      <3>1. dispatch[d] \in DispatchRow
        BY DEF TypeOK
      <3>2. /\ CountDown(dispatch[d].available) \in Nat
            /\ CountDown(dispatch[d].expires) \in Nat
        BY <3>1, DispatchFields, CountDownType
      <3> QED
        BY <3>1, <3>2 DEF DispatchRow
    <2>3. /\ DOMAIN dispatch' = DOMAIN dispatch
          /\ dispatch' \in [DOMAIN dispatch' -> DispatchRow]
      BY <1>9, <2>2 DEF Tick
    <2> QED
      BY <1>9, <2>1, <2>3 DEF TypeOK, Tick, local
  <1>10. ASSUME NEW w \in Workers, ListExpired(w) PROVE TypeInv'
    <2>1. TypeOK'
      BY <1>f, <1>10, RowFields DEF TypeOK, Steps, store, Goto, Die, Forget, Fault, ListExpired, Expired
    <2>2. LocalsOK'
      BY <1>10 DEF TypeOK, store, Goto, Die, Forget, ListExpired, Expired
    <2> QED
      BY <2>1, <2>2
  <1>11. ASSUME NEW w \in Workers, RecoverConflict(w) PROVE TypeInv'
    <2>1. TypeOK'
      BY <1>f, <1>11, RowFields DEF TypeOK, Steps, store, Goto, Die, Forget, Fault, RecoverConflict
    <2>2. LocalsOK'
      BY <1>11 DEF TypeOK, store, Goto, Die, Forget, RecoverConflict
    <2> QED
      BY <2>1, <2>2
  <1>12. ASSUME NEW w \in Workers, RecoverDone(w) PROVE TypeInv'
    <2>1. TypeOK'
      BY <1>f, <1>12, RowFields DEF TypeOK, Steps, store, Goto, Die, Forget, Fault, RecoverDone
    <2>2. LocalsOK'
      BY <1>12 DEF TypeOK, store, Goto, Die, Forget, RecoverDone
    <2> QED
      BY <2>1, <2>2
  <1>13. ASSUME NEW w \in Workers, NothingAvailable(w) PROVE TypeInv'
    <2>1. TypeOK'
      BY <1>f, <1>13, RowFields DEF TypeOK, Steps, store, Goto, Die, Forget, Fault, NothingAvailable
    <2>2. LocalsOK'
      BY <1>13 DEF TypeOK, store, Goto, Die, Forget, NothingAvailable
    <2> QED
      BY <2>1, <2>2
  <1>14. ASSUME NEW w \in Workers, ExecuteGet(w) PROVE TypeInv'
    <2>1. TypeOK'
      BY <1>f, <1>14, RowFields DEF TypeOK, Steps, store, Goto, Die, Forget, Fault, ExecuteGet
    <2>2. LocalsOK'
      BY <1>14 DEF TypeOK, store, Goto, Die, Forget, ExecuteGet
    <2> QED
      BY <2>1, <2>2
  <1>15. ASSUME NEW w \in Workers, ClaimConflict(w) PROVE TypeInv'
    <2>1. TypeOK'
      BY <1>f, <1>15, RowFields DEF TypeOK, Steps, store, Goto, Die, Forget, Fault, ClaimConflict
    <2>2. LocalsOK'
      BY <1>15 DEF TypeOK, store, Goto, Die, Forget, ClaimConflict
    <2> QED
      BY <2>1, <2>2
  <1>16. ASSUME NEW w \in Workers, Act(w) PROVE TypeInv'
    <2>a. outcome' \in [Workers -> Outputs \cup Failures \cup {Nil}]
      BY <1>16 DEF TypeOK, Act, Failures
    <2>b. pc' \in [Workers -> Steps]
      BY <1>16 DEF TypeOK, Act, Goto, Steps
    <2>1. TypeOK'
      BY <1>16, <2>a, <2>b DEF TypeOK, store, Act
    <2>2. LocalsOK'
      BY <1>16 DEF TypeOK, store, Goto, Die, Forget, Act, Failures
    <2> QED
      BY <2>1, <2>2
  <1>17. ASSUME NEW w \in Workers, ActUnreportable(w) PROVE TypeInv'
    <2>1. TypeOK'
      BY <1>f, <1>17, RowFields DEF TypeOK, Steps, store, Goto, Die, Forget, Fault, ActUnreportable
    <2>2. LocalsOK'
      BY <1>17 DEF TypeOK, store, Goto, Die, Forget, ActUnreportable
    <2> QED
      BY <2>1, <2>2
  <1>18. ASSUME NEW w \in Workers, PutResult(w) PROVE TypeInv'
    <2>1. TypeOK'
      BY <1>f, <1>18, RowFields DEF TypeOK, Steps, store, Goto, Die, Forget, Fault, PutResult, Stored, PutAnswer, Failures
    <2>2. LocalsOK'
      BY <1>18 DEF TypeOK, store, Goto, Die, Forget, PutResult, Stored, PutAnswer, Failures
    <2> QED
      BY <2>1, <2>2
  <1>19. ASSUME NEW w \in Workers, PutError(w) PROVE TypeInv'
    <2>1. TypeOK'
      BY <1>f, <1>19, RowFields DEF TypeOK, Steps, store, Goto, Die, Forget, Fault, PutError, Stored, Failures
    <2>2. LocalsOK'
      BY <1>19 DEF TypeOK, store, Goto, Die, Forget, PutError, Stored, Failures
    <2> QED
      BY <2>1, <2>2
  <1>20. ASSUME NEW w \in Workers, CompleteConflict(w) PROVE TypeInv'
    <2>1. TypeOK'
      BY <1>f, <1>20, RowFields DEF TypeOK, Steps, store, Goto, Die, Forget, Fault, CompleteConflict
    <2>2. LocalsOK'
      BY <1>20 DEF TypeOK, store, Goto, Die, Forget, CompleteConflict
    <2> QED
      BY <2>1, <2>2
  <1>21. ASSUME NEW w \in Workers, AcknowledgeConflict(w) PROVE TypeInv'
    <2>1. TypeOK'
      BY <1>f, <1>21, RowFields DEF TypeOK, Steps, store, Goto, Die, Forget, Fault, AcknowledgeConflict
    <2>2. LocalsOK'
      BY <1>21 DEF TypeOK, store, Goto, Die, Forget, AcknowledgeConflict
    <2> QED
      BY <2>1, <2>2
  <1>22. ASSUME NEW w \in Workers, StoreError(w) PROVE TypeInv'
    <2>1. TypeOK'
      BY <1>f, <1>22, RowFields DEF TypeOK, Steps, store, Goto, Die, Forget, Fault, StoreError
    <2>2. LocalsOK'
      BY <1>22 DEF TypeOK, store, Goto, Die, Forget, StoreError
    <2> QED
      BY <2>1, <2>2
  <1>23. ASSUME NEW w \in Workers, Crash(w) PROVE TypeInv'
    <2>1. TypeOK'
      BY <1>f, <1>23, RowFields DEF TypeOK, Steps, store, Goto, Die, Forget, Fault, Crash
    <2>2. LocalsOK'
      BY <1>23 DEF TypeOK, store, Goto, Die, Forget, Crash
    <2> QED
      BY <2>1, <2>2
  <1>24. ASSUME NEW w \in Workers, Restart(w) PROVE TypeInv'
    <2>1. TypeOK'
      BY <1>f, <1>24, RowFields DEF TypeOK, Steps, store, Goto, Die, Forget, Fault, Restart
    <2>2. LocalsOK'
      BY <1>24 DEF TypeOK, store, Goto, Die, Forget, Restart
    <2> QED
      BY <2>1, <2>2
  <1>25. CASE UNCHANGED vars
    BY <1>25 DEF vars, TypeOK
  <1> QED
    BY <1>1, <1>2, <1>3, <1>4, <1>5, <1>6, <1>7, <1>8, <1>9, <1>10, <1>11, <1>12, <1>13, <1>14, <1>15, <1>16, <1>17, <1>18, <1>19, <1>20, <1>21, <1>22, <1>23, <1>24, <1>25 DEF Next, WorkerStep, FaultStep

\* Every variable keeps its type: the locals of workOnce are in scope where
\* they are used, and every row written satisfies the columns of its table.
THEOREM TypeCorrect == Spec => []TypeOK
  <1>1. TypeInv => TypeOK
    BY DEF TypeInv
  <1> QED
    BY <1>1, TypeInit, TypeStep, PTL DEF Spec

-----------------------------------------------------------------------------
(***************************************************************************)
(* What one step does to one job: nothing but the clock, or one of the     *)
(* four transitions, together with its audit fact and its dispatch row.    *)
(***************************************************************************)
Recorded(j, fact) == audit'[j] = audit[j] \cup {fact}

Offered(j, new) ==
    \A n \in Nat \ {0} :
        <<j, n>> \in DOMAIN dispatch' <=> <<j, n>> \in DOMAIN dispatch \/ n \in new

Rest(j) ==
    /\ job'[j].phase = job[j].phase
    /\ job'[j].revision = job[j].revision
    /\ job'[j].token = job[j].token
    /\ job'[j].expires <= job[j].expires
    /\ job'[j].result = job[j].result
    /\ job'[j].failure = job[j].failure
    /\ audit'[j] = audit[j]
    /\ Offered(j, {})

AdmitStep(j) ==
    /\ job[j].phase = "absent"
    /\ job'[j] = [NoJob EXCEPT !.phase = "queued", !.revision = 1]
    /\ Recorded(j, <<"admitted", 1>>)
    /\ Offered(j, {1})

StartStep(j, w) ==
    /\ pc[w] = "claiming" /\ target[w] = j
    /\ job[j].phase = "queued" /\ job[j].revision = seen[w]
    /\ job'[j] = Started(job[j], w)
    /\ Recorded(j, <<"started", job[j].revision>>)
    /\ Offered(j, {})

RequeueStep(j, w) ==
    /\ pc[w] = "recoverCommit" /\ target[w] = j
    /\ job[j].phase = "running" /\ job[j].revision = seen[w]
    /\ job'[j] = Requeued(job[j])
    /\ Recorded(j, <<"recovered", job[j].revision>>)
    /\ Offered(j, {job[j].revision + 1})

SettleStep(j, w) ==
    /\ pc[w] = "completing" /\ target[w] = j
    /\ Holds(w, job[j])
    /\ outcome[w] \in Outputs \cup Failures
    /\ job'[j] = Settled(job[j], outcome[w])
    /\ Recorded(j, <<job'[j].phase, job[j].revision + 1>>)
    /\ Offered(j, {})

JobStep(j) ==
    \/ Rest(j)
    \/ AdmitStep(j)
    \/ \E w \in Workers : StartStep(j, w) \/ RequeueStep(j, w) \/ SettleStep(j, w)

\* A step that leaves the jobs, their audit trail and the set of dispatches
\* alone is a rest for every job.
LEMMA QuietStep ==
  ASSUME TypeInv, UNCHANGED <<job, audit>>, DOMAIN dispatch' = DOMAIN dispatch
  PROVE  \A j \in Jobs : Rest(j)
  BY RowFields DEF TypeInv, TypeOK, Rest, Offered

LEMMA JobSteps ==
  ASSUME TypeInv, [Next]_vars
  PROVE  \A j \in Jobs : JobStep(j)
  <1>t. job \in [Jobs -> JobRow] /\ audit \in [Jobs -> SUBSET (Kinds \X Nat)]
    BY DEF TypeInv, TypeOK
  <1>q. UNCHANGED <<job, audit>> /\ DOMAIN dispatch' = DOMAIN dispatch
          => \A j \in Jobs : JobStep(j)
    BY QuietStep DEF JobStep
  <1>r. ASSUME NEW i \in Jobs, job'[i] = job[i], audit'[i] = audit[i],
               \A n \in Nat \ {0} :
                  <<i, n>> \in DOMAIN dispatch' <=> <<i, n>> \in DOMAIN dispatch
        PROVE  JobStep(i)
    BY <1>r, <1>t, RowFields DEF JobStep, Rest, Offered
  <1>1. ASSUME NEW j \in Jobs, Admit(j) PROVE \A i \in Jobs : JobStep(i)
    <2>1. DOMAIN dispatch' = DOMAIN dispatch \cup {<<j, 1>>}
      BY <1>1 DEF Admit, InsertDispatch
    <2>2. JobStep(j)
      BY <1>1, <1>t, <2>1 DEF Admit, InsertAudit, JobStep, AdmitStep, Recorded, Offered
    <2>3. ASSUME NEW i \in Jobs, i # j PROVE JobStep(i)
      BY <1>1, <1>t, <1>r, <2>1, <2>3 DEF Admit, InsertAudit
    <2> QED
      BY <2>2, <2>3
  <1>2. ASSUME NEW w \in Workers, RecoverCommit(w) PROVE \A i \in Jobs : JobStep(i)
    <2>0. target[w] \in Jobs
      BY <1>2 DEF TypeInv, LocalsOK, RecoverCommit
    <2>1. DOMAIN dispatch' = DOMAIN dispatch \cup {<<target[w], seen[w] + 1>>}
      BY <1>2 DEF RecoverCommit, InsertDispatch
    <2>2. RequeueStep(target[w], w)
      BY <1>2, <1>t, <2>0, <2>1
      DEF RecoverCommit, InsertAudit, RequeueStep, Recorded, Offered
    <2>3. ASSUME NEW i \in Jobs, i # target[w] PROVE JobStep(i)
      BY <1>2, <1>t, <1>r, <2>0, <2>1, <2>3 DEF RecoverCommit, InsertAudit
    <2> QED
      BY <2>2, <2>3 DEF JobStep
  <1>3. ASSUME NEW w \in Workers, ClaimJob(w) PROVE \A i \in Jobs : JobStep(i)
    <2>0. target[w] \in Jobs
      BY <1>3 DEF TypeInv, TypeOK, LocalsOK, Serving, ClaimJob
    <2>1. DOMAIN dispatch' = DOMAIN dispatch
      BY <1>3 DEF ClaimJob
    <2>2. StartStep(target[w], w)
      BY <1>3, <1>t, <2>0, <2>1
      DEF ClaimJob, InsertAudit, StartStep, Recorded, Offered
    <2>3. ASSUME NEW i \in Jobs, i # target[w] PROVE JobStep(i)
      BY <1>3, <1>t, <1>r, <2>0, <2>1, <2>3 DEF ClaimJob, InsertAudit
    <2> QED
      BY <2>2, <2>3 DEF JobStep
  <1>4. ASSUME NEW w \in Workers, Complete(w) PROVE \A i \in Jobs : JobStep(i)
    <2>0. target[w] \in Jobs /\ outcome[w] \in Outputs \cup Failures
      BY <1>4 DEF TypeInv, TypeOK, LocalsOK, Serving, Complete
    <2>1. DOMAIN dispatch' = DOMAIN dispatch
      BY <1>4 DEF Complete
    <2>2. SettleStep(target[w], w)
      <3>1. job'[target[w]] = Settled(job[target[w]], outcome[w])
        BY <1>4, <1>t, <2>0 DEF Complete
      <3>2. seen[w] = job[target[w]].revision
        BY <1>4 DEF Complete, Holds
      <3>3. audit'[target[w]] =
              audit[target[w]] \cup
                {<<Settled(job[target[w]], outcome[w]).phase, seen[w] + 1>>}
        BY <1>4, <1>t, <2>0 DEF Complete, InsertAudit
      <3> QED
        BY <1>4, <2>0, <2>1, <3>1, <3>2, <3>3 DEF Complete, SettleStep, Recorded, Offered
    <2>3. ASSUME NEW i \in Jobs, i # target[w] PROVE JobStep(i)
      BY <1>4, <1>t, <1>r, <2>0, <2>1, <2>3 DEF Complete, InsertAudit
    <2> QED
      BY <2>2, <2>3 DEF JobStep
  <1>5. ASSUME Tick PROVE \A i \in Jobs : JobStep(i)
    <2> TAKE i \in Jobs
    <2>1. job'[i] = [job[i] EXCEPT !.expires = CountDown(job[i].expires)]
      BY <1>5 DEF Tick
    <2>2. job[i] \in JobRow
      BY <1>t
    <2>3. CountDown(job[i].expires) <= job[i].expires
      BY <2>2, RowFields, CountDownType
    <2>4. /\ job'[i].phase = job[i].phase
          /\ job'[i].revision = job[i].revision
          /\ job'[i].token = job[i].token
          /\ job'[i].expires = CountDown(job[i].expires)
          /\ job'[i].result = job[i].result
          /\ job'[i].failure = job[i].failure
      BY <2>1, <2>2 DEF JobRow
    <2>5. DOMAIN dispatch' = DOMAIN dispatch /\ audit' = audit
      BY <1>5 DEF Tick
    <2> QED
      BY <2>3, <2>4, <2>5 DEF JobStep, Rest, Offered
  <1>6. ASSUME NEW w \in Workers, NEW d \in DOMAIN dispatch, ClaimDispatch(w, d)
        PROVE  \A i \in Jobs : JobStep(i)
    BY <1>6, <1>q DEF ClaimDispatch
  <1>7. ASSUME NEW w \in Workers, Acknowledge(w) PROVE \A i \in Jobs : JobStep(i)
    BY <1>7, <1>q DEF Acknowledge
  <1>8. ASSUME NEW w \in Workers, Release(w) PROVE \A i \in Jobs : JobStep(i)
    BY <1>8, <1>q DEF Release
  <1>9. ASSUME NEW w \in Workers, NEW j \in Jobs, RecoverGet(w, j)
        PROVE  \A i \in Jobs : JobStep(i)
    BY <1>9, <1>q DEF RecoverGet, store
  <1>10. ASSUME NEW w \in Workers,
                \/ ListExpired(w) \/ RecoverConflict(w) \/ RecoverDone(w)
                \/ NothingAvailable(w) \/ ExecuteGet(w) \/ ClaimConflict(w) \/ Act(w)
                \/ ActUnreportable(w) \/ CompleteConflict(w) \/ AcknowledgeConflict(w)
                \/ StoreError(w) \/ Crash(w) \/ Restart(w)
         PROVE  \A i \in Jobs : JobStep(i)
    BY <1>10, <1>q
    DEF ListExpired, RecoverConflict, RecoverDone, NothingAvailable, ExecuteGet,
        ClaimConflict, Act, ActUnreportable, CompleteConflict, AcknowledgeConflict,
        StoreError, Crash, Restart, store
  <1>11. ASSUME NEW w \in Workers, PutResult(w) \/ PutError(w)
         PROVE  \A i \in Jobs : JobStep(i)
    BY <1>11, <1>q DEF PutResult, PutError
  <1>12. CASE UNCHANGED vars
    BY <1>12, <1>q DEF vars
  <1> QED
    BY <1>1, <1>2, <1>3, <1>4, <1>5, <1>6, <1>7, <1>8, <1>9, <1>10, <1>11, <1>12
    DEF Next, WorkerStep, FaultStep

-----------------------------------------------------------------------------
(***************************************************************************)
(* The history of one job: phase and revision go together, so the revision *)
(* alone says which offers and attempts there have been.                   *)
(***************************************************************************)
Shape(row) ==
    /\ row.phase = "absent"  => row.revision = 0
    /\ row.phase = "queued"  => row.revision % 2 = 1
    /\ row.phase = "running" => row.revision % 2 = 0 /\ row.revision > 0
    /\ row.phase \in Terminal => row.revision % 2 = 1 /\ row.revision > 1

LEMMA BeforeOneMore ==
  \A k, S, n : Before(k, S \cup {n}) = Before(k, S) \cup {<<k, n - 1>>}
  BY DEF Before

LEMMA StartedHistory ==
  ASSUME NEW row \in JobRow, Shape(row), row.phase = "queued", NEW w \in Workers
  PROVE  /\ Shape(Started(row, w))
         /\ Offers(Started(row, w)) = Offers(row)
         /\ Attempts(Started(row, w)) = Attempts(row) \cup {row.revision + 1}
         /\ Ledger(Started(row, w)) = Ledger(row) \cup {<<"started", row.revision>>}
  <1> DEFINE new == Started(row, w)
  <1>1. row.revision \in Nat /\ row.revision % 2 = 1
    BY RowFields DEF Shape
  <1>2. new.phase = "running" /\ new.revision = row.revision + 1
    BY StartedRow
  <1>3. Shape(new)
    BY <1>1, <1>2 DEF Shape, Terminal
  <1>4. Offers(new) = Offers(row)
    BY <1>1, <1>2 DEF Offers, Terminal
  <1>5. Attempts(new) = Attempts(row) \cup {row.revision + 1}
    BY <1>1, <1>2 DEF Attempts
  <1>6. Before("started", Attempts(new)) =
            Before("started", Attempts(row)) \cup {<<"started", row.revision>>}
    <2>1. (row.revision + 1) - 1 = row.revision
      BY <1>1
    <2> QED
      BY <1>5, <2>1, BeforeOneMore
  <1>7. Terminal \cap {new.phase} = {} /\ Terminal \cap {row.phase} = {}
    BY <1>2 DEF Terminal
  <1>8. Ledger(new) = Ledger(row) \cup {<<"started", row.revision>>}
    BY <1>4, <1>6, <1>7 DEF Ledger
  <1> QED
    BY <1>3, <1>4, <1>5, <1>8

LEMMA RequeuedHistory ==
  ASSUME NEW row \in JobRow, Shape(row), row.phase = "running"
  PROVE  /\ Shape(Requeued(row))
         /\ Offers(Requeued(row)) = Offers(row) \cup {row.revision + 1}
         /\ Ledger(Requeued(row)) = Ledger(row) \cup {<<"recovered", row.revision>>}
  <1> DEFINE new == Requeued(row)
  <1>1. row.revision \in Nat /\ row.revision % 2 = 0 /\ row.revision > 0
    BY RowFields DEF Shape
  <1>2. new.phase = "queued" /\ new.revision = row.revision + 1
    BY RequeuedRow
  <1>3. Shape(new)
    BY <1>1, <1>2 DEF Shape, Terminal
  <1>4. Offers(new) = Offers(row) \cup {row.revision + 1}
    BY <1>1, <1>2 DEF Offers, Terminal
  <1>5. Attempts(new) = Attempts(row)
    BY <1>1, <1>2 DEF Attempts
  <1>6. Before("recovered", Offers(new) \ {1}) =
            Before("recovered", Offers(row) \ {1}) \cup {<<"recovered", row.revision>>}
    <2>1. (row.revision + 1) - 1 = row.revision
      BY <1>1
    <2>2. Offers(new) \ {1} = (Offers(row) \ {1}) \cup {row.revision + 1}
      BY <1>1, <1>4
    <2> QED
      BY <2>1, <2>2, BeforeOneMore
  <1>7. Offers(new) \cap {1} = Offers(row) \cap {1}
    BY <1>1, <1>4
  <1>8. Terminal \cap {new.phase} = {} /\ Terminal \cap {row.phase} = {}
    BY <1>2 DEF Terminal
  <1>9. Ledger(new) = Ledger(row) \cup {<<"recovered", row.revision>>}
    BY <1>5, <1>6, <1>7, <1>8 DEF Ledger
  <1> QED
    BY <1>3, <1>4, <1>9

LEMMA SettledHistory ==
  ASSUME NEW row \in JobRow, Shape(row), row.phase = "running",
         NEW o \in Outputs \cup Failures
  PROVE  /\ Shape(Settled(row, o))
         /\ Settled(row, o).phase \in Terminal
         /\ Offers(Settled(row, o)) = Offers(row)
         /\ Ledger(Settled(row, o)) =
              Ledger(row) \cup {<<Settled(row, o).phase, row.revision + 1>>}
  <1> DEFINE new == Settled(row, o)
  <1>1. row.revision \in Nat /\ row.revision % 2 = 0 /\ row.revision > 0
    BY RowFields DEF Shape
  <1>2. new.phase \in Terminal /\ new.revision = row.revision + 1
    BY SettledRow DEF Terminal
  <1>3. Shape(new)
    BY <1>1, <1>2 DEF Shape, Terminal
  <1>4. Offers(new) = Offers(row)
    BY <1>1, <1>2 DEF Offers, Terminal
  <1>5. Attempts(new) = Attempts(row)
    BY <1>1, <1>2 DEF Attempts
  <1>6. Terminal \cap {new.phase} = {new.phase} /\ Terminal \cap {row.phase} = {}
    BY <1>2 DEF Terminal
  <1>7. {<<p, new.revision>> : p \in Terminal \cap {new.phase}}
            = {<<new.phase, row.revision + 1>>}
    BY <1>2, <1>6
  <1>8. Ledger(new) = Ledger(row) \cup {<<new.phase, row.revision + 1>>}
    BY <1>4, <1>5, <1>6, <1>7 DEF Ledger
  <1> QED
    BY <1>2, <1>3, <1>4, <1>8

\* The clock does not change the history.
LEMMA SameHistory ==
  ASSUME NEW row, NEW new, new.phase = row.phase, new.revision = row.revision
  PROVE  /\ Shape(row) => Shape(new)
         /\ Offers(new) = Offers(row)
         /\ Ledger(new) = Ledger(row)
  BY DEF Shape, Offers, Attempts, Ledger

HistoryInv ==
    \A j \in Jobs :
        /\ Shape(job[j])
        /\ audit[j] = Ledger(job[j])
        /\ \A n \in Nat \ {0} : <<j, n>> \in DOMAIN dispatch <=> n \in Offers(job[j])

LEMMA HistoryInit == Init => HistoryInv
  <1> SUFFICES ASSUME Init, NEW j \in Jobs
               PROVE  /\ Shape(job[j])
                      /\ audit[j] = Ledger(job[j])
                      /\ \A n \in Nat \ {0} :
                            <<j, n>> \in DOMAIN dispatch <=> n \in Offers(job[j])
    BY DEF HistoryInv
  <1>1. job[j].phase = "absent" /\ job[j].revision = 0
    BY DEF Init, NoJob
  <1>2. Offers(job[j]) = {} /\ Attempts(job[j]) = {} /\ Terminal \cap {job[j].phase} = {}
    BY <1>1 DEF Offers, Attempts, Terminal
  <1>3. Ledger(job[j]) = {}
    BY <1>2 DEF Ledger, Before
  <1>4. audit[j] = {} /\ DOMAIN dispatch = {}
    BY DEF Init
  <1>5. Shape(job[j])
    BY <1>1 DEF Shape, Terminal
  <1> QED
    BY <1>2, <1>3, <1>4, <1>5

LEMMA HistoryStep == TypeInv /\ HistoryInv /\ [Next]_vars => HistoryInv'
  <1> SUFFICES ASSUME TypeInv, HistoryInv, [Next]_vars, NEW j \in Jobs
               PROVE  /\ Shape(job'[j])
                      /\ audit'[j] = Ledger(job'[j])
                      /\ \A n \in Nat \ {0} :
                            <<j, n>> \in DOMAIN dispatch' <=> n \in Offers(job'[j])
    BY DEF HistoryInv
  <1>1. JobStep(j)
    BY JobSteps
  <1>2. job[j] \in JobRow
    BY DEF TypeInv, TypeOK
  <1>3. /\ Shape(job[j])
        /\ audit[j] = Ledger(job[j])
        /\ \A n \in Nat \ {0} : <<j, n>> \in DOMAIN dispatch <=> n \in Offers(job[j])
    BY DEF HistoryInv
  <1>4. CASE Rest(j)
    <2>1. /\ Shape(job'[j])
          /\ Offers(job'[j]) = Offers(job[j])
          /\ Ledger(job'[j]) = Ledger(job[j])
      BY <1>3, <1>4, SameHistory DEF Rest
    <2> QED
      BY <1>3, <1>4, <2>1 DEF Rest, Offered
  <1>5. CASE AdmitStep(j)
    <2>1. job[j].revision = 0
      BY <1>3, <1>5 DEF AdmitStep, Shape
    <2>2. Offers(job[j]) = {} /\ Attempts(job[j]) = {} /\ Terminal \cap {job[j].phase} = {}
      BY <1>5, <2>1 DEF AdmitStep, Offers, Attempts, Terminal
    <2>3. Ledger(job[j]) = {}
      BY <2>2 DEF Ledger, Before
    <2>4. job'[j].phase = "queued" /\ job'[j].revision = 1
      BY <1>5 DEF AdmitStep, NoJob
    <2>5. Offers(job'[j]) = {1} /\ Attempts(job'[j]) = {} /\ Terminal \cap {job'[j].phase} = {}
      BY <2>4 DEF Offers, Attempts, Terminal
    <2>6. Ledger(job'[j]) = {<<"admitted", 1>>}
      BY <2>5 DEF Ledger, Before
    <2>7. Shape(job'[j])
      BY <2>4 DEF Shape, Terminal
    <2> QED
      BY <1>3, <1>5, <2>2, <2>3, <2>5, <2>6, <2>7 DEF AdmitStep, Recorded, Offered
  <1>6. ASSUME NEW w \in Workers, StartStep(j, w)
        PROVE  /\ Shape(job'[j])
               /\ audit'[j] = Ledger(job'[j])
               /\ \A n \in Nat \ {0} :
                     <<j, n>> \in DOMAIN dispatch' <=> n \in Offers(job'[j])
    <2>1. /\ Shape(job'[j])
          /\ Offers(job'[j]) = Offers(job[j])
          /\ Ledger(job'[j]) = Ledger(job[j]) \cup {<<"started", job[j].revision>>}
      BY <1>2, <1>3, <1>6, StartedHistory DEF StartStep
    <2> QED
      BY <1>3, <1>6, <2>1 DEF StartStep, Recorded, Offered
  <1>7. ASSUME NEW w \in Workers, RequeueStep(j, w)
        PROVE  /\ Shape(job'[j])
               /\ audit'[j] = Ledger(job'[j])
               /\ \A n \in Nat \ {0} :
                     <<j, n>> \in DOMAIN dispatch' <=> n \in Offers(job'[j])
    <2>1. /\ Shape(job'[j])
          /\ Offers(job'[j]) = Offers(job[j]) \cup {job[j].revision + 1}
          /\ Ledger(job'[j]) = Ledger(job[j]) \cup {<<"recovered", job[j].revision>>}
      BY <1>2, <1>3, <1>7, RequeuedHistory DEF RequeueStep
    <2> QED
      BY <1>3, <1>7, <2>1 DEF RequeueStep, Recorded, Offered
  <1>8. ASSUME NEW w \in Workers, SettleStep(j, w)
        PROVE  /\ Shape(job'[j])
               /\ audit'[j] = Ledger(job'[j])
               /\ \A n \in Nat \ {0} :
                     <<j, n>> \in DOMAIN dispatch' <=> n \in Offers(job'[j])
    <2>1. /\ Shape(job'[j])
          /\ Offers(job'[j]) = Offers(job[j])
          /\ Ledger(job'[j]) = Ledger(job[j]) \cup {<<job'[j].phase, job[j].revision + 1>>}
      BY <1>2, <1>3, <1>8, SettledHistory DEF SettleStep, Holds
    <2> QED
      BY <1>3, <1>8, <2>1 DEF SettleStep, Recorded, Offered
  <1> QED
    BY <1>1, <1>4, <1>5, <1>6, <1>7, <1>8 DEF JobStep

\* The audit trail of every job is the ledger of its history.
THEOREM AuditLedgerHolds == Spec => []AuditLedger
  <1>1. HistoryInv => AuditLedger
    BY DEF HistoryInv, AuditLedger
  <1> QED
    BY <1>1, TypeInit, TypeStep, HistoryInit, HistoryStep, PTL DEF Spec

-----------------------------------------------------------------------------
(***************************************************************************)
(* What a worker knows.  Between two store calls its revision of the job   *)
(* may become old, and then it is old for good.                            *)
(***************************************************************************)
Knows(w) ==
    LET row == job[target[w]] IN
    /\ pc[w] = "recoverCommit" =>
          /\ seen[w] <= row.revision
          /\ seen[w] = row.revision => row.phase = "running" /\ row.expires <= Skew[w]
    /\ pc[w] = "claiming" =>
          /\ seen[w] <= row.revision
          /\ seen[w] = row.revision => row.phase = "queued"
    /\ Working(w) => seen[w] < row.revision \/ Holds(w, row)
    /\ pc[w] = "acking" => row.phase \in Terminal

KnowsInv == \A w \in Workers : Knows(w)

\* No two workers run the same attempt.
ApartInv ==
    \A v, w \in Workers :
        v # w /\ Working(v) /\ Working(w) /\ target[v] = target[w] => seen[v] # seen[w]

ClosedInv ==
    \A d \in DOMAIN dispatch : dispatch[d].completed => job[d[1]].phase \in Terminal

FenceInv == KnowsInv /\ ApartInv /\ ClosedInv

\* A revision stands for one phase, holder and lease: it does not come back,
\* and a verdict is final.
LEMMA RevisionStep ==
  ASSUME TypeInv, HistoryInv, [Next]_vars, NEW j \in Jobs
  PROVE  /\ job[j].revision \in Nat /\ job'[j].revision \in Nat
         /\ job[j].revision <= job'[j].revision
         /\ job'[j].revision = job[j].revision =>
               /\ job'[j].phase = job[j].phase
               /\ job'[j].token = job[j].token
               /\ job'[j].expires <= job[j].expires
         /\ job[j].phase \in Terminal =>
               job'[j].phase = job[j].phase /\ job'[j].revision = job[j].revision
  <1>1. JobStep(j)
    BY JobSteps
  <1>2. job[j] \in JobRow /\ job[j].revision \in Nat
    BY RowFields DEF TypeInv, TypeOK
  <1>3. Shape(job[j])
    BY DEF HistoryInv
  <1>4. CASE Rest(j)
    BY <1>2, <1>4 DEF Rest
  <1>5. CASE AdmitStep(j)
    <2>1. job'[j].revision = 1 /\ job[j].revision = 0
      BY <1>3, <1>5 DEF AdmitStep, NoJob, Shape
    <2> QED
      BY <1>5, <2>1 DEF AdmitStep, Terminal
  <1>6. ASSUME NEW w \in Workers, StartStep(j, w) \/ RequeueStep(j, w) \/ SettleStep(j, w)
        PROVE  job'[j].revision = job[j].revision + 1 /\ job[j].phase \notin Terminal
    <2>1. CASE StartStep(j, w)
      <3>1. Started(job[j], w).revision = job[j].revision + 1
        BY <1>2, StartedRow
      <3> QED
        BY <2>1, <3>1 DEF StartStep, Terminal
    <2>2. CASE RequeueStep(j, w)
      BY <1>2, <2>2, RequeuedRow DEF RequeueStep, Terminal
    <2>3. CASE SettleStep(j, w)
      BY <1>2, <2>3, SettledRow DEF SettleStep, Holds, Terminal
    <2> QED
      BY <1>6, <2>1, <2>2, <2>3
  <1> QED
    BY <1>1, <1>2, <1>4, <1>5, <1>6 DEF JobStep

\* What a worker knows survives every step that leaves its locals alone.
LEMMA KnowsStable ==
  ASSUME TypeInv, HistoryInv, [Next]_vars, NEW w \in Workers, Knows(w),
         pc'[w] = pc[w], target'[w] = target[w], seen'[w] = seen[w]
  PROVE  Knows(w)'
  <1> DEFINE j == target[w]
  <1>1. ASSUME pc[w] = "recoverCommit" \/ pc[w] \in Serving PROVE j \in Jobs
    BY <1>1 DEF TypeInv, TypeOK, LocalsOK
  <1>2. seen[w] \in Nat /\ Skew[w] \in Nat
    BY ClockAssumption DEF TypeInv, TypeOK
  <1>3. CASE pc[w] = "recoverCommit"
    <2>1. /\ job[j].revision \in Nat /\ job'[j].revision \in Nat
          /\ job[j].revision <= job'[j].revision
          /\ job'[j].revision = job[j].revision =>
                job'[j].phase = job[j].phase /\ job'[j].expires <= job[j].expires
      BY <1>1, <1>3, RevisionStep
    <2>2. /\ seen[w] <= job[j].revision
          /\ seen[w] = job[j].revision =>
                job[j].phase = "running" /\ job[j].expires <= Skew[w]
      BY <1>3 DEF Knows
    <2>3. job[j].expires \in Nat /\ job'[j].expires \in Nat
      BY <1>1, <1>3, TypeStep, RowFields DEF TypeInv, TypeOK
    <2> QED
      BY <1>2, <1>3, <2>1, <2>2, <2>3 DEF Knows, Working
  <1>4. CASE pc[w] = "claiming"
    <2>1. /\ job[j].revision \in Nat /\ job'[j].revision \in Nat
          /\ job[j].revision <= job'[j].revision
          /\ job'[j].revision = job[j].revision => job'[j].phase = job[j].phase
      BY <1>1, <1>4, RevisionStep DEF Serving
    <2> QED
      BY <1>2, <1>4, <2>1 DEF Knows, Working
  <1>5. CASE Working(w)
    <2>1. pc[w] \in Serving
      BY <1>5 DEF Working, Serving
    <2>2. /\ job[j].revision \in Nat /\ job'[j].revision \in Nat
          /\ job[j].revision <= job'[j].revision
          /\ job'[j].revision = job[j].revision =>
                job'[j].phase = job[j].phase /\ job'[j].token = job[j].token
      BY <1>1, <2>1, RevisionStep
    <2>3. seen[w] < job[j].revision \/ Holds(w, job[j])
      BY <1>5 DEF Knows
    <2>4. seen[w] < job'[j].revision \/ Holds(w, job[j])'
      BY <1>2, <2>2, <2>3 DEF Holds
    <2> QED
      BY <1>5, <2>4 DEF Knows, Working
  <1>6. CASE pc[w] = "acking"
    BY <1>1, <1>6, RevisionStep DEF Knows, Working, Serving
  <1>7. CASE /\ pc[w] \notin {"recoverCommit", "claiming", "acking"}
             /\ ~Working(w)
    BY <1>7 DEF Knows, Working
  <1> QED
    BY <1>3, <1>4, <1>5, <1>6, <1>7

\* A worker's step moves its own locals only.
Mine(w) ==
    \A v \in Workers \ {w} :
        pc'[v] = pc[v] /\ target'[v] = target[v] /\ seen'[v] = seen[v]

LEMMA OwnLocals ==
  ASSUME TypeInv, NEW w \in Workers, WorkerStep(w) \/ FaultStep(w)
  PROVE  Mine(w)
  <1>t. /\ pc \in [Workers -> Steps] /\ target \in [Workers -> Jobs \cup {Nil}]
        /\ seen \in [Workers -> Nat]
    BY DEF TypeInv, TypeOK
  <1> USE DEF Mine, Goto
  <1>1. ASSUME NEW j \in Jobs, RecoverGet(w, j) PROVE Mine(w)
    BY <1>1, <1>t DEF RecoverGet, Die, Forget
  <1>2. ASSUME NEW d \in DOMAIN dispatch, ClaimDispatch(w, d) PROVE Mine(w)
    BY <1>2, <1>t DEF ClaimDispatch
  <1>3. CASE \/ ListExpired(w) \/ RecoverCommit(w) \/ RecoverConflict(w)
             \/ RecoverDone(w) \/ NothingAvailable(w)
    BY <1>3, <1>t DEF ListExpired, RecoverCommit, RecoverConflict, RecoverDone,
                      NothingAvailable, Die, Forget
  <1>4. CASE ExecuteGet(w) \/ ClaimJob(w) \/ ClaimConflict(w) \/ Act(w)
    BY <1>4, <1>t DEF ExecuteGet, ClaimJob, ClaimConflict, Act, Reply
  <1>5. CASE PutResult(w) \/ Complete(w) \/ CompleteConflict(w)
    BY <1>5, <1>t DEF PutResult, Complete, CompleteConflict, Reply
  <1>6. CASE Acknowledge(w) \/ AcknowledgeConflict(w) \/ Release(w) \/ Restart(w)
    BY <1>6, <1>t DEF Acknowledge, AcknowledgeConflict, Release, Restart, Forget
  <1>7. CASE FaultStep(w)
    BY <1>7, <1>t DEF FaultStep, ActUnreportable, PutError, StoreError, Crash, Die, Forget
  <1> QED
    BY <1>1, <1>2, <1>3, <1>4, <1>5, <1>6, <1>7 DEF WorkerStep

\* A worker learns what it needs to know at the step that makes it need it.
LEMMA KnowsOwn ==
  ASSUME TypeInv, HistoryInv, NEW w \in Workers, Knows(w),
         WorkerStep(w) \/ FaultStep(w)
  PROVE  Knows(w)'
  <1>t. /\ pc \in [Workers -> Steps] /\ target \in [Workers -> Jobs \cup {Nil}]
        /\ seen \in [Workers -> Nat] /\ job \in [Jobs -> JobRow]
        /\ todo[w] \subseteq Jobs
    BY DEF TypeInv, TypeOK
  <1>l. pc[w] \in Serving => target[w] \in Jobs
    BY DEF TypeInv, TypeOK, LocalsOK
  <1> DEFINE Needy == {"recoverCommit", "claiming", "acting", "putting", "completing",
                       "acking"}
  <1>0. pc'[w] \notin Needy => Knows(w)'
    BY DEF Knows, Working
  <1> USE DEF Goto
  <1>1. ASSUME NEW j \in Jobs, RecoverGet(w, j) PROVE Knows(w)'
    <2>1. CASE job[j].phase # "running"
      BY <1>0, <1>1, <1>t, <2>1 DEF RecoverGet
    <2>2. CASE job[j].phase = "running" /\ Recoverable(w, j)
      <3>1. /\ pc'[w] = "recoverCommit" /\ target'[w] = j /\ seen'[w] = job[j].revision
            /\ job' = job
        BY <1>1, <1>t, <2>2 DEF RecoverGet, store
      <3>2. job[j].expires <= Skew[w]
        BY <2>2 DEF Recoverable, Lapsed
      <3>3. job[j].revision \in Nat
        BY <1>t, RowFields
      <3> QED
        BY <2>2, <3>1, <3>2, <3>3 DEF Knows, Working
    <2>3. CASE job[j].phase = "running" /\ ~Recoverable(w, j)
      BY <1>0, <1>1, <1>t, <2>3 DEF RecoverGet, Die
    <2> QED
      BY <2>1, <2>2, <2>3
  <1>2. ASSUME NEW d \in DOMAIN dispatch, ClaimDispatch(w, d) PROVE Knows(w)'
    BY <1>0, <1>2, <1>t DEF ClaimDispatch
  <1>3. CASE \/ ListExpired(w) \/ RecoverCommit(w) \/ RecoverConflict(w)
             \/ RecoverDone(w) \/ NothingAvailable(w)
    BY <1>0, <1>3, <1>t DEF ListExpired, RecoverCommit, RecoverConflict, RecoverDone,
                            NothingAvailable, Die
  <1>4. CASE ExecuteGet(w)
    <2>1. job' = job /\ target' = target /\ target[w] \in Jobs
      BY <1>4, <1>l DEF ExecuteGet, store, Serving
    <2>2. job[target[w]].revision \in Nat
      BY <1>t, <2>1, RowFields
    <2>3. \/ pc'[w] = "acking" /\ job[target[w]].phase \in Terminal
          \/ pc'[w] = "deferring"
          \/ /\ pc'[w] = "claiming" /\ job[target[w]].phase = "queued"
             /\ seen'[w] = job[target[w]].revision
      BY <1>4, <1>t DEF ExecuteGet
    <2> QED
      BY <1>0, <2>1, <2>2, <2>3 DEF Knows, Working
  <1>5. CASE ClaimJob(w)
    <2>1. target' = target /\ target[w] \in Jobs /\ job[target[w]].revision = seen[w]
      BY <1>5, <1>l DEF ClaimJob, Serving
    <2>2. job'[target[w]] = Started(job[target[w]], w)
      BY <1>5, <1>t, <2>1 DEF ClaimJob
    <2>3. /\ job'[target[w]].phase = "running"
          /\ job'[target[w]].revision = seen[w] + 1
          /\ job'[target[w]].token = [owner |-> w, revision |-> seen[w] + 1]
      BY <1>t, <2>1, <2>2, StartedRow
    <2>4. seen'[w] = seen[w] + 1 /\ pc'[w] \in {"acting", "deferring"}
      BY <1>5, <1>t DEF ClaimJob, Reply
    <2> QED
      BY <1>0, <2>1, <2>3, <2>4 DEF Knows, Working, Holds
  <1>6. CASE Act(w) \/ ActUnreportable(w) \/ PutResult(w) \/ PutError(w)
    <2>1. job' = job /\ target' = target /\ seen' = seen /\ Working(w)
      BY <1>6 DEF Act, ActUnreportable, PutResult, PutError, store, Working
    <2>2. pc'[w] \in {"putting", "completing", "deferring"}
      BY <1>6, <1>t DEF Act, ActUnreportable, PutResult, PutError
    <2> QED
      BY <1>0, <2>1, <2>2 DEF Knows, Working, Holds
  <1>7. CASE Complete(w)
    <2>1. target' = target /\ target[w] \in Jobs /\ Holds(w, job[target[w]])
          /\ outcome[w] \in Outputs \cup Failures
      BY <1>7, <1>l DEF Complete, Serving, TypeInv, LocalsOK
    <2>2. job'[target[w]] = Settled(job[target[w]], outcome[w])
      BY <1>7, <1>t, <2>1 DEF Complete
    <2>3. job'[target[w]].phase \in Terminal
      BY <1>t, <2>1, <2>2, SettledRow DEF Terminal
    <2>4. pc'[w] \in {"acking", "deferring"}
      BY <1>7, <1>t DEF Complete, Reply
    <2> QED
      BY <1>0, <2>1, <2>3, <2>4 DEF Knows, Working
  <1>8. CASE ClaimConflict(w) \/ CompleteConflict(w) \/ AcknowledgeConflict(w)
             \/ Release(w) \/ Restart(w) \/ StoreError(w) \/ Crash(w)
    BY <1>0, <1>8, <1>t DEF ClaimConflict, CompleteConflict, AcknowledgeConflict,
                            Release, Restart, StoreError, Crash, Die
  <1>9. CASE Acknowledge(w)
    BY <1>0, <1>9, <1>t DEF Acknowledge
  <1> QED
    BY <1>1, <1>2, <1>3, <1>4, <1>5, <1>6, <1>7, <1>8, <1>9 DEF WorkerStep, FaultStep

LEMMA KnowsStep == TypeInv /\ HistoryInv /\ KnowsInv /\ [Next]_vars => KnowsInv'
  <1> SUFFICES ASSUME TypeInv, HistoryInv, KnowsInv, [Next]_vars, NEW v \in Workers
               PROVE  Knows(v)'
    BY DEF KnowsInv
  <1>0. Knows(v)
    BY DEF KnowsInv
  <1>1. CASE pc' = pc /\ target' = target /\ seen' = seen
    BY <1>0, <1>1, KnowsStable
  <1>2. ASSUME NEW w \in Workers, WorkerStep(w) \/ FaultStep(w) PROVE Knows(v)'
    <2>1. CASE v = w
      BY <1>0, <1>2, <2>1, KnowsOwn
    <2>2. CASE v # w
      <3>1. pc'[v] = pc[v] /\ target'[v] = target[v] /\ seen'[v] = seen[v]
        BY <1>2, <2>2, OwnLocals DEF Mine
      <3> QED
        BY <1>0, <3>1, KnowsStable
    <2> QED
      BY <2>1, <2>2
  <1>3. CASE \E j \in Jobs : Admit(j)
    BY <1>1, <1>3 DEF Admit, local
  <1>4. CASE Tick
    BY <1>1, <1>4 DEF Tick, local
  <1>5. CASE UNCHANGED vars
    BY <1>1, <1>5 DEF vars
  <1> QED
    BY <1>2, <1>3, <1>4, <1>5 DEF Next

\* A worker is working after a step only if it was before, on the same
\* attempt, or has just claimed a job.
LEMMA WorkStep ==
  ASSUME TypeInv, [Next]_vars, NEW v \in Workers, Working(v)'
  PROVE  \/ Working(v) /\ target'[v] = target[v] /\ seen'[v] = seen[v]
         \/ ClaimJob(v)
  <1>t. pc \in [Workers -> Steps]
    BY DEF TypeInv, TypeOK
  <1>1. CASE pc' = pc /\ target' = target /\ seen' = seen
    BY <1>1 DEF Working
  <1>2. ASSUME NEW w \in Workers, WorkerStep(w) \/ FaultStep(w), v # w
        PROVE  Working(v) /\ target'[v] = target[v] /\ seen'[v] = seen[v]
    BY <1>2, OwnLocals DEF Mine, Working
  <1>3. CASE WorkerStep(v) \/ FaultStep(v)
    <2> USE DEF Goto, Working
    <2>1. ASSUME NEW j \in Jobs, RecoverGet(v, j) PROVE FALSE
      BY <2>1, <1>t DEF RecoverGet, Die
    <2>2. ASSUME NEW d \in DOMAIN dispatch, ClaimDispatch(v, d) PROVE FALSE
      BY <2>2, <1>t DEF ClaimDispatch
    <2>3. CASE \/ ListExpired(v) \/ RecoverCommit(v) \/ RecoverConflict(v)
               \/ RecoverDone(v) \/ NothingAvailable(v) \/ ExecuteGet(v)
      BY <2>3, <1>t DEF ListExpired, RecoverCommit, RecoverConflict, RecoverDone,
                        NothingAvailable, ExecuteGet, Die
    <2>4. CASE Act(v) \/ ActUnreportable(v) \/ PutResult(v) \/ PutError(v)
      BY <2>4 DEF Act, ActUnreportable, PutResult, PutError
    <2>5. CASE \/ ClaimConflict(v) \/ CompleteConflict(v) \/ AcknowledgeConflict(v)
               \/ Release(v) \/ Restart(v) \/ StoreError(v) \/ Crash(v)
      BY <2>5, <1>t DEF ClaimConflict, CompleteConflict, AcknowledgeConflict, Release,
                        Restart, StoreError, Crash, Die
    <2>6. CASE Complete(v) \/ Acknowledge(v)
      BY <2>6, <1>t DEF Complete, Acknowledge, Reply
    <2> QED
      BY <1>3, <2>1, <2>2, <2>3, <2>4, <2>5, <2>6 DEF WorkerStep, FaultStep
  <1>4. CASE \E j \in Jobs : Admit(j)
    BY <1>1, <1>4 DEF Admit, local
  <1>5. CASE Tick
    BY <1>1, <1>5 DEF Tick, local
  <1>6. CASE UNCHANGED vars
    BY <1>1, <1>6 DEF vars
  <1> QED
    BY <1>2, <1>3, <1>4, <1>5, <1>6 DEF Next

LEMMA ApartStep ==
  TypeInv /\ HistoryInv /\ KnowsInv /\ ApartInv /\ [Next]_vars => ApartInv'
  <1> SUFFICES ASSUME TypeInv, HistoryInv, KnowsInv, ApartInv, [Next]_vars,
                      NEW v \in Workers, NEW w \in Workers, v # w,
                      Working(v)', Working(w)', target'[v] = target'[w]
               PROVE  seen'[v] # seen'[w]
    BY DEF ApartInv, Working
  <1>1. ASSUME NEW x \in Workers, NEW y \in Workers, x # y, ClaimJob(x),
               Working(y)', target'[x] = target'[y]
        PROVE  seen'[y] < seen'[x]
    <2>1. Mine(x)
      BY <1>1, OwnLocals DEF WorkerStep
    <2>2. Working(y) /\ target'[y] = target[y] /\ seen'[y] = seen[y]
      BY <1>1, <2>1 DEF Mine, Working
    <2>3. target' = target /\ seen'[x] = seen[x] + 1 /\ seen[x] \in Nat /\ seen[y] \in Nat
      BY <1>1 DEF ClaimJob, TypeInv, TypeOK
    <2>4. job[target[x]].phase = "queued" /\ job[target[x]].revision = seen[x]
      BY <1>1 DEF ClaimJob
    <2>5. seen[y] < job[target[y]].revision \/ Holds(y, job[target[y]])
      BY <2>2 DEF KnowsInv, Knows
    <2>6. seen[y] < seen[x]
      BY <1>1, <2>3, <2>4, <2>5 DEF Holds
    <2> QED
      BY <2>2, <2>3, <2>6
  <1>2. seen'[v] \in Nat /\ seen'[w] \in Nat
    BY TypeStep DEF TypeInv, TypeOK
  <1>3. CASE ClaimJob(v)
    BY <1>1, <1>2, <1>3
  <1>4. CASE ClaimJob(w)
    BY <1>1, <1>2, <1>4
  <1>5. CASE ~ClaimJob(v) /\ ~ClaimJob(w)
    BY <1>5, WorkStep DEF ApartInv
  <1> QED
    BY <1>3, <1>4, <1>5

\* Rows of the outbox: what a step does to the row of one dispatch.
LEMMA ClosedStep ==
  TypeInv /\ HistoryInv /\ KnowsInv /\ ClosedInv /\ [Next]_vars => ClosedInv'
  <1> SUFFICES ASSUME TypeInv, HistoryInv, KnowsInv, ClosedInv, [Next]_vars,
                      NEW d \in DOMAIN dispatch', dispatch'[d].completed
               PROVE  job'[d[1]].phase \in Terminal
    BY DEF ClosedInv
  <1>t. dispatch \in [DOMAIN dispatch -> DispatchRow]
    BY DEF TypeInv, TypeOK
  <1>1. d \in DOMAIN dispatch /\ dispatch[d].completed
            => job'[d[1]].phase \in Terminal
    BY RevisionStep DEF ClosedInv, TypeInv, TypeOK
  <1>2. dispatch' = dispatch => job'[d[1]].phase \in Terminal
    BY <1>1
  <1>3. ASSUME NEW j \in Jobs, Admit(j) PROVE job'[d[1]].phase \in Terminal
    BY <1>1, <1>3 DEF Admit, InsertDispatch, NewDispatch
  <1>4. ASSUME NEW w \in Workers, RecoverCommit(w) PROVE job'[d[1]].phase \in Terminal
    BY <1>1, <1>4 DEF RecoverCommit, InsertDispatch, NewDispatch
  <1>5. ASSUME NEW w \in Workers, NEW e \in DOMAIN dispatch, ClaimDispatch(w, e)
        PROVE  job'[d[1]].phase \in Terminal
    <2>1. dispatch[d] \in DispatchRow /\ d \in DOMAIN dispatch
      BY <1>5, <1>t DEF ClaimDispatch
    <2>2. dispatch'[d].completed = dispatch[d].completed
      BY <1>5, <2>1 DEF ClaimDispatch, DispatchRow
    <2> QED
      BY <1>1, <2>1, <2>2
  <1>6. ASSUME NEW w \in Workers, Release(w) PROVE job'[d[1]].phase \in Terminal
    <2>1. dispatch[d] \in DispatchRow /\ d \in DOMAIN dispatch
      BY <1>6, <1>t DEF Release
    <2>2. dispatch'[d].completed = dispatch[d].completed
      BY <1>6, <2>1 DEF Release, DispatchRow
    <2> QED
      BY <1>1, <2>1, <2>2
  <1>7. ASSUME NEW w \in Workers, Acknowledge(w) PROVE job'[d[1]].phase \in Terminal
    <2>1. d \in DOMAIN dispatch /\ job' = job
      BY <1>7 DEF Acknowledge
    <2>2. hand[w] \in DOMAIN dispatch /\ target[w] = hand[w][1]
      BY <1>7 DEF TypeInv, LocalsOK, Serving, Acknowledge
    <2>3. job[target[w]].phase \in Terminal
      BY <1>7 DEF KnowsInv, Knows, Acknowledge
    <2>4. d # hand[w] => dispatch'[d] = dispatch[d]
      BY <1>7, <2>1 DEF Acknowledge
    <2> QED
      BY <1>1, <2>1, <2>2, <2>3, <2>4
  <1>8. ASSUME Tick PROVE job'[d[1]].phase \in Terminal
    <2>1. dispatch[d] \in DispatchRow /\ d \in DOMAIN dispatch
      BY <1>8, <1>t DEF Tick
    <2>2. dispatch'[d].completed = dispatch[d].completed
      BY <1>8, <2>1 DEF Tick, DispatchRow
    <2> QED
      BY <1>1, <2>1, <2>2
  <1>9. ASSUME NEW w \in Workers, NEW j \in Jobs, RecoverGet(w, j)
        PROVE  job'[d[1]].phase \in Terminal
    BY <1>2, <1>9 DEF RecoverGet, store
  <1>10. ASSUME NEW w \in Workers,
                \/ ListExpired(w) \/ RecoverConflict(w) \/ RecoverDone(w)
                \/ NothingAvailable(w) \/ ExecuteGet(w) \/ ClaimJob(w) \/ ClaimConflict(w)
                \/ Act(w) \/ PutResult(w) \/ Complete(w) \/ CompleteConflict(w)
                \/ AcknowledgeConflict(w) \/ Restart(w) \/ FaultStep(w)
         PROVE  job'[d[1]].phase \in Terminal
    BY <1>2, <1>10
    DEF ListExpired, RecoverConflict, RecoverDone, NothingAvailable, ExecuteGet, ClaimJob,
        ClaimConflict, Act, PutResult, Complete, CompleteConflict, AcknowledgeConflict,
        Restart, FaultStep, ActUnreportable, PutError, StoreError, Crash, store
  <1>11. CASE UNCHANGED vars
    BY <1>2, <1>11 DEF vars
  <1> QED
    BY <1>3, <1>4, <1>5, <1>6, <1>7, <1>8, <1>9, <1>10, <1>11 DEF Next, WorkerStep

LEMMA FenceInit == Init => FenceInv
  BY DEF Init, FenceInv, KnowsInv, Knows, ApartInv, ClosedInv, Working

-----------------------------------------------------------------------------
(***************************************************************************)
(* The inductive invariant and its consequences.                           *)
(***************************************************************************)
IInv == TypeInv /\ HistoryInv /\ FenceInv

THEOREM Invariance == Spec => []IInv
  <1>1. Init => IInv
    BY TypeInit, HistoryInit, FenceInit DEF IInv
  <1>2. IInv /\ [Next]_vars => IInv'
    BY TypeStep, HistoryStep, KnowsStep, ApartStep, ClosedStep DEF IInv, FenceInv
  <1> QED
    BY <1>1, <1>2, PTL DEF Spec

\* The outbox has exactly one row per offer of a job, completed only once the
\* job has ended.
THEOREM DispatchLedgerHolds == Spec => []DispatchLedger
  <1>1. IInv => DispatchLedger
    <2> SUFFICES ASSUME IInv PROVE DispatchLedger
      OBVIOUS
    <2>1. DOMAIN dispatch \subseteq Jobs \X (Nat \ {0})
      BY DEF IInv, TypeInv, TypeOK
    <2>2. \A j \in Jobs : Offers(job[j]) \subseteq Nat \ {0}
      BY DEF Offers
    <2>3. \A j \in Jobs : \A n \in Nat \ {0} :
             <<j, n>> \in DOMAIN dispatch <=> n \in Offers(job[j])
      BY DEF IInv, HistoryInv
    <2>4. ASSUME NEW d \in DOMAIN dispatch
          PROVE  d \in UNION {{j} \X Offers(job[j]) : j \in Jobs}
      <3>1. PICK j \in Jobs, n \in Nat \ {0} : d = <<j, n>>
        BY <2>1
      <3>2. n \in Offers(job[j])
        BY <2>3, <3>1
      <3>3. d \in {j} \X Offers(job[j])
        BY <3>1, <3>2
      <3> QED
        BY <3>3
    <2>5. ASSUME NEW d \in UNION {{j} \X Offers(job[j]) : j \in Jobs}
          PROVE  d \in DOMAIN dispatch
      <3>1. PICK j \in Jobs : d \in {j} \X Offers(job[j])
        OBVIOUS
      <3>2. PICK n \in Offers(job[j]) : d = <<j, n>>
        BY <3>1
      <3> QED
        BY <2>2, <2>3, <3>2
    <2>6. DOMAIN dispatch = UNION {{j} \X Offers(job[j]) : j \in Jobs}
      BY <2>4, <2>5
    <2> QED
      BY <2>6 DEF DispatchLedger, IInv, FenceInv, ClosedInv
  <1> QED
    BY <1>1, Invariance, PTL

\* A worker between claim and complete holds its job or is fenced out by a
\* later revision, and no two of them run the same attempt.
THEOREM FencedOutHolds == Spec => []FencedOut
  <1>1. IInv => FencedOut
    BY DEF IInv, FenceInv, KnowsInv, Knows, ApartInv, FencedOut
  <1> QED
    BY <1>1, Invariance, PTL

\* Only the holder moves a job while the lease lasts on every clock.
THEOREM LeaseProtectsHolderHolds == Spec => LeaseProtectsHolder
  <1>1. IInv /\ [Next]_vars =>
          \A j \in Jobs :
             job[j].phase = "running" /\ job'[j].revision # job[j].revision =>
                \/ job[j].expires <= MaxSkew
                \/ \E w \in Workers :
                      pc[w] = "completing" /\ target[w] = j /\ Holds(w, job[j])
    <2> SUFFICES ASSUME IInv, [Next]_vars, NEW j \in Jobs,
                        job[j].phase = "running", job'[j].revision # job[j].revision
                 PROVE  \/ job[j].expires <= MaxSkew
                        \/ \E w \in Workers :
                              pc[w] = "completing" /\ target[w] = j /\ Holds(w, job[j])
      OBVIOUS
    <2>1. JobStep(j)
      BY JobSteps DEF IInv
    <2>2. ASSUME NEW w \in Workers, RequeueStep(j, w)
          PROVE  job[j].expires <= MaxSkew
      <3>1. job[j].expires <= Skew[w]
        BY <2>2 DEF RequeueStep, IInv, FenceInv, KnowsInv, Knows
      <3>2. Skew[w] \in 0..MaxSkew /\ MaxSkew \in Nat /\ job[j].expires \in Nat
        BY ClockAssumption, RowFields DEF IInv, TypeInv, TypeOK
      <3> QED
        BY <3>1, <3>2
    <2> QED
      BY <2>1, <2>2 DEF JobStep, Rest, AdmitStep, StartStep, SettleStep
  <1> QED
    BY <1>1, Invariance, PTL DEF Spec, LeaseProtectsHolder

-----------------------------------------------------------------------------
(***************************************************************************)
(* The artifact of a job is written once, and what a worker is about to    *)
(* report, or a job has reported, is that artifact.                        *)
(***************************************************************************)
Reported(j) ==
    /\ job[j].phase = "succeeded" => job[j].result # Nil /\ job[j].result = artifact[j]
    /\ job[j].phase # "succeeded" => job[j].result = Nil
    /\ job[j].phase = "failed" <=> job[j].failure # Nil

AboutToReport(w) ==
    pc[w] = "completing" /\ outcome[w] \notin Failures =>
        outcome[w] = artifact[target[w]]

LEMMA TickFrame ==
  Tick => /\ artifact' = artifact /\ pc' = pc /\ target' = target /\ outcome' = outcome
  BY Zenon DEF Tick, local

\* Who writes jobs and artifacts.
LEMMA Writers ==
  ASSUME [Next]_vars
  PROVE  \/ \E j \in Jobs : Admit(j)
         \/ \E w \in Workers : Complete(w) \/ PutResult(w) \/ PutError(w)
         \/ /\ artifact' = artifact
            /\ job' = job \/ Tick \/ \E w \in Workers : ClaimJob(w) \/ RecoverCommit(w)
  <1>1. ASSUME NEW w \in Workers, NEW i \in Jobs, RecoverGet(w, i)
        PROVE  artifact' = artifact /\ job' = job
    BY <1>1 DEF RecoverGet, store
  <1>2. ASSUME NEW w \in Workers, NEW d \in DOMAIN dispatch, ClaimDispatch(w, d)
        PROVE  artifact' = artifact /\ job' = job
    BY <1>2 DEF ClaimDispatch
  <1>3. ASSUME NEW w \in Workers,
               \/ ListExpired(w) \/ RecoverConflict(w) \/ RecoverDone(w)
               \/ NothingAvailable(w) \/ ExecuteGet(w) \/ ClaimConflict(w) \/ Act(w)
               \/ ActUnreportable(w) \/ CompleteConflict(w) \/ AcknowledgeConflict(w)
               \/ StoreError(w) \/ Crash(w) \/ Restart(w)
        PROVE  artifact' = artifact /\ job' = job
    BY <1>3
    DEF ListExpired, RecoverConflict, RecoverDone, NothingAvailable, ExecuteGet,
        ClaimConflict, Act, ActUnreportable, CompleteConflict, AcknowledgeConflict,
        StoreError, Crash, Restart, store
  <1>4. ASSUME NEW w \in Workers, Acknowledge(w) \/ Release(w)
        PROVE  artifact' = artifact /\ job' = job
    BY <1>4 DEF Acknowledge, Release
  <1>5. ASSUME NEW w \in Workers, RecoverCommit(w) \/ ClaimJob(w)
        PROVE  artifact' = artifact
    BY <1>5 DEF RecoverCommit, ClaimJob
  <1>6. ASSUME UNCHANGED vars PROVE artifact' = artifact /\ job' = job
    BY <1>6 DEF vars
  <1> QED
    BY <1>1, <1>2, <1>3, <1>4, <1>5, <1>6, TickFrame DEF Next, WorkerStep, FaultStep

LEMMA WrittenOnce ==
  ASSUME TypeInv, [Next]_vars, NEW j \in Jobs, artifact[j] # Nil
  PROVE  artifact'[j] = artifact[j]
  <1>t. artifact \in [Jobs -> Outputs \cup {Nil}]
    BY DEF TypeInv, TypeOK
  <1>1. ASSUME NEW w \in Workers, PutResult(w) \/ PutError(w)
        PROVE  artifact'[j] = artifact[j]
    BY <1>1, <1>t DEF PutResult, PutError, Stored
  <1>2. ASSUME (\E w \in Workers : Complete(w)) \/ (\E i \in Jobs : Admit(i))
        PROVE  artifact' = artifact
    BY <1>2 DEF Complete, Admit
  <1> QED
    BY <1>1, <1>2, Writers

\* A worker comes to "completing" with a failure or with the stored artifact.
LEMMA ComesToReport ==
  ASSUME TypeInv, NEW w \in Workers, WorkerStep(w) \/ FaultStep(w),
         pc'[w] = "completing"
  PROVE  outcome'[w] \in Failures \/ outcome'[w] = artifact'[target'[w]]
  <1>t. /\ pc \in [Workers -> Steps] /\ outcome \in [Workers -> Outputs \cup Failures \cup {Nil}]
        /\ artifact \in [Jobs -> Outputs \cup {Nil}]
    BY DEF TypeInv, TypeOK
  <1>1. CASE PutResult(w)
    <2>1. target[w] \in Jobs /\ outcome[w] \in Outputs
      BY <1>1 DEF TypeInv, TypeOK, LocalsOK, Serving, PutResult
    <2>2. /\ outcome'[w] = PutAnswer(target[w], outcome[w])
          /\ artifact'[target[w]] = Stored(target[w], outcome[w])
          /\ target' = target
      BY <1>1, <1>t, <2>1 DEF PutResult
    <2> QED
      BY <2>2, ValueAssumption DEF PutAnswer, Stored, Failures
  <1>2. CASE PutError(w) \/ Act(w)
    BY <1>2, <1>t DEF PutError, Act, Goto, Failures
  <1>3. ASSUME NEW j \in Jobs, RecoverGet(w, j) PROVE FALSE
    BY <1>3, <1>t DEF RecoverGet, Goto, Die
  <1>6. ASSUME NEW d \in DOMAIN dispatch, ClaimDispatch(w, d) PROVE FALSE
    BY <1>6, <1>t DEF ClaimDispatch, Goto
  <1>4. CASE \/ ListExpired(w) \/ RecoverCommit(w) \/ RecoverConflict(w) \/ RecoverDone(w)
             \/ NothingAvailable(w) \/ ExecuteGet(w) \/ ClaimJob(w) \/ ClaimConflict(w)
             \/ ActUnreportable(w)
    BY <1>4, <1>t
    DEF ListExpired, RecoverCommit, RecoverConflict, RecoverDone, NothingAvailable,
        ExecuteGet, ClaimJob, ClaimConflict, ActUnreportable, Goto, Die, Reply
  <1>5. CASE \/ Complete(w) \/ CompleteConflict(w) \/ Acknowledge(w)
             \/ AcknowledgeConflict(w) \/ Release(w) \/ Restart(w)
             \/ StoreError(w) \/ Crash(w)
    BY <1>5, <1>t
    DEF Complete, CompleteConflict, Acknowledge, AcknowledgeConflict, Release, Restart,
        StoreError, Crash, Goto, Die, Reply
  <1> QED
    BY <1>1, <1>2, <1>3, <1>4, <1>5, <1>6 DEF WorkerStep, FaultStep

\* The outcome of a worker is written by nobody else.
LEMMA OwnOutcome ==
  ASSUME TypeInv, NEW w \in Workers, WorkerStep(w) \/ FaultStep(w),
         NEW v \in Workers \ {w}
  PROVE  outcome'[v] = outcome[v]
  <1>t. outcome \in [Workers -> Outputs \cup Failures \cup {Nil}]
    BY DEF TypeInv, TypeOK
  <1>1. ASSUME NEW j \in Jobs, RecoverGet(w, j) PROVE outcome'[v] = outcome[v]
    BY <1>1, <1>t DEF RecoverGet, Die, Forget
  <1>2. ASSUME NEW d \in DOMAIN dispatch, ClaimDispatch(w, d)
        PROVE  outcome'[v] = outcome[v]
    BY <1>2 DEF ClaimDispatch
  <1>3. CASE \/ ListExpired(w) \/ RecoverCommit(w) \/ RecoverConflict(w)
             \/ RecoverDone(w) \/ NothingAvailable(w)
    BY <1>3, <1>t DEF ListExpired, RecoverCommit, RecoverConflict, RecoverDone,
                      NothingAvailable, Die, Forget
  <1>4. CASE ExecuteGet(w) \/ ClaimJob(w) \/ ClaimConflict(w) \/ Act(w)
    BY <1>4, <1>t DEF ExecuteGet, ClaimJob, ClaimConflict, Act
  <1>5. CASE PutResult(w) \/ Complete(w) \/ CompleteConflict(w)
    BY <1>5, <1>t DEF PutResult, Complete, CompleteConflict
  <1>6. CASE Acknowledge(w) \/ AcknowledgeConflict(w) \/ Release(w) \/ Restart(w)
    BY <1>6, <1>t DEF Acknowledge, AcknowledgeConflict, Release, Restart, Forget
  <1>7. CASE FaultStep(w)
    BY <1>7, <1>t DEF FaultStep, ActUnreportable, PutError, StoreError, Crash, Die, Forget
  <1> QED
    BY <1>1, <1>2, <1>3, <1>4, <1>5, <1>6, <1>7 DEF WorkerStep

LEMMA AboutToReportStep ==
  ASSUME TypeInv, [Next]_vars, \A w \in Workers : AboutToReport(w)
  PROVE  \A w \in Workers : AboutToReport(w)'
  <1>1. ASSUME NEW w \in Workers,
               pc'[w] = pc[w], target'[w] = target[w], outcome'[w] = outcome[w]
        PROVE  AboutToReport(w)'
    <2>1. SUFFICES ASSUME pc[w] = "completing", outcome[w] \notin Failures
                   PROVE  outcome[w] = artifact'[target[w]]
      BY <1>1 DEF AboutToReport
    <2>2. target[w] \in Jobs /\ outcome[w] \in Outputs
      BY <2>1 DEF TypeInv, TypeOK, LocalsOK, Serving
    <2>3. artifact[target[w]] = outcome[w] /\ outcome[w] # Nil
      BY <2>1, <2>2, ValueAssumption DEF AboutToReport
    <2> QED
      BY <2>2, <2>3, WrittenOnce
  <1>2. ASSUME NEW w \in Workers, WorkerStep(w) \/ FaultStep(w)
        PROVE  \A v \in Workers : AboutToReport(v)'
    <2>1. AboutToReport(w)'
      BY <1>2, ComesToReport DEF AboutToReport
    <2>2. ASSUME NEW v \in Workers \ {w} PROVE AboutToReport(v)'
      BY <1>1, <1>2, OwnLocals, OwnOutcome DEF Mine
    <2> QED
      BY <2>1, <2>2
  <1>3. CASE pc' = pc /\ target' = target /\ outcome' = outcome
    BY <1>1, <1>3
  <1>4. CASE \E j \in Jobs : Admit(j)
    BY <1>3, <1>4 DEF Admit, local
  <1>5. CASE Tick
    BY <1>3, <1>5, TickFrame
  <1>6. CASE UNCHANGED vars
    BY <1>3, <1>6 DEF vars
  <1> QED
    BY <1>2, <1>4, <1>5, <1>6 DEF Next

LEMMA ReportedStep ==
  ASSUME TypeInv, [Next]_vars, \A w \in Workers : AboutToReport(w),
         NEW j \in Jobs, Reported(j)
  PROVE  Reported(j)'
  <1>t. job[j] \in JobRow /\ Nil \notin Failures
    BY ValueAssumption DEF TypeInv, TypeOK, Failures
  <1>1. CASE Rest(j)
    BY <1>1, WrittenOnce DEF Rest, Reported
  <1>2. CASE AdmitStep(j)
    <2>1. job'[j].phase = "queued" /\ job'[j].result = Nil /\ job'[j].failure = Nil
      BY <1>2 DEF AdmitStep, NoJob
    <2> QED
      BY <2>1 DEF Reported
  <1>3. ASSUME NEW w \in Workers, StartStep(j, w) PROVE Reported(j)'
    <2>0. /\ Started(job[j], w).phase = "running"
          /\ Started(job[j], w).result = job[j].result
          /\ Started(job[j], w).failure = job[j].failure
      BY <1>t, StartedRow
    <2>1. /\ job'[j].phase = "running" /\ job[j].phase = "queued"
          /\ job'[j].result = job[j].result /\ job'[j].failure = job[j].failure
      BY <1>3, <2>0 DEF StartStep
    <2> QED
      BY <2>1 DEF Reported
  <1>4. ASSUME NEW w \in Workers, RequeueStep(j, w) PROVE Reported(j)'
    BY <1>4, <1>t, RequeuedRow DEF RequeueStep, Reported
  <1>5. ASSUME NEW w \in Workers, SettleStep(j, w) PROVE Reported(j)'
    <2>1. /\ pc[w] = "completing" /\ target[w] = j /\ job[j].phase = "running"
          /\ outcome[w] \in Outputs \cup Failures
          /\ job'[j] = Settled(job[j], outcome[w])
      BY <1>5 DEF SettleStep, Holds
    <2>2. CASE outcome[w] \in Failures
      <3>1. /\ job'[j].phase = "failed" /\ job'[j].failure = outcome[w]
            /\ job'[j].result = job[j].result
        BY <1>t, <2>1, <2>2, SettledRow
      <3> QED
        BY <1>t, <2>1, <2>2, <3>1 DEF Reported
    <2>3. CASE outcome[w] \notin Failures
      <3>1. /\ job'[j].phase = "succeeded" /\ job'[j].failure = job[j].failure
            /\ job'[j].result = outcome[w]
        BY <1>t, <2>1, <2>3, SettledRow
      <3>2. outcome[w] = artifact[j] /\ outcome[w] # Nil
        BY <2>1, <2>3, ValueAssumption DEF AboutToReport
      <3>3. artifact'[j] = outcome[w]
        BY <3>2, WrittenOnce
      <3> QED
        BY <2>1, <3>1, <3>2, <3>3 DEF Reported
    <2> QED
      BY <2>2, <2>3
  <1> QED
    BY <1>1, <1>2, <1>3, <1>4, <1>5, JobSteps DEF JobStep

ReportInv == (\A w \in Workers : AboutToReport(w)) /\ (\A j \in Jobs : Reported(j))

LEMMA ReportInvariance == Spec => [](TypeInv /\ ReportInv)
  <1>1. Init => TypeInv /\ ReportInv
    <2>1. Init => TypeInv
      BY TypeInit
    <2>2. Init => ReportInv
      BY DEF Init, ReportInv, AboutToReport, Reported, NoJob
    <2> QED
      BY <2>1, <2>2
  <1>2. TypeInv /\ ReportInv /\ [Next]_vars => (TypeInv /\ ReportInv)'
    <2> SUFFICES ASSUME TypeInv, ReportInv, [Next]_vars PROVE (TypeInv /\ ReportInv)'
      OBVIOUS
    <2>1. TypeInv'
      BY TypeStep
    <2>2. \A w \in Workers : AboutToReport(w)'
      BY AboutToReportStep DEF ReportInv
    <2>3. \A j \in Jobs : Reported(j)'
      BY ReportedStep DEF ReportInv
    <2> QED
      BY <2>1, <2>2, <2>3 DEF ReportInv
  <1> QED
    BY <1>1, <1>2, PTL DEF Spec

\* A job that succeeded refers to the artifact that is stored, whichever
\* attempt stored it, and a worker about to report success has its artifact
\* stored: results.put answers with the value that is there.
THEOREM ArtifactMatchesHolds == Spec => []ArtifactMatches
  <1>1. ReportInv => ArtifactMatches
    BY DEF ReportInv, ArtifactMatches, AboutToReport, Reported
  <1> QED
    BY <1>1, ReportInvariance, PTL

-----------------------------------------------------------------------------
(***************************************************************************)
(* Claims of dispatch rows.  A row is written anew only under an id that   *)
(* is not in use, so that no insertion takes a claim away.                 *)
(***************************************************************************)
ClaimLost(d) == dispatch[d].claim # Nil /\ dispatch'[d].claim # dispatch[d].claim

LEMMA FreshDispatch ==
  ASSUME TypeInv, HistoryInv, NEW j \in Jobs, NEW left \in Nat, NEW n \in Nat \ {0},
         n > job[j].revision, InsertDispatch(<<j, n>>, left), NEW d \in DOMAIN dispatch
  PROVE  dispatch'[d] = dispatch[d]
  <1>1. job[j].revision \in Nat
    BY RowFields DEF TypeInv, TypeOK
  <1>2. n \notin Offers(job[j])
    BY <1>1 DEF Offers
  <1>3. <<j, n>> \notin DOMAIN dispatch
    BY <1>2 DEF HistoryInv
  <1> QED
    BY <1>3 DEF InsertDispatch

LEMMA ClaimStep ==
  ASSUME TypeInv, HistoryInv, NEW d \in DOMAIN dispatch, ClaimLost(d),
         NEW w \in Workers, WorkerStep(w)
  PROVE  \/ dispatch[d].expires <= Skew[w]
         \/ hand[w] = d /\ dispatch[d].claim = w /\ pc[w] \in {"acking", "deferring"}
  <1>h. pc[w] \in Serving => hand[w] \in DOMAIN dispatch
    BY DEF TypeInv, LocalsOK
  <1>1. CASE RecoverCommit(w)
    <2>1. /\ target[w] \in Jobs /\ seen[w] = job[target[w]].revision
          /\ InsertDispatch(<<target[w], seen[w] + 1>>, Stamp(w, 0))
      BY <1>1 DEF RecoverCommit, TypeInv, LocalsOK
    <2>2. job[target[w]].revision \in Nat /\ Stamp(w, 0) \in Nat
      BY <2>1, RowFields, StampType DEF TypeInv, TypeOK
    <2>3. dispatch'[d] = dispatch[d]
      BY <2>1, <2>2, FreshDispatch
    <2> QED
      BY <2>3 DEF ClaimLost
  <1>2. ASSUME NEW e \in DOMAIN dispatch, ClaimDispatch(w, e)
        PROVE  dispatch[d].expires <= Skew[w]
    <2>1. d = e
      BY <1>2 DEF ClaimDispatch, ClaimLost
    <2> QED
      BY <1>2, <2>1 DEF ClaimDispatch, Available, Lapsed, ClaimLost
  <1>3. CASE Acknowledge(w)
    <2>1. pc[w] = "acking" /\ OwnsDispatch(w)
      BY <1>3 DEF Acknowledge
    <2>2. hand[w] = d
      BY <1>3 DEF Acknowledge, ClaimLost
    <2> QED
      BY <2>1, <2>2 DEF OwnsDispatch
  <1>4. CASE Release(w)
    <2>1. pc[w] = "deferring" /\ OwnsDispatch(w)
      BY <1>4 DEF Release, ClaimLost
    <2>2. hand[w] = d
      BY <1>4, <2>1 DEF Release, ClaimLost
    <2> QED
      BY <2>1, <2>2 DEF OwnsDispatch
  <1>5. ASSUME NEW j \in Jobs, RecoverGet(w, j) PROVE FALSE
    BY <1>5 DEF RecoverGet, store, ClaimLost
  <1>6. CASE \/ ListExpired(w) \/ RecoverConflict(w) \/ RecoverDone(w)
             \/ NothingAvailable(w) \/ ExecuteGet(w) \/ ClaimJob(w) \/ ClaimConflict(w)
    BY <1>6 DEF ListExpired, RecoverConflict, RecoverDone, NothingAvailable, ExecuteGet,
                ClaimJob, ClaimConflict, store, ClaimLost
  <1>7. CASE \/ Act(w) \/ PutResult(w) \/ Complete(w) \/ CompleteConflict(w)
             \/ AcknowledgeConflict(w) \/ Restart(w)
    BY <1>7 DEF Act, PutResult, Complete, CompleteConflict, AcknowledgeConflict, Restart,
                store, ClaimLost
  <1> QED
    BY <1>1, <1>2, <1>3, <1>4, <1>5, <1>6, <1>7 DEF WorkerStep

\* A claim of a dispatch row ends by its claimant, or after its lease.
THEOREM OnlyOwnerClosesDispatchHolds == Spec => OnlyOwnerClosesDispatch
  <1>1. IInv /\ [Next]_vars =>
          \A d \in DOMAIN dispatch :
             dispatch[d].claim # Nil /\ dispatch'[d].claim # dispatch[d].claim =>
                \/ dispatch[d].expires <= MaxSkew
                \/ hand[dispatch[d].claim] = d
                   /\ pc[dispatch[d].claim] \in {"acking", "deferring"}
    <2> SUFFICES ASSUME IInv, [Next]_vars, NEW d \in DOMAIN dispatch, ClaimLost(d)
                 PROVE  \/ dispatch[d].expires <= MaxSkew
                        \/ hand[dispatch[d].claim] = d
                           /\ pc[dispatch[d].claim] \in {"acking", "deferring"}
      BY DEF ClaimLost
    <2>t. TypeInv /\ HistoryInv /\ dispatch[d].expires \in Nat
      BY DispatchFields DEF IInv, TypeInv, TypeOK
    <2>1. ASSUME NEW j \in Jobs, Admit(j) PROVE FALSE
      <3>1. job[j].revision = 0
        BY <2>1, <2>t DEF Admit, HistoryInv, Shape
      <3>2. dispatch'[d] = dispatch[d]
        BY <2>1, <2>t, <3>1, FreshDispatch DEF Admit
      <3> QED
        BY <3>2 DEF ClaimLost
    <2>2. ASSUME NEW w \in Workers, WorkerStep(w)
          PROVE  \/ dispatch[d].expires <= MaxSkew
                 \/ hand[dispatch[d].claim] = d
                    /\ pc[dispatch[d].claim] \in {"acking", "deferring"}
      <3>1. Skew[w] \in 0..MaxSkew /\ MaxSkew \in Nat
        BY ClockAssumption
      <3> QED
        BY <2>2, <2>t, <3>1, ClaimStep
    <2>3. ASSUME NEW w \in Workers, FaultStep(w) PROVE FALSE
      BY <2>3 DEF FaultStep, ActUnreportable, PutError, StoreError, Crash, store, ClaimLost
    <2>4. CASE Tick
      <3>1. dispatch'[d] = [dispatch[d] EXCEPT !.available = CountDown(dispatch[d].available),
                                               !.expires = CountDown(dispatch[d].expires)]
        BY <2>4, Zenon DEF Tick
      <3>2. dispatch[d] \in DispatchRow
        BY <2>t DEF TypeInv, TypeOK
      <3>3. dispatch'[d].claim = dispatch[d].claim
        BY <3>1, <3>2 DEF DispatchRow
      <3> QED
        BY <3>3 DEF ClaimLost
    <2>5. CASE UNCHANGED vars
      BY <2>5 DEF vars, ClaimLost
    <2> QED
      BY <2>1, <2>2, <2>3, <2>4, <2>5 DEF Next
  <1> QED
    BY <1>1, Invariance, PTL DEF Spec, OnlyOwnerClosesDispatch

-----------------------------------------------------------------------------
(***************************************************************************)
(* The runtime implements the contract with the client: what the client    *)
(* sees of a job moves only as the contract moves it.                      *)
(***************************************************************************)
LEMMA SameVerdict ==
  ASSUME TypeInv, Tick \/ \E w \in Workers : ClaimJob(w) \/ RecoverCommit(w), NEW j \in Jobs
  PROVE  Verdict(job'[j]) = Verdict(job[j])
  <1>t. job \in [Jobs -> JobRow]
    BY DEF TypeInv, TypeOK
  <1>1. CASE Tick
    <2>1. job'[j] = [job[j] EXCEPT !.expires = CountDown(job[j].expires)]
      BY <1>1 DEF Tick
    <2>2. job[j] \in JobRow
      BY <1>t
    <2>3. /\ job'[j].phase = job[j].phase /\ job'[j].result = job[j].result
          /\ job'[j].failure = job[j].failure
      BY <2>1, <2>2 DEF JobRow
    <2> QED
      BY <2>3 DEF Verdict
  <1>2. ASSUME NEW w \in Workers, ClaimJob(w)
        PROVE  Verdict(job'[j]) = Verdict(job[j])
    <2>1. target[w] \in Jobs /\ job' = [job EXCEPT ![target[w]] = Started(job[target[w]], w)]
      BY <1>2 DEF ClaimJob, TypeInv, TypeOK, LocalsOK, Serving
    <2>2. Started(job[target[w]], w).phase = "running"
      BY <1>t, <2>1, StartedRow
    <2> QED
      BY <1>2, <1>t, <2>1, <2>2 DEF ClaimJob, Verdict
  <1>3. ASSUME NEW w \in Workers, RecoverCommit(w)
        PROVE  Verdict(job'[j]) = Verdict(job[j])
    <2>1. target[w] \in Jobs /\ job' = [job EXCEPT ![target[w]] = Requeued(job[target[w]])]
      BY <1>3 DEF RecoverCommit, TypeInv, TypeOK, LocalsOK
    <2>2. Requeued(job[target[w]]).phase = "queued"
      BY <1>t, <2>1, RequeuedRow
    <2> QED
      BY <1>3, <1>t, <2>1, <2>2 DEF RecoverCommit, Verdict
  <1> QED
    BY <1>1, <1>2, <1>3

\* A value is stored for a job that the client has submitted.
LEMMA StoredIsSubmitted ==
  ASSUME IInv, ReportInv, NEW w \in Workers, pc[w] = "putting", artifact[target[w]] = Nil
  PROVE  target[w] \in Jobs /\ Verdict(job[target[w]]) # "unknown"
  <1> DEFINE j == target[w]
  <1>1. j \in Jobs
    BY DEF IInv, TypeInv, TypeOK, LocalsOK, Serving
  <1>2. job[j].revision \in Nat /\ seen[w] \in Nat /\ job[j].phase \in Phases
        /\ job[j].failure \in Failures \cup {Nil}
    BY <1>1, RowFields DEF IInv, TypeInv, TypeOK
  <1>3. job[j].phase # "absent"
    <2>1. seen[w] < job[j].revision \/ job[j].phase = "running"
      BY DEF IInv, FenceInv, KnowsInv, Knows, Working, Holds
    <2>2. job[j].phase = "absent" => job[j].revision = 0
      BY <1>1 DEF IInv, HistoryInv, Shape
    <2> QED
      BY <1>2, <2>1, <2>2
  <1>4. job[j].phase # "succeeded"
    BY <1>1 DEF ReportInv, Reported
  <1>5. job[j].phase = "failed" => job[j].failure \in Failures
    BY <1>1, <1>2 DEF ReportInv, Reported
  <1> QED
    BY <1>1, <1>3, <1>4, <1>5 DEF Verdict, Failures

LEMMA ContractStep ==
  ASSUME IInv, ReportInv, [Next]_vars
  PROVE  [Contract!Next]_(Contract!vars)
  <1> DEFINE verdict == [j \in Jobs |-> Verdict(job[j])]
  <1>t. /\ TypeInv /\ job \in [Jobs -> JobRow]
        /\ artifact \in [Jobs -> Outputs \cup {Nil}]
    BY DEF IInv, TypeInv, TypeOK
  <1>1. ASSUME verdict' = verdict, artifact' = artifact
        PROVE  UNCHANGED Contract!vars
    BY <1>1 DEF Contract!vars
  <1>2. ASSUME NEW j \in Jobs, Admit(j) PROVE Contract!Next
    <2>1. verdict[j] = "unknown" /\ artifact' = artifact
      BY <1>2 DEF Admit, Verdict
    <2>2. job' = [job EXCEPT ![j] = [NoJob EXCEPT !.phase = "queued", !.revision = 1]]
      BY <1>2 DEF Admit
    <2>3. verdict' = [verdict EXCEPT ![j] = "open"]
      <3>1. Verdict([NoJob EXCEPT !.phase = "queued", !.revision = 1]) = "open"
        BY DEF Verdict, NoJob
      <3> QED
        BY <1>t, <2>2, <3>1
    <2>4. Contract!Submit(j)
      BY <2>1, <2>3 DEF Contract!Submit
    <2> QED
      BY <2>4 DEF Contract!Next
  <1>3. ASSUME NEW w \in Workers, Complete(w) PROVE Contract!Next
    <2> DEFINE j == target[w]
               o == outcome[w]
    <2>1. j \in Jobs /\ o \in Outputs \cup Failures
      BY <1>3 DEF IInv, TypeInv, TypeOK, LocalsOK, Serving, Complete
    <2>2. /\ job' = [job EXCEPT ![j] = Settled(job[j], o)]
          /\ artifact' = artifact /\ pc[w] = "completing" /\ job[j].phase = "running"
      BY <1>3 DEF Complete, Holds
    <2>3. verdict[j] = "open"
      BY <2>1, <2>2 DEF Verdict
    <2>4. Verdict(Settled(job[j], o)) = o
      <3>1. job[j] \in JobRow
        BY <1>t, <2>1
      <3> QED
        BY <2>1, <3>1, SettledRow DEF Verdict
    <2>5. verdict' = [verdict EXCEPT ![j] = o]
      BY <1>t, <2>1, <2>2, <2>4
    <2>6. o \in ({artifact[j]} \ {Nil}) \cup Failures
      <3>1. CASE o \notin Failures
        <4>1. o = artifact[j]
          BY <2>2, <3>1 DEF ReportInv, AboutToReport
        <4>2. o # Nil
          BY <2>1, <3>1, ValueAssumption
        <4> QED
          BY <4>1, <4>2
      <3> QED
        BY <3>1
    <2> HIDE DEF j, o, verdict
    <2>7. /\ verdict[j] = "open"
          /\ \E v \in ({artifact[j]} \ {Nil}) \cup Failures : verdict' = [verdict EXCEPT ![j] = v]
          /\ artifact' = artifact
      BY <2>2, <2>3, <2>5, <2>6
    <2>8. Contract!Settle(j)
      BY <2>7 DEF Contract!Settle, verdict
    <2> QED
      BY <2>1, <2>8 DEF Contract!Next
  <1>4. ASSUME NEW w \in Workers, PutResult(w) \/ PutError(w)
        PROVE  [Contract!Next]_(Contract!vars)
    <2> DEFINE j == target[w]
               o == outcome[w]
    <2>1. j \in Jobs /\ o \in Outputs /\ pc[w] = "putting" /\ verdict' = verdict
      BY <1>4 DEF IInv, TypeInv, TypeOK, LocalsOK, Serving, PutResult, PutError
    <2>2. CASE artifact' = artifact
      BY <1>1, <2>1, <2>2
    <2>3. CASE artifact' = [artifact EXCEPT ![j] = Stored(j, o)] /\ artifact[j] # Nil
      <3>1. artifact' = artifact
        BY <1>t, <2>3 DEF Stored
      <3> QED
        BY <2>2, <3>1
    <2>4. CASE artifact' = [artifact EXCEPT ![j] = Stored(j, o)] /\ artifact[j] = Nil
      <3>1. artifact' = [artifact EXCEPT ![j] = o]
        BY <2>4 DEF Stored
      <3>2. verdict[j] # "unknown"
        BY <2>1, <2>4, StoredIsSubmitted
      <3>3. Contract!Store(j, o)
        BY <2>1, <2>4, <3>1, <3>2 DEF Contract!Store
      <3> QED
        BY <2>1, <3>3 DEF Contract!Next
    <2> QED
      BY <1>4, <2>2, <2>3, <2>4 DEF PutResult, PutError
  <1>5. ASSUME artifact' = artifact,
               job' = job \/ Tick \/ \E w \in Workers : ClaimJob(w) \/ RecoverCommit(w)
        PROVE  UNCHANGED Contract!vars
    <2>1. ASSUME NEW j \in Jobs PROVE Verdict(job'[j]) = Verdict(job[j])
      BY <1>5, <1>t, SameVerdict
    <2>2. verdict' = verdict
      BY <2>1
    <2> QED
      BY <1>1, <1>5, <2>2
  <1> QED
    BY <1>2, <1>3, <1>4, <1>5, Writers

\* Whatever crashes, lapses or is run again, a client that submitted a read gets
\* one verdict, which never changes, and a success is the value that was stored.
THEOREM Implementation == Spec => Contract!Safety
  <1>1. Init => Contract!Init
    BY DEF Init, Contract!Init, Verdict, NoJob
  <1>2. IInv /\ ReportInv /\ [Next]_vars => [Contract!Next]_(Contract!vars)
    BY ContractStep
  <1> QED
    BY <1>1, <1>2, Invariance, ReportInvariance, PTL DEF Spec, Contract!Safety
=============================================================================
