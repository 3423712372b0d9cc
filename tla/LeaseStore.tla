----------------------------- MODULE LeaseStore -----------------------------
(***************************************************************************)
(* The lease of one mutation target, in the two stores a host may select:  *)
(* one SQLite transaction per operation, or files that are read, unlinked  *)
(* and created one call at a time.  The file store draws its fencing value *)
(* from a counter file that it stages beside and renames.                  *)
(*                                                                         *)
(* A call reads the clock once, before it asks for a lease: its lease      *)
(* begins then, and that is the time it compares a lease it finds with.    *)
(* Time is what is left of a lease.  A lease whose process died, or whose  *)
(* call returned, belongs to Gone: nobody holds its token any more.        *)
(***************************************************************************)
EXTENDS Naturals, FiniteSetsExt

CONSTANTS
    Owners,    \* concurrent calls of processes on one host
    Nobody,     \* no lease at all
    Gone,       \* the owner of a lease whose token is lost
    Backends,   \* the stores a run may select
    LeaseTtl    \* ttlMs of an acquired lease

ASSUME LeaseAssumption ==
    /\ Backends \subseteq {"sqlite", "local"}
    /\ LeaseTtl \in Nat \ {0}
    /\ Nobody \notin Owners /\ Gone \notin Owners /\ Nobody # Gone

VARIABLES
    backend,    \* execution.cloud.backend
    leaseRecord, \* the row, or the file
    counter,    \* the last fencing value: the row's, or that of the file
    staged,     \* value in fencing-counter.json, 0 when there is no such file
    at,         \* where a caller stands in an operation of the store
    mine,       \* the lease it was given, or is about to write
    stolen      \* history: a live lease was removed by another process

leaseVars == <<backend, leaseRecord, counter, staged, at, mine, stolen>>

NoRecord == [owner |-> Nobody, fence |-> 0, left |-> 0, written |-> FALSE]

Live(l) == l.owner # Nobody /\ l.left > 0

Step(c, s) == at' = [at EXCEPT ![c] = s]

\* The call reads the clock and asks.
Ask(c) ==
    /\ Step(c, "looking")
    /\ mine' = [mine EXCEPT ![c] = [fence |-> 0, left |-> LeaseTtl]]

\* A lease that ended since the call read the clock may still count as live.
MayCount(c) == Live(leaseRecord) \/ (leaseRecord.owner # Nobody /\ mine[c].left < LeaseTtl)

\* Either nothing, or the ended lease of a dead process.
LeaseInit(leftOver) ==
    /\ backend \in Backends
    /\ leaseRecord = IF leftOver THEN [NoRecord EXCEPT !.owner = Gone, !.fence = 1, !.written = TRUE]
                     ELSE NoRecord
    /\ counter = leaseRecord.fence
    /\ staged = 0
    /\ at = [c \in Owners |-> "out"]
    /\ mine = [c \in Owners |-> [fence |-> 0, left |-> 0]]
    /\ stolen = FALSE

-----------------------------------------------------------------------------
\* The SQLite store: a row that is over is taken with the next fence.
\* mutant: a row is taken over whether or not it is over
SqliteAcquireAny(c) ==
    /\ backend = "sqlite" /\ at[c] = "looking"
    /\ counter' = counter + 1
    /\ leaseRecord' = [owner |-> c, fence |-> counter + 1, left |-> mine[c].left, written |-> TRUE]
    /\ mine' = [mine EXCEPT ![c].fence = counter + 1]
    /\ stolen' = (stolen \/ Live(leaseRecord))
    /\ Step(c, "held")
    /\ UNCHANGED <<backend, staged>>

SqliteAcquire(c) ==
    /\ backend = "sqlite" /\ at[c] = "looking"
    /\ \/ /\ MayCount(c)
          /\ Step(c, "refused")
          /\ UNCHANGED <<leaseRecord, counter, mine>>
       \/ /\ ~Live(leaseRecord)
          /\ counter' = counter + 1
          /\ leaseRecord' = [owner |-> c, fence |-> counter + 1, left |-> mine[c].left, written |-> TRUE]
          /\ mine' = [mine EXCEPT ![c].fence = counter + 1]
          /\ Step(c, "held")
    /\ UNCHANGED <<backend, staged, stolen>>

\* The file store reads the lease file; a file that was created and not yet
\* written does not parse.
Look(c) ==
    /\ backend = "local" /\ at[c] = "looking"
    /\ \/ leaseRecord.owner # Nobody /\ ~leaseRecord.written /\ Step(c, "thrown")
       \/ leaseRecord.written /\ MayCount(c) /\ Step(c, "refused")
       \/ leaseRecord.written /\ ~Live(leaseRecord) /\ Step(c, "unlinking")
       \/ leaseRecord.owner = Nobody /\ Step(c, "counting")
    /\ mine' = [mine EXCEPT ![c].fence = leaseRecord.fence]
    /\ UNCHANGED <<backend, leaseRecord, counter, staged, stolen>>

\* It unlinks whatever file is there by now.
UnlinkExpired(c) ==
    /\ at[c] = "unlinking"
    /\ leaseRecord' = NoRecord
    /\ stolen' = (stolen \/ Live(leaseRecord))
    /\ Step(c, "counting")
    /\ UNCHANGED <<backend, counter, staged, mine>>

\* nextFencingValue: read the counter, ...
ReadCounter(c) ==
    /\ at[c] = "counting"
    /\ mine' = [mine EXCEPT ![c].fence = Max({counter, mine[c].fence}) + 1]
    /\ Step(c, "staging")
    /\ UNCHANGED <<backend, leaseRecord, counter, staged, stolen>>

\* ... write its successor beside it, ...
StageCounter(c) ==
    /\ at[c] = "staging"
    /\ staged' = mine[c].fence
    /\ Step(c, "committing")
    /\ UNCHANGED <<backend, leaseRecord, counter, mine, stolen>>

\* ... and rename: it is gone when another caller renamed it.
CommitCounter(c) ==
    /\ at[c] = "committing"
    /\ IF staged = 0
       THEN Step(c, "thrown") /\ UNCHANGED <<counter, staged>>
       ELSE Step(c, "creating") /\ counter' = staged /\ staged' = 0
    /\ UNCHANGED <<backend, leaseRecord, mine, stolen>>

\* writeFile with flag 'wx': exclusive creation, ...
CreateLease(c) ==
    /\ at[c] = "creating"
    /\ IF leaseRecord.owner = Nobody
       THEN Step(c, "filling") /\ leaseRecord' = [NoRecord EXCEPT !.owner = c]
       ELSE Step(c, "refused") /\ UNCHANGED leaseRecord
    /\ UNCHANGED <<backend, counter, staged, mine, stolen>>

\* ... then the content, which is lost with the file if that was unlinked.
FillLease(c) ==
    /\ at[c] = "filling"
    /\ leaseRecord' = IF leaseRecord.owner = c
                THEN [owner |-> c, fence |-> mine[c].fence, left |-> mine[c].left, written |-> TRUE]
                ELSE leaseRecord
    /\ Step(c, "held")
    /\ UNCHANGED <<backend, counter, staged, mine, stolen>>

AcquireStep(c) ==
    \/ SqliteAcquire(c)
    \/ Look(c) \/ UnlinkExpired(c)
    \/ ReadCounter(c) \/ StageCounter(c) \/ CommitCounter(c)
    \/ CreateLease(c) \/ FillLease(c)

\* What assertCurrent finds, of its owner and of its time.
Owns(c) == leaseRecord.owner = c /\ leaseRecord.written
CurrentLease(c) == Owns(c) /\ leaseRecord.left > 0

\* release: one transaction, or a read and an unlink.
SqliteRelease(c) ==
    /\ backend = "sqlite" /\ at[c] = "held"
    /\ leaseRecord' = IF Owns(c) THEN NoRecord ELSE leaseRecord
    /\ Step(c, "out")
    /\ UNCHANGED <<backend, counter, staged, mine, stolen>>

StartRelease(c) ==
    /\ backend = "local" /\ at[c] = "held"
    /\ Step(c, IF Owns(c) THEN "dropping" ELSE "out")
    /\ UNCHANGED <<backend, leaseRecord, counter, staged, mine, stolen>>

DropLease(c) ==
    /\ at[c] = "dropping"
    /\ leaseRecord' = NoRecord
    /\ stolen' = (stolen \/ (Live(leaseRecord) /\ leaseRecord.owner # c))
    /\ Step(c, "out")
    /\ UNCHANGED <<backend, counter, staged, mine>>

ReleaseStep(c) == SqliteRelease(c) \/ StartRelease(c) \/ DropLease(c)

\* The operation failed, and its caller with it.
GiveUp(c) ==
    /\ at[c] \in {"refused", "thrown"}
    /\ Step(c, "out")
    /\ UNCHANGED <<backend, leaseRecord, counter, staged, mine, stolen>>

\* A dead process leaves its files and rows as they are.
Forget(c) ==
    /\ leaseRecord' = IF leaseRecord.owner = c THEN [leaseRecord EXCEPT !.owner = Gone] ELSE leaseRecord
    /\ Step(c, "out")
    /\ UNCHANGED <<backend, counter, staged, mine, stolen>>

Less(n) == IF n = 0 THEN 0 ELSE n - 1

PassTime ==
    /\ leaseRecord' = [leaseRecord EXCEPT !.left = Less(@)]
    /\ mine' = [c \in Owners |-> [mine[c] EXCEPT !.left = Less(@)]]
    /\ UNCHANGED <<backend, counter, staged, at, stolen>>
=============================================================================
