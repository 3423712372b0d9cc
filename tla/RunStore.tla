------------------------------ MODULE RunStore ------------------------------
(***************************************************************************)
(* compareAndSet of one mutation run, in the two stores that keep runs.    *)
(* The SQLite store reads and writes the row in one transaction.  The      *)
(* local store creates a file beside the run that must not exist yet,      *)
(* reads the run, renames a new one over it and unlinks the file: four     *)
(* calls with those of other processes between them, and a process that    *)
(* dies among them leaves the file behind.                                 *)
(***************************************************************************)
EXTENDS Naturals

CONSTANTS
    Writers,        \* processes that read the run and store its successor
    RunBackends,    \* the stores a host may select
    MaxRunRevision, MaxWriterDeaths \* bounds

ASSUME RunStoreAssumption ==
    /\ RunBackends \subseteq {"sqlite", "local"}
    /\ MaxRunRevision \in Nat /\ MaxWriterDeaths \in Nat

VARIABLES
    runBackend,
    run,        \* revision of the stored run, 0 when there is none
    lockFile,   \* whether the .lock file is there
    writerStep,       \* where each writer stands
    expected,   \* the revision it read before, the expectedRevision of its call
    writerDeaths

runVars == <<runBackend, run, lockFile, writerStep, expected, writerDeaths>>

Steps == {"idle", "called", "reading", "writing", "unlinking"}
\* The writer holds the .lock file open.
Holds(w) == writerStep[w] \in {"reading", "writing", "unlinking"}

RunTypeOK ==
    /\ runBackend \in RunBackends
    /\ run \in Nat
    /\ lockFile \in BOOLEAN
    /\ writerStep \in [Writers -> Steps]
    /\ expected \in [Writers -> Nat]
    /\ writerDeaths \in Nat

RunInit ==
    /\ runBackend \in RunBackends
    /\ run = 0
    /\ lockFile = FALSE
    /\ writerStep = [w \in Writers |-> "idle"]
    /\ expected = [w \in Writers |-> 0]
    /\ writerDeaths = 0

Reach(w, s) == writerStep' = [writerStep EXCEPT ![w] = s]

\* get, and the call with the revision that was read plus one.
CallSet(w) ==
    /\ writerStep[w] = "idle"
    /\ run < MaxRunRevision
    /\ expected' = [expected EXCEPT ![w] = run]
    /\ Reach(w, "called")
    /\ UNCHANGED <<runBackend, run, lockFile, writerDeaths>>

\* The SQLite transaction, from BEGIN IMMEDIATE to COMMIT.
SetRow(w) ==
    /\ runBackend = "sqlite" /\ writerStep[w] = "called"
    /\ run' = IF run = expected[w] THEN expected[w] + 1 ELSE run
    /\ Reach(w, "idle")
    /\ UNCHANGED <<runBackend, lockFile, expected, writerDeaths>>

\* mutant: a file that exists is opened as well
OpenAnyLock(w) ==
    /\ runBackend = "local" /\ writerStep[w] = "called"
    /\ lockFile' = TRUE /\ Reach(w, "reading")
    /\ UNCHANGED <<runBackend, run, expected, writerDeaths>>

\* open with flag 'wx'; a file that exists is a conflict.
OpenLock(w) ==
    /\ runBackend = "local" /\ writerStep[w] = "called"
    /\ \/ ~lockFile /\ lockFile' = TRUE /\ Reach(w, "reading")
       \/ lockFile /\ UNCHANGED lockFile /\ Reach(w, "idle")
    /\ UNCHANGED <<runBackend, run, expected, writerDeaths>>

ReadRun(w) ==
    /\ writerStep[w] = "reading"
    /\ Reach(w, IF run = expected[w] THEN "writing" ELSE "unlinking")
    /\ UNCHANGED <<runBackend, run, lockFile, expected, writerDeaths>>

\* writeJsonAtomic: the rename, after the temporary file is written.
RenameRun(w) ==
    /\ writerStep[w] = "writing"
    /\ run' = expected[w] + 1
    /\ Reach(w, "unlinking")
    /\ UNCHANGED <<runBackend, lockFile, expected, writerDeaths>>

\* finally: close and unlink, also after a write that failed.
UnlinkLock(w) ==
    /\ writerStep[w] \in {"writing", "unlinking"}
    /\ lockFile' = FALSE
    /\ Reach(w, "idle")
    /\ UNCHANGED <<runBackend, run, expected, writerDeaths>>

DieWriting(w) ==
    /\ writerStep[w] # "idle"
    /\ writerDeaths < MaxWriterDeaths
    /\ writerDeaths' = writerDeaths + 1
    /\ Reach(w, "idle")
    /\ UNCHANGED <<runBackend, run, lockFile, expected>>

RunNext ==
    \E w \in Writers :
        \/ CallSet(w) \/ SetRow(w)
        \/ OpenLock(w) \/ ReadRun(w) \/ RenameRun(w) \/ UnlinkLock(w)
        \/ DieWriting(w)

RunSpec == RunInit /\ [][RunNext]_runVars

-----------------------------------------------------------------------------
\* What a writer compared its expected revision with is still the stored run
\* when it renames its own over it, whoever else calls or dies in between: of
\* the writers that read one revision at most one stores its successor.
ComparedRunStays == \A w \in Writers : writerStep[w] = "writing" => run = expected[w]
=============================================================================
