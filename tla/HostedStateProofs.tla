-------------------------- MODULE HostedStateProofs --------------------------
(***************************************************************************)
(* That the active version of a credential opens and that a version which  *)
(* was stored stays, for any operators, keys and number of versions; and   *)
(* that a schedule is leased exactly while it has the token of a claim and *)
(* has one occurrence and one job for each time that was due, for any      *)
(* schedulers, schedules and cadences.                                     *)
(***************************************************************************)
EXTENDS HostedCredentials, HostedScheduler, FiniteSetTheorems, TLAPS

Record == [revision : Nat, key : KeyIds, active : Nat, state : {"active", "revoked"}]
Row == [version : Nat, key : KeyIds, aad : Nat, by : Operators \cup {"creator"}]

SoundRecord(record) ==
    /\ record \in Record
    /\ record.state = "active" => record.active \in 1 .. MaxVersion
    /\ record.state = "revoked" => record.active = 0

\* What an operator is about to store: a version sealed for the record beside it.
SoundSealing(sealing, o) ==
    sealing # NotSealed =>
        /\ SoundRecord(sealing.record) /\ sealing.record.state = "active"
        /\ sealing.row = Seal(sealing.record, sealing.record.active, o)

\* The versions: one row each, none above the active one, which opens.
SoundVersions(record, rows) ==
    /\ rows \subseteq Row
    /\ \A r, s \in rows : r.version = s.version => r = s
    /\ record.state = "active" =>
        /\ \A r \in rows : r.version <= record.active
        /\ \E r \in rows : r.version = record.active /\ r.key = record.key /\ r.aad = record.active

CredentialIndInv ==
    /\ SoundRecord(credential)
    /\ SoundVersions(credential, versions)
    /\ copy \in [Operators -> Record]
    /\ \A o \in Operators : SoundRecord(copy[o]) /\ copy[o].revision <= credential.revision
    /\ DOMAIN sealed = Operators /\ sealed = [o \in Operators |-> sealed[o]]
    /\ \A o \in Operators : SoundSealing(sealed[o], o)
    /\ \A k \in kept : \E r \in versions : r.version = k[1] /\ r.by = k[2]

LEMMA CredentialInitInv == CredentialInit => CredentialIndInv
<1> SUFFICES ASSUME CredentialInit PROVE CredentialIndInv
  OBVIOUS
<1>1. PICK k \in KeyIds :
        /\ credential = [revision |-> 1, key |-> k, active |-> 1, state |-> "active"]
        /\ versions = {Seal(credential, 1, "creator")}
        /\ copy = [o \in Operators |-> credential]
        /\ sealed = [o \in Operators |-> NotSealed]
        /\ kept = {}
  BY DEF CredentialInit
<1>2. SoundRecord(credential)
  BY <1>1, CredentialAssumption DEF SoundRecord, Record
<1>3. SoundVersions(credential, versions)
  BY <1>1 DEF SoundVersions, Row, Seal
<1>4. \A o \in Operators : SoundRecord(copy[o]) /\ copy[o].revision <= credential.revision
  BY <1>1, <1>2 DEF SoundRecord, Record
<1>5. copy \in [Operators -> Record]
  BY <1>1, <1>2 DEF SoundRecord
<1> QED
  BY <1>1, <1>2, <1>3, <1>4, <1>5 DEF CredentialIndInv, SoundSealing

LEMMA ReadInv ==
    ASSUME CredentialIndInv, NEW o \in Operators, ReadCredential(o)
    PROVE  CredentialIndInv'
<1>1. credential.revision \in Nat /\ credential \in Record
  BY DEF CredentialIndInv, SoundRecord, Record
<1>2. copy' \in [Operators -> Record] /\ copy'[o] = credential /\ \A p \in Operators \ {o} : copy'[p] = copy[p]
  BY <1>1 DEF CredentialIndInv, ReadCredential
<1>3. \A p \in Operators : SoundRecord(copy'[p]) /\ copy'[p].revision <= credential.revision
  BY <1>1, <1>2 DEF CredentialIndInv
<1> QED
  BY <1>2, <1>3 DEF CredentialIndInv, ReadCredential, SoundRecord, SoundVersions, SoundSealing

LEMMA SealInv ==
    ASSUME CredentialIndInv, NEW o \in Operators, NEW k \in KeyIds, SealVersion(o, k)
    PROVE  CredentialIndInv'
<1> DEFINE record == [copy[o] EXCEPT !.revision = @ + 1, !.key = k, !.active = @ + 1]
           sealing == [record |-> record, row |-> Seal(record, record.active, o)]
<1>1. copy[o] \in Record /\ copy[o].state = "active" /\ copy[o].active \in 1 .. MaxVersion /\ copy[o].active < MaxVersion
  BY DEF CredentialIndInv, SoundRecord, SealVersion
<1>2. record \in Record /\ record.state = "active" /\ record.active = copy[o].active + 1 /\ record.active \in 1 .. MaxVersion
  <2>1. copy[o].revision + 1 \in Nat /\ copy[o].active + 1 \in 1 .. MaxVersion /\ copy[o].active + 1 \in Nat
    BY <1>1, CredentialAssumption DEF Record
  <2>2. PICK r \in Record, revision \in Nat, active \in Nat :
           r = copy[o] /\ revision = r.revision + 1 /\ active = r.active + 1
    BY <1>1, <2>1
  <2>3. record = [r EXCEPT !.revision = revision, !.key = k, !.active = active]
    BY <2>2
  <2> HIDE DEF record, sealing
  <2>4. record \in Record /\ record.active = active /\ record.revision = revision /\ record.state = r.state
    BY <2>3 DEF Record
  <2> QED
    BY <1>1, <2>1, <2>2, <2>4
<1>3. SoundSealing(sealing, o)
  BY <1>2 DEF SoundSealing, SoundRecord
<1>4. sealed' = [sealed EXCEPT ![o] = sealing]
  BY <1>1 DEF SealVersion, Record
<1> HIDE DEF sealing
<1>5. DOMAIN sealed' = Operators /\ sealed' = [p \in Operators |-> sealed'[p]]
      /\ sealed'[o] = sealing /\ \A p \in Operators \ {o} : sealed'[p] = sealed[p]
  BY <1>4 DEF CredentialIndInv
<1>6. \A p \in Operators : SoundSealing(sealed'[p], p)
  BY <1>3, <1>5 DEF CredentialIndInv
<1> QED
  BY <1>5, <1>6 DEF CredentialIndInv, SealVersion, SoundRecord, SoundVersions, SoundSealing

\* A version that is stored: its number is above that of any other.
LEMMA StoredVersion ==
    ASSUME CredentialIndInv, NEW o \in Operators, SoundSealing(sealed[o], o), sealed[o] # NotSealed,
           NEW record, NEW row, record = sealed[o].record, row = sealed[o].row, ~Conflicts(record, row),
           NEW next, next = [credential EXCEPT !.revision = record.revision, !.key = record.key, !.active = record.active]
    PROVE  /\ SoundRecord(next) /\ next.revision = credential.revision + 1 /\ record.revision = next.revision
           /\ SoundVersions(next, versions \cup {row})
           /\ row.by = o
<1>1. /\ record \in Record /\ record.active \in 1 .. MaxVersion
      /\ row = [version |-> record.active, key |-> record.key, aad |-> record.active, by |-> o]
  BY DEF SoundSealing, SoundRecord, Seal
<1>2. credential \in Record /\ credential.state = "active" /\ credential.revision = record.revision - 1
      /\ record.active = credential.active + 1 /\ \A other \in versions : other.version # row.version
  BY DEF CredentialIndInv, SoundRecord, Conflicts
<1>3. /\ next \in Record /\ next.state = "active" /\ next.revision = record.revision
      /\ next.key = record.key /\ next.active = record.active
  BY <1>1, <1>2 DEF Record
<1>4. record.revision \in Nat /\ credential.revision \in Nat /\ record.active \in Nat /\ credential.active \in Nat
  BY <1>1, <1>2 DEF Record
<1>5. SoundRecord(next)
  BY <1>1, <1>3 DEF SoundRecord
<1>6. versions \subseteq Row /\ row \in Row
  BY <1>1 DEF CredentialIndInv, SoundVersions, Row, Record
<1>7. \A r \in versions : r.version <= credential.active /\ r.version \in Nat
  BY <1>2, <1>6 DEF CredentialIndInv, SoundVersions, Row
<1>8. \A r \in versions \cup {row} : r.version <= next.active
  BY <1>1, <1>2, <1>3, <1>4, <1>7
<1>9. \A r, s \in versions \cup {row} : r.version = s.version => r = s
  BY <1>2 DEF CredentialIndInv, SoundVersions
<1>10. SoundVersions(next, versions \cup {row})
  BY <1>1, <1>3, <1>6, <1>8, <1>9 DEF SoundVersions
<1> QED
  BY <1>1, <1>2, <1>3, <1>4, <1>5, <1>10

LEMMA RotateInv ==
    ASSUME CredentialIndInv, NEW o \in Operators, Rotate(o)
    PROVE  CredentialIndInv'
<1> DEFINE record == sealed[o].record
           row == sealed[o].row
           next == [credential EXCEPT !.revision = record.revision, !.key = record.key, !.active = record.active]
<1>1. sealed[o] # NotSealed /\ SoundSealing(sealed[o], o) /\ SoundRecord(record) /\ record \in Record
  BY DEF CredentialIndInv, Rotate, SoundSealing, SoundRecord
<1>2. DOMAIN sealed' = Operators /\ sealed' = [p \in Operators |-> sealed'[p]]
      /\ sealed'[o] = NotSealed /\ \A p \in Operators \ {o} : sealed'[p] = sealed[p]
  BY DEF CredentialIndInv, Rotate
<1>3. \A p \in Operators : SoundSealing(sealed'[p], p)
  BY <1>2 DEF CredentialIndInv, SoundSealing
<1>4. CASE Conflicts(record, row)
  <2>1. UNCHANGED <<credential, versions, copy, kept>>
    BY <1>4 DEF Rotate
  <2> QED
    BY <1>2, <1>3, <2>1 DEF CredentialIndInv, SoundRecord, SoundVersions, SoundSealing
<1>5. CASE ~Conflicts(record, row)
  <2>1. /\ versions' = versions \cup {row} /\ credential' = next
        /\ \/ copy' = [copy EXCEPT ![o] = record] /\ kept' = kept \cup {<<row.version, o>>}
           \/ UNCHANGED <<copy, kept>>
    BY <1>5 DEF Rotate
  <2>2. /\ SoundRecord(next) /\ next.revision = credential.revision + 1 /\ record.revision = next.revision
        /\ SoundVersions(next, versions \cup {row})
        /\ row.by = o
    BY <1>1, <1>5, StoredVersion
  <2>3. \A p \in Operators : copy[p].revision \in Nat /\ copy[p].revision <= credential.revision /\ credential.revision \in Nat
    BY DEF CredentialIndInv, SoundRecord, Record
  <2>4. /\ copy' \in [Operators -> Record]
        /\ \A p \in Operators : copy'[p] = copy[p] \/ copy'[p] = record
    BY <1>1, <2>1 DEF CredentialIndInv
  <2> HIDE DEF next, record, row
  <2>5. \A p \in Operators : SoundRecord(copy'[p]) /\ copy'[p].revision <= next.revision
    <3> SUFFICES ASSUME NEW p \in Operators PROVE SoundRecord(copy'[p]) /\ copy'[p].revision <= next.revision
      OBVIOUS
    <3>1. CASE copy'[p] = record
      BY <1>1, <2>2, <2>3, <3>1
    <3>2. CASE copy'[p] = copy[p]
      BY <2>2, <2>3, <3>2 DEF CredentialIndInv
    <3> QED
      BY <2>4, <3>1, <3>2
  <2>6. \A k \in kept' : \E r \in versions' : r.version = k[1] /\ r.by = k[2]
    <3> SUFFICES ASSUME NEW k \in kept' PROVE \E r \in versions' : r.version = k[1] /\ r.by = k[2]
      OBVIOUS
    <3>1. CASE k \in kept
      BY <2>1, <3>1 DEF CredentialIndInv
    <3>2. CASE k = <<row.version, o>>
      BY <2>1, <2>2, <3>2
    <3> QED
      BY <2>1, <3>1, <3>2
  <2>7. SoundRecord(credential') /\ SoundVersions(credential', versions')
        /\ \A p \in Operators : SoundRecord(copy'[p]) /\ copy'[p].revision <= credential'.revision
    BY <2>1, <2>2, <2>5
  <2> QED
    BY <1>2, <1>3, <2>4, <2>6, <2>7 DEF CredentialIndInv, SoundRecord, SoundVersions, SoundSealing
<1> QED
  BY <1>4, <1>5

LEMMA RevokeInv ==
    ASSUME CredentialIndInv, NEW o \in Operators, Revoke(o)
    PROVE  CredentialIndInv'
<1> DEFINE next == [credential EXCEPT !.revision = @ + 1, !.state = "revoked", !.active = 0]
<1>1. credential \in Record /\ credential.revision \in Nat
  BY DEF CredentialIndInv, SoundRecord, Record
<1>2. credential' = next /\ copy' = [copy EXCEPT ![o] = next] /\ UNCHANGED <<versions, sealed, kept>>
  BY DEF Revoke
<1>3. next \in Record /\ next.state = "revoked" /\ next.active = 0 /\ next.revision = credential.revision + 1
  <2>1. credential.revision + 1 \in Nat /\ 0 \in Nat /\ credential.key \in KeyIds
    BY <1>1 DEF Record
  <2>2. PICK r \in Record, revision \in Nat, active \in Nat : r = credential /\ revision = r.revision + 1 /\ active = 0
    BY <1>1, <2>1
  <2>3. next = [r EXCEPT !.revision = revision, !.state = "revoked", !.active = active]
    BY <2>2
  <2> HIDE DEF next
  <2>4. next \in Record /\ next.active = active /\ next.revision = revision /\ next.state = "revoked"
    BY <2>3 DEF Record
  <2> QED
    BY <2>2, <2>4
<1> HIDE DEF next
<1>4. SoundRecord(next) /\ SoundVersions(next, versions)
  BY <1>3 DEF SoundRecord, CredentialIndInv, SoundVersions
<1>5. copy' \in [Operators -> Record] /\ copy'[o] = next /\ \A p \in Operators \ {o} : copy'[p] = copy[p]
  BY <1>2, <1>3 DEF CredentialIndInv
<1>6. \A p \in Operators : copy[p].revision \in Nat /\ copy[p].revision <= credential.revision
  BY DEF CredentialIndInv, SoundRecord, Record
<1>7. \A p \in Operators : SoundRecord(copy'[p]) /\ copy'[p].revision <= next.revision
  BY <1>1, <1>3, <1>4, <1>5, <1>6 DEF CredentialIndInv
<1> QED
  BY <1>2, <1>4, <1>5, <1>7 DEF CredentialIndInv, SoundRecord, SoundVersions, SoundSealing

LEMMA CredentialStepInv == CredentialIndInv /\ [CredentialNext]_credentialVars => CredentialIndInv'
<1> SUFFICES ASSUME CredentialIndInv, [CredentialNext]_credentialVars PROVE CredentialIndInv'
  OBVIOUS
<1>1. CASE UNCHANGED credentialVars
  BY <1>1 DEF credentialVars, CredentialIndInv, SoundRecord, SoundVersions, SoundSealing
<1>2. ASSUME NEW o \in Operators, ReadCredential(o) PROVE CredentialIndInv'
  BY <1>2, ReadInv
<1>3. ASSUME NEW o \in Operators, NEW k \in KeyIds, SealVersion(o, k) PROVE CredentialIndInv'
  BY <1>3, SealInv
<1>4. ASSUME NEW o \in Operators, Rotate(o) PROVE CredentialIndInv'
  BY <1>4, RotateInv
<1>5. ASSUME NEW o \in Operators, Revoke(o) PROVE CredentialIndInv'
  BY <1>5, RevokeInv
<1> QED
  BY <1>1, <1>2, <1>3, <1>4, <1>5 DEF CredentialNext

\* The record is active with a version or revoked without one, and no operator
\* holds a later revision than the store.
THEOREM CredentialTypeCorrect == CredentialSpec => []CredentialTypeOK
<1>1. CredentialIndInv => CredentialTypeOK
  BY DEF CredentialIndInv, CredentialTypeOK, SoundRecord
<1> QED
  BY <1>1, CredentialInitInv, CredentialStepInv, PTL DEF CredentialSpec

\* Whatever operators rotate or revoke from stale copies, and whatever answers are
\* lost: the version that a worker is given is one row which opens under the key
\* and the additional data it will use, and no stored version is replaced.
THEOREM ActiveOpens == CredentialSpec => []ActiveVersionOpens
<1>1. CredentialIndInv => ActiveVersionOpens
  <2> SUFFICES ASSUME CredentialIndInv PROVE ActiveVersionOpens
    OBVIOUS
  <2>1. \A k \in kept : {row.by : row \in {r \in versions : r.version = k[1]}} = {k[2]}
    <3> SUFFICES ASSUME NEW k \in kept PROVE {row.by : row \in {r \in versions : r.version = k[1]}} = {k[2]}
      OBVIOUS
    <3>1. PICK r \in versions : r.version = k[1] /\ r.by = k[2]
      BY DEF CredentialIndInv
    <3>2. \A s \in versions : s.version = k[1] => s = r
      BY <3>1 DEF CredentialIndInv, SoundVersions
    <3> QED
      BY <3>1, <3>2
  <2>2. ASSUME credential.state = "active"
        PROVE  /\ Cardinality(Found(credential.active)) = 1
               /\ \A row \in Found(credential.active) : Opens(row, credential.active)
               /\ \A k \in kept : k[1] <= credential.active
    <3>1. PICK r \in versions : r.version = credential.active /\ r.key = credential.key /\ r.aad = credential.active
      BY <2>2 DEF CredentialIndInv, SoundVersions
    <3>2. Found(credential.active) = {r}
      BY <2>2, <3>1 DEF Found, CredentialIndInv, SoundVersions
    <3>3. Cardinality(Found(credential.active)) = 1
      BY <3>2, FS_Singleton
    <3>4. \A k \in kept : k[1] <= credential.active
      BY <2>2 DEF CredentialIndInv, SoundVersions
    <3> QED
      BY <3>1, <3>2, <3>3, <3>4 DEF Opens
  <2> QED
    BY <2>1, <2>2 DEF ActiveVersionOpens
<1> QED
  BY <1>1, CredentialInitInv, CredentialStepInv, PTL DEF CredentialSpec

-----------------------------------------------------------------------------
ScheduleRow == [revision : Nat, nextDueAt : Nat, token : Nat, expires : Nat]
Claim == [id : Schedules, revision : Nat, dueAt : Nat, token : Nat \ {0}]
Duties == {"down", "polling", "recovering", "claiming", "materializing"}

SoundRow(row, n) == row \in ScheduleRow /\ row.token <= n /\ (row.token = 0 <=> row.expires = 0)

SchedulerIndInv ==
    /\ clock \in Nat /\ claims \in Nat
    /\ schedule = [s \in Schedules |-> schedule[s]] /\ \A s \in Schedules : SoundRow(schedule[s], claims)
    /\ duty \in [Schedulers -> Duties] /\ claimedAt \in [Schedulers -> Nat] /\ claim \in [Schedulers -> Claim \cup {NoClaim}]
    /\ \A p \in Schedulers : claimedAt[p] <= clock /\ (duty[p] = "materializing" => claim[p] \in Claim)

LEMMA SchedulerInitInv == SchedulerInit => SchedulerIndInv
  BY DEF SchedulerInit, SchedulerIndInv, SoundRow, ScheduleRow, Duties, Unclaimed

LEMMA UnclaimedRow ==
    ASSUME NEW n \in Nat, NEW row, SoundRow(row, n), NEW s \in Schedules
    PROVE  SoundRow(Unclaim(row), n) /\ SoundRow(Advanced(row, s), n)
<1>1. row \in ScheduleRow /\ Cadence[s] \in Nat
  BY SchedulerAssumption DEF SoundRow
<1>2. /\ Unclaim(row) \in ScheduleRow /\ Unclaim(row).token = 0 /\ Unclaim(row).expires = 0
      /\ Unclaim(row).revision = row.revision /\ Unclaim(row).nextDueAt = row.nextDueAt
  BY <1>1 DEF Unclaim, ScheduleRow, Unclaimed
<1>3. SoundRow(Unclaim(row), n)
  BY <1>2 DEF SoundRow
<1>4. PICK r \in ScheduleRow, revision \in Nat, due \in Nat :
         r = Unclaim(row) /\ revision = r.revision + 1 /\ due = r.nextDueAt + Cadence[s]
  BY <1>1, <1>2 DEF ScheduleRow
<1>5. Advanced(row, s) = [r EXCEPT !.revision = revision, !.nextDueAt = due]
  BY <1>4 DEF Advanced
<1>6. Advanced(row, s) \in ScheduleRow /\ Advanced(row, s).token = r.token /\ Advanced(row, s).expires = r.expires
  BY <1>5 DEF ScheduleRow
<1> QED
  BY <1>2, <1>3, <1>4, <1>6 DEF SoundRow

\* An occurrence is recorded, for a claim.
LEMMA RecordedRows ==
    ASSUME SchedulerIndInv, NEW c \in Claim, RecordOccurrence(c)
    PROVE  schedule' = [s \in Schedules |-> schedule'[s]] /\ \A s \in Schedules : SoundRow(schedule'[s], claims)
<1>1. c.id \in Schedules
  BY DEF Claim
<1>2. SoundRow(Advanced(schedule[c.id], c.id), claims)
  BY <1>1, UnclaimedRow DEF SchedulerIndInv
<1>3. schedule' = [schedule EXCEPT ![c.id] = Advanced(schedule[c.id], c.id)]
  BY DEF RecordOccurrence
<1>4. /\ schedule' = [s \in Schedules |-> schedule'[s]]
      /\ schedule'[c.id] = Advanced(schedule[c.id], c.id)
      /\ \A s \in Schedules \ {c.id} : schedule'[s] = schedule[s]
  BY <1>1, <1>3 DEF SchedulerIndInv
<1> QED
  BY <1>2, <1>4 DEF SchedulerIndInv

LEMMA ClaimDueInv ==
    ASSUME SchedulerIndInv, NEW p \in Schedulers, ClaimDue(p)
    PROVE  SchedulerIndInv'
<1>1. CASE Turn(p, "polling") /\ UNCHANGED <<schedule, claim, claims>>
  BY <1>1 DEF SchedulerIndInv, ClaimDue, Turn, Duties, SoundRow
<1>2. ASSUME NEW s \in DueRows(claimedAt[p]),
             claims' = claims + 1,
             schedule' = [schedule EXCEPT ![s].token = claims + 1, ![s].expires = claimedAt[p] + LeaseMs],
             claim' = [claim EXCEPT ![p] = [id |-> s, revision |-> schedule[s].revision,
                                            dueAt |-> schedule[s].nextDueAt, token |-> claims + 1]],
             Turn(p, "materializing")
      PROVE  SchedulerIndInv'
  <2>1. s \in Schedules /\ schedule[s] \in ScheduleRow /\ claimedAt[p] + LeaseMs \in Nat \ {0} /\ claims + 1 \in Nat \ {0}
    BY SchedulerAssumption DEF SchedulerIndInv, SoundRow, DueRows
  <2>2. PICK r \in ScheduleRow, token \in Nat \ {0}, expires \in Nat \ {0} :
           r = schedule[s] /\ token = claims + 1 /\ expires = claimedAt[p] + LeaseMs
    BY <2>1
  <2>3. [r EXCEPT !.token = token, !.expires = expires] \in ScheduleRow
        /\ [r EXCEPT !.token = token, !.expires = expires].token = token
        /\ [r EXCEPT !.token = token, !.expires = expires].expires = expires
    BY DEF ScheduleRow
  <2>4. schedule' = [schedule EXCEPT ![s] = [r EXCEPT !.token = token, !.expires = expires]]
    BY <1>2, <2>1, <2>2 DEF SchedulerIndInv
  <2>5. /\ schedule' = [q \in Schedules |-> schedule'[q]]
        /\ schedule'[s] = [r EXCEPT !.token = token, !.expires = expires]
        /\ \A q \in Schedules \ {s} : schedule'[q] = schedule[q]
    BY <2>1, <2>4 DEF SchedulerIndInv
  <2>6. \A q \in Schedules : SoundRow(schedule'[q], claims')
    <3>1. SoundRow(schedule'[s], claims')
      <4>1. schedule'[s] \in ScheduleRow /\ schedule'[s].token = token /\ schedule'[s].expires = expires
        BY <2>3, <2>5
      <4> QED
        BY <1>2, <2>2, <4>1 DEF SoundRow
    <3>2. ASSUME NEW q \in Schedules \ {s} PROVE SoundRow(schedule'[q], claims')
      <4>1. SoundRow(schedule[q], claims) /\ schedule[q].token \in Nat
        BY DEF SchedulerIndInv, SoundRow, ScheduleRow
      <4> QED
        BY <1>2, <2>5, <4>1 DEF SoundRow, SchedulerIndInv
    <3> QED
      BY <3>1, <3>2
  <2>7. [id |-> s, revision |-> schedule[s].revision, dueAt |-> schedule[s].nextDueAt, token |-> claims + 1] \in Claim
    BY <2>1 DEF Claim, ScheduleRow
  <2>8. /\ claim' \in [Schedulers -> Claim \cup {NoClaim}] /\ claim'[p] \in Claim
        /\ \A q \in Schedulers \ {p} : claim'[q] = claim[q]
    BY <1>2, <2>7 DEF SchedulerIndInv
  <2>9. /\ clock' = clock /\ claimedAt' = claimedAt /\ claims' \in Nat
        /\ duty' \in [Schedulers -> Duties] /\ \A q \in Schedulers \ {p} : duty'[q] = duty[q]
    BY <1>2, <2>1 DEF SchedulerIndInv, ClaimDue, Turn, Duties
  <2> QED
    BY <2>5, <2>6, <2>8, <2>9 DEF SchedulerIndInv
<1> QED
  BY <1>1, <1>2 DEF ClaimDue

LEMMA SchedulerStepInv == SchedulerIndInv /\ [SchedulerNext]_schedulerVars => SchedulerIndInv'
<1> SUFFICES ASSUME SchedulerIndInv, [SchedulerNext]_schedulerVars PROVE SchedulerIndInv'
  OBVIOUS
<1>1. CASE UNCHANGED schedulerVars
  BY <1>1 DEF schedulerVars, schedulerLocal, SchedulerIndInv, SoundRow
<1>2. CASE PassSchedulerTime
  BY <1>2 DEF PassSchedulerTime, schedulerLocal, SchedulerIndInv, SoundRow
<1>3. ASSUME NEW p \in Schedulers, StartWork(p) PROVE SchedulerIndInv'
  BY <1>3 DEF StartWork, Turn, Duties, SchedulerIndInv, SoundRow
<1>4. ASSUME NEW p \in Schedulers, RecoverSchedules(p) PROVE SchedulerIndInv'
  <2>1. PICK some \in SUBSET Schedules :
           schedule' = [s \in Schedules |-> IF s \in some THEN Unclaim(schedule[s]) ELSE schedule[s]]
    BY <1>4 DEF RecoverSchedules
  <2>2. \A s \in Schedules : SoundRow(schedule'[s], claims)
    <3> SUFFICES ASSUME NEW s \in Schedules PROVE SoundRow(schedule'[s], claims)
      OBVIOUS
    <3>1. SoundRow(Unclaim(schedule[s]), claims) /\ SoundRow(schedule[s], claims)
      BY UnclaimedRow DEF SchedulerIndInv
    <3> QED
      BY <2>1, <3>1
  <2>3. schedule' = [s \in Schedules |-> schedule'[s]]
    BY <2>1
  <2> QED
    BY <1>4, <2>2, <2>3 DEF RecoverSchedules, Turn, Duties, SchedulerIndInv
<1>5. ASSUME NEW p \in Schedulers, ClaimDue(p) PROVE SchedulerIndInv'
  BY <1>5, ClaimDueInv
<1>6. ASSUME NEW p \in Schedulers, Materialize(p) \/ FailScheduler(p) PROVE SchedulerIndInv'
  <2>1. schedule' = [s \in Schedules |-> schedule'[s]] /\ \A s \in Schedules : SoundRow(schedule'[s], claims)
    <3>1. CASE UNCHANGED schedule
      BY <3>1 DEF SchedulerIndInv
    <3>2. CASE duty[p] = "materializing" /\ RecordOccurrence(claim[p])
      BY <3>2, RecordedRows DEF SchedulerIndInv
    <3> QED
      BY <1>6, <3>1, <3>2 DEF Materialize, FailScheduler
  <2>2. /\ claim' = [claim EXCEPT ![p] = NoClaim] /\ UNCHANGED <<clock, claimedAt, claims>>
        /\ Turn(p, "polling") \/ Turn(p, "down")
    BY <1>6 DEF Materialize, FailScheduler
  <2> QED
    BY <2>1, <2>2 DEF Turn, Duties, SchedulerIndInv
<1>7. ASSUME NEW p \in Schedulers, RestartScheduler(p) PROVE SchedulerIndInv'
  BY <1>7 DEF RestartScheduler, Turn, Duties, SchedulerIndInv, SoundRow
<1> QED
  BY <1>1, <1>2, <1>3, <1>4, <1>5, <1>6, <1>7 DEF SchedulerNext, WorkOnce

\* A schedule has a token that was given exactly while it has an expiry, and a
\* scheduler that materializes has a claim of a time it read before.
THEOREM SchedulerTypeCorrect == SchedulerSpec => []SchedulerTypeOK
<1>1. SchedulerIndInv => SchedulerTypeOK
  BY DEF SchedulerIndInv, SchedulerTypeOK, SoundRow, ScheduleRow, Claim, Duties, Unclaimed
<1> QED
  BY <1>1, SchedulerInitInv, SchedulerStepInv, PTL DEF SchedulerSpec

-----------------------------------------------------------------------------
\* A row has come as many cadences past its first time as it was materialized,
\* and what is being materialized was due.
RowExact(row, s) == row.revision \in Nat \ {0} /\ row.nextDueAt = 1 + Cadence[s] * (row.revision - 1)

ScheduleExact ==
    /\ clock <= MaxClock
    /\ \A s \in Schedules : RowExact(schedule[s], s)
    /\ \A p \in Schedulers : duty[p] = "materializing" => claim[p].dueAt <= clock
    /\ OccurrencesExact

\* The remainder of a number that is written with a quotient.
LEMMA Remainder ==
    ASSUME NEW n \in Nat, NEW k \in Nat \ {0}, NEW q \in Nat, NEW r \in 0 .. k - 1, n = k * q + r
    PROVE  n % k = r
  BY SMTT(20)

\* What DueTimes is, for a next time and a cadence.
TimesBefore(due, k) == {d \in 1 .. MaxClock : d < due /\ (d - 1) % k = 0}

\* The due times up to the row's next time and the one after it differ in one.
LEMMA OneMoreTime ==
    ASSUME NEW k \in Nat \ {0}, NEW n \in Nat \ {0}, NEW due \in Nat, due = 1 + k * (n - 1), due <= MaxClock
    PROVE  /\ TimesBefore(due + k, k) = TimesBefore(due, k) \cup {due} /\ due \notin TimesBefore(due, k)
           /\ Cardinality(TimesBefore(due + k, k)) = Cardinality(TimesBefore(due, k)) + 1
           /\ due + k = 1 + k * n
<1> DEFINE before == TimesBefore(due, k)
           after == TimesBefore(due + k, k)
<1>1. MaxClock \in Nat /\ k \in Nat /\ n - 1 \in Nat /\ k * (n - 1) \in Nat
  BY SchedulerAssumption
<1>2. due \in 1 .. MaxClock /\ due < due + k /\ (due - 1) % k = 0
  <2>1. due - 1 \in Nat /\ due - 1 = k * (n - 1) + 0 /\ 0 \in 0 .. k - 1
    BY <1>1
  <2>2. (due - 1) % k = 0
    BY <1>1, <2>1, Remainder
  <2> QED
    BY <1>1, <2>2
<1>3. ASSUME NEW d \in after PROVE d < due \/ d = due
  <2>1. SUFFICES ASSUME d > due PROVE FALSE
    BY <1>1, <1>3 DEF TimesBefore
  <2>2. PICK r \in 0 .. k - 1 : r = d - due /\ r # 0
    BY <1>1, <1>3, <2>1 DEF TimesBefore
  <2>3. d - 1 \in Nat /\ d - 1 = k * (n - 1) + r
    BY <1>1, <1>3, <2>1, <2>2 DEF TimesBefore
  <2>4. (d - 1) % k = r
    BY <1>1, <2>3, Remainder
  <2> QED
    BY <1>3, <2>2, <2>4 DEF TimesBefore
<1>4. after = before \cup {due} /\ due \notin before
  <2>1. ASSUME NEW d \in after PROVE d \in before \cup {due}
    BY <1>1, <1>3, <2>1 DEF TimesBefore
  <2>2. ASSUME NEW d \in before PROVE d \in after /\ d # due
    BY <1>1, <2>2 DEF TimesBefore
  <2>3. due \in after
    BY <1>1, <1>2 DEF TimesBefore
  <2> QED
    BY <2>1, <2>2, <2>3
<1>5. IsFiniteSet(before)
  <2>1. IsFiniteSet(1 .. MaxClock)
    BY <1>1, FS_Interval
  <2>2. before \subseteq 1 .. MaxClock
    BY DEF TimesBefore
  <2> QED
    BY <2>1, <2>2, FS_Subset
<1> HIDE DEF before, after
<1>6. Cardinality(after) = Cardinality(before) + 1
  BY <1>4, <1>5, FS_AddElement
<1>7. due + k = 1 + k * n
  BY <1>1
<1> QED
  BY <1>4, <1>6, <1>7 DEF before, after

LEMMA ScheduleInitExact == SchedulerInit => ScheduleExact
<1> SUFFICES ASSUME SchedulerInit PROVE ScheduleExact
  OBVIOUS
<1>1. MaxClock \in Nat \ {0} /\ \A s \in Schedules : Cadence[s] \in Nat
  BY SchedulerAssumption
<1>2. \A s \in Schedules : schedule[s].revision = 1 /\ schedule[s].nextDueAt = 1
  BY DEF SchedulerInit
<1>3. \A s \in Schedules : DueTimes(s) = {}
  BY <1>1, <1>2 DEF DueTimes
<1>4. OccurrencesExact
  <2>1. \A s \in Schedules : Cardinality(DueTimes(s)) = 0 /\ {<<s, d>> : d \in DueTimes(s)} = {}
    BY <1>3, FS_EmptySet
  <2>2. UNION {{<<s, d>> : d \in DueTimes(s)} : s \in Schedules} = {}
    BY <2>1
  <2>3. \A s \in Schedules : schedule[s].revision = Cardinality(DueTimes(s)) + 1
    BY <1>2, <2>1
  <2> QED
    BY <2>2, <2>3 DEF OccurrencesExact, SchedulerInit
<1>5. \A s \in Schedules : RowExact(schedule[s], s)
  <2>1. \A s \in Schedules : Cadence[s] * (1 - 1) = 0
    BY <1>1
  <2> QED
    BY <1>2, <2>1 DEF RowExact
<1> QED
  BY <1>1, <1>4, <1>5 DEF ScheduleExact, SchedulerInit

\* Steps that record no occurrence leave what is exact of the rows as it is.
LEMMA RowsKept ==
    ASSUME ScheduleExact, UNCHANGED <<occurrences, admitted>>,
           \A s \in Schedules : schedule'[s].revision = schedule[s].revision /\ schedule'[s].nextDueAt = schedule[s].nextDueAt
    PROVE  OccurrencesExact' /\ \A s \in Schedules : RowExact(schedule'[s], s)
<1>1. \A s \in Schedules : DueTimes(s)' = DueTimes(s)
  BY DEF DueTimes
<1> QED
  BY <1>1 DEF ScheduleExact, OccurrencesExact, RowExact

LEMMA RecordedExact ==
    ASSUME SchedulerIndInv, ScheduleExact, NEW c \in Claim, Claimed(c), c.dueAt <= clock, RecordOccurrence(c)
    PROVE  OccurrencesExact' /\ \A s \in Schedules : RowExact(schedule'[s], s)
<1> DEFINE s == c.id
           due == schedule[s].nextDueAt
           n == schedule[s].revision
<1>1. /\ s \in Schedules /\ c.dueAt = due /\ due \in Nat /\ n \in Nat \ {0} /\ due <= MaxClock
      /\ Cadence[s] \in Nat \ {0} /\ due = 1 + Cadence[s] * (n - 1)
  BY SchedulerAssumption DEF Claim, Claimed, SchedulerIndInv, SoundRow, ScheduleRow, ScheduleExact, RowExact
<1>2. /\ schedule'[s].revision = n + 1 /\ schedule'[s].nextDueAt = due + Cadence[s]
      /\ \A q \in Schedules \ {s} : schedule'[q] = schedule[q]
  <2>1. PICK r \in ScheduleRow : r = schedule[s]
    BY <1>1 DEF SchedulerIndInv, SoundRow
  <2>2. Advanced(r, s).revision = r.revision + 1 /\ Advanced(r, s).nextDueAt = r.nextDueAt + Cadence[s]
    BY DEF Advanced, Unclaim, ScheduleRow
  <2>3. schedule' = [schedule EXCEPT ![s] = Advanced(r, s)]
    BY <2>1 DEF RecordOccurrence
  <2>4. schedule'[s] = Advanced(r, s) /\ \A q \in Schedules \ {s} : schedule'[q] = schedule[q]
    BY <1>1, <2>3 DEF SchedulerIndInv
  <2> QED
    BY <2>1, <2>2, <2>4
<1> HIDE DEF s
<1>3. /\ DueTimes(s)' = DueTimes(s) \cup {due} /\ due \notin DueTimes(s)
      /\ Cardinality(DueTimes(s)') = Cardinality(DueTimes(s)) + 1
      /\ due + Cadence[s] = 1 + Cadence[s] * n
  <2>1. DueTimes(s) = TimesBefore(due, Cadence[s]) /\ DueTimes(s)' = TimesBefore(due + Cadence[s], Cadence[s])
    BY <1>2 DEF DueTimes, TimesBefore
  <2> HIDE DEF due, n
  <2> QED
    BY <1>1, <2>1, OneMoreTime
<1>4. \A q \in Schedules \ {s} : DueTimes(q)' = DueTimes(q)
  BY <1>2 DEF DueTimes
<1>5. \A q \in Schedules : RowExact(schedule'[q], q)
  <2>1. RowExact(schedule'[s], s)
    BY <1>1, <1>2, <1>3 DEF RowExact
  <2> QED
    BY <1>2, <2>1 DEF ScheduleExact, RowExact
<1>6. admitted' = admitted \cup {<<s, due>>} /\ occurrences' = occurrences \cup {<<s, due>>} /\ admitted = occurrences
  BY <1>1 DEF RecordOccurrence, ScheduleExact, OccurrencesExact, s
<1>7. occurrences' = UNION {{<<q, d>> : d \in DueTimes(q)'} : q \in Schedules}
  <2>1. occurrences = UNION {{<<q, d>> : d \in DueTimes(q)} : q \in Schedules}
    BY DEF ScheduleExact, OccurrencesExact
  <2>2. {<<s, d>> : d \in DueTimes(s)'} = {<<s, d>> : d \in DueTimes(s)} \cup {<<s, due>>}
    BY <1>3
  <2>3. \A q \in Schedules \ {s} : {<<q, d>> : d \in DueTimes(q)'} = {<<q, d>> : d \in DueTimes(q)}
    BY <1>4
  <2> HIDE DEF due
  <2> QED
    BY <1>1, <1>6, <2>1, <2>2, <2>3
<1>8. \A q \in Schedules : schedule'[q].revision = Cardinality(DueTimes(q)') + 1
  <2>1. \A q \in Schedules : schedule[q].revision = Cardinality(DueTimes(q)) + 1
    BY DEF ScheduleExact, OccurrencesExact
  <2>2. schedule'[s].revision = Cardinality(DueTimes(s)') + 1
    BY <1>1, <1>2, <1>3, <2>1
  <2> QED
    BY <1>2, <1>4, <2>1, <2>2
<1> QED
  BY <1>5, <1>6, <1>7, <1>8 DEF OccurrencesExact

LEMMA ScheduleStepExact ==
    SchedulerIndInv /\ ScheduleExact /\ [SchedulerNext]_schedulerVars => ScheduleExact'
<1> SUFFICES ASSUME SchedulerIndInv, ScheduleExact, [SchedulerNext]_schedulerVars PROVE ScheduleExact'
  OBVIOUS
<1> DEFINE Same == \A s \in Schedules : /\ schedule'[s].revision = schedule[s].revision
                                        /\ schedule'[s].nextDueAt = schedule[s].nextDueAt
<1>0. \A s \in Schedules : schedule[s] \in ScheduleRow
  BY DEF SchedulerIndInv, SoundRow
<1>1. CASE UNCHANGED schedulerVars
  BY <1>1, RowsKept DEF schedulerVars, schedulerLocal, ScheduleExact
<1>2. CASE PassSchedulerTime
  <2>1. clock' \in Nat /\ clock' <= MaxClock /\ clock <= clock' /\ clock \in Nat /\ MaxClock \in Nat
    BY <1>2, SchedulerAssumption DEF PassSchedulerTime, SchedulerIndInv
  <2>2. \A p \in Schedulers : duty[p] = "materializing" => claim[p].dueAt \in Nat
    BY DEF SchedulerIndInv, Claim
  <2> QED
    BY <1>2, <2>1, <2>2, RowsKept DEF PassSchedulerTime, schedulerLocal, ScheduleExact
<1>3. ASSUME NEW p \in Schedulers, StartWork(p) \/ RestartScheduler(p) PROVE ScheduleExact'
  BY <1>3, RowsKept DEF StartWork, RestartScheduler, Turn, ScheduleExact, SchedulerIndInv
<1>4. ASSUME NEW p \in Schedulers, RecoverSchedules(p) PROVE ScheduleExact'
  <2>1. Same
    BY <1>0, <1>4 DEF RecoverSchedules, Unclaim, ScheduleRow
  <2>2. OccurrencesExact' /\ \A s \in Schedules : RowExact(schedule'[s], s)
    BY <1>4, <2>1, RowsKept DEF RecoverSchedules
  <2> QED
    BY <1>4, <2>2 DEF RecoverSchedules, Turn, ScheduleExact, SchedulerIndInv
<1>5. ASSUME NEW p \in Schedulers, ClaimDue(p) PROVE ScheduleExact'
  <2>1. CASE Turn(p, "polling") /\ UNCHANGED <<schedule, claim, claims>>
    BY <1>5, <2>1, RowsKept DEF ClaimDue, Turn, ScheduleExact, SchedulerIndInv
  <2>2. ASSUME NEW s \in DueRows(claimedAt[p]),
               schedule' = [schedule EXCEPT ![s].token = claims + 1, ![s].expires = claimedAt[p] + LeaseMs],
               claim' = [claim EXCEPT ![p] = [id |-> s, revision |-> schedule[s].revision,
                                              dueAt |-> schedule[s].nextDueAt, token |-> claims + 1]],
               Turn(p, "materializing")
        PROVE  ScheduleExact'
    <3>1. Same
      BY <1>0, <2>2 DEF DueRows, ScheduleRow, SchedulerIndInv
    <3>2. OccurrencesExact' /\ \A q \in Schedules : RowExact(schedule'[q], q)
      BY <1>5, <3>1, RowsKept DEF ClaimDue
    <3>3. schedule[s].nextDueAt <= clock
      BY <1>0 DEF DueRows, SchedulerIndInv, ScheduleRow
    <3>4. claim'[p].dueAt <= clock /\ \A q \in Schedulers \ {p} : claim'[q] = claim[q] /\ duty'[q] = duty[q]
      BY <2>2, <3>3 DEF SchedulerIndInv, Turn
    <3> QED
      BY <1>5, <3>2, <3>4 DEF ClaimDue, ScheduleExact
  <2> QED
    BY <1>5, <2>1, <2>2 DEF ClaimDue
<1>6. ASSUME NEW p \in Schedulers, Materialize(p) \/ FailScheduler(p) PROVE ScheduleExact'
  <2>1. /\ claim' = [claim EXCEPT ![p] = NoClaim] /\ clock' = clock
        /\ Turn(p, "polling") \/ Turn(p, "down")
        /\ \/ UNCHANGED <<schedule, occurrences, admitted>>
           \/ duty[p] = "materializing" /\ Admissible(claim[p]) /\ RecordOccurrence(claim[p])
    BY <1>6 DEF Materialize, FailScheduler
  <2>2. OccurrencesExact' /\ \A s \in Schedules : RowExact(schedule'[s], s)
    <3>1. CASE UNCHANGED <<schedule, occurrences, admitted>>
      BY <3>1, RowsKept
    <3>2. CASE duty[p] = "materializing" /\ Admissible(claim[p]) /\ RecordOccurrence(claim[p])
      <4>1. claim[p] \in Claim /\ Claimed(claim[p]) /\ claim[p].dueAt <= clock
        BY <3>2 DEF SchedulerIndInv, ScheduleExact, Admissible
      <4> QED
        BY <3>2, <4>1, RecordedExact
    <3> QED
      BY <2>1, <3>1, <3>2
  <2>3. \A q \in Schedulers : duty'[q] = "materializing" => q # p /\ duty[q] = "materializing" /\ claim'[q] = claim[q]
    BY <2>1 DEF Turn, SchedulerIndInv
  <2> QED
    BY <2>1, <2>2, <2>3 DEF ScheduleExact
<1> QED
  BY <1>1, <1>2, <1>3, <1>4, <1>5, <1>6 DEF SchedulerNext, WorkOnce

\* Whatever schedulers claim, recover and lose, and wherever a process dies: each
\* time a schedule came due has one occurrence and one job, no time is left out
\* after a pause and none comes before it was due (materialize).
THEOREM OccurrencesAreExact == SchedulerSpec => []OccurrencesExact
<1>1. ScheduleExact => OccurrencesExact
  BY DEF ScheduleExact
<1>2. SchedulerInit => SchedulerIndInv /\ ScheduleExact
  BY SchedulerInitInv, ScheduleInitExact
<1>3. SchedulerIndInv /\ ScheduleExact /\ [SchedulerNext]_schedulerVars => (SchedulerIndInv /\ ScheduleExact)'
  BY SchedulerStepInv, ScheduleStepExact
<1> QED
  BY <1>1, <1>2, <1>3, PTL DEF SchedulerSpec
=============================================================================
