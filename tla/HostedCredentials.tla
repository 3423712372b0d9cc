-------------------------- MODULE HostedCredentials --------------------------
(***************************************************************************)
(* Provider credentials of hosted workers: a record with a revision, a key *)
(* and an active version, and the encrypted versions beside it.  Operators *)
(* rotate and revoke from a copy of the record they hold, and encrypt      *)
(* before they store; a worker resolves the version its job names and      *)
(* decrypts it.  A ciphertext opens under its key and under the additional *)
(* data it was sealed with, the identity of the record and the version.    *)
(*                                                                         *)
(* A store operation is one transaction with the row locked.               *)
(***************************************************************************)
EXTENDS Naturals, FiniteSets

CONSTANTS
    Operators,
    KeyIds,
    MaxVersion, MaxLostAnswers  \* bounds

ASSUME CredentialAssumption == MaxVersion \in Nat \ {0} /\ MaxLostAnswers \in Nat

VARIABLES
    credential, \* the row
    versions,   \* the version rows, never updated
    copy,       \* the record each operator holds
    sealed,     \* the record and the version it is about to store
    kept,       \* history: secrets whose rotation was answered "stored", by version
    lostAnswers

credentialVars == <<credential, versions, copy, sealed, kept, lostAnswers>>

NoRecordHeld == [revision |-> 0, key |-> "none", active |-> 0, state |-> "absent"]
NotSealed == [record |-> NoRecordHeld, row |-> [version |-> 0, key |-> "none", aad |-> 0, by |-> "none"]]

CredentialTypeOK ==
    /\ credential.state = "active" => credential.active \in 1 .. MaxVersion
    /\ credential.state = "revoked" => credential.active = 0
    /\ \A o \in Operators : copy[o].revision <= credential.revision

\* encryptVersion
Seal(record, version, o) == [version |-> version, key |-> record.key, aad |-> version, by |-> o]

\* A credential that somebody created.
CredentialInit ==
    \E k \in KeyIds :
        /\ credential = [revision |-> 1, key |-> k, active |-> 1, state |-> "active"]
        /\ versions = {Seal(credential, 1, "creator")}
        /\ copy = [o \in Operators |-> credential]
        /\ sealed = [o \in Operators |-> NotSealed]
        /\ kept = {}
        /\ lostAnswers = 0

\* An operator reads the record again.
ReadCredential(o) ==
    /\ copy[o] # credential
    /\ copy' = [copy EXCEPT ![o] = credential]
    /\ UNCHANGED <<credential, versions, sealed, kept, lostAnswers>>

\* mutant: the additional data names the version that is replaced
SealReplaced(o, k) ==
    /\ sealed[o] = NotSealed
    /\ copy[o].state = "active" /\ copy[o].active < MaxVersion
    /\ LET record == [copy[o] EXCEPT !.revision = @ + 1, !.key = k, !.active = @ + 1] IN
       sealed' = [sealed EXCEPT ![o] = [record |-> record,
                                        row |-> [Seal(record, record.active, o) EXCEPT !.aad = copy[o].active]]]
    /\ UNCHANGED <<credential, versions, copy, kept, lostAnswers>>

\* rotateHostedCredential, up to its call of the store.
SealVersion(o, k) ==
    /\ sealed[o] = NotSealed
    /\ copy[o].state = "active" /\ copy[o].active < MaxVersion
    /\ LET version == copy[o].active + 1
           record == [copy[o] EXCEPT !.revision = @ + 1, !.key = k, !.active = version] IN
       sealed' = [sealed EXCEPT ![o] = [record |-> record, row |-> Seal(record, version, o)]]
    /\ UNCHANGED <<credential, versions, copy, kept, lostAnswers>>

\* What rotate compares, and the primary key of the versions.
Conflicts(record, row) ==
    \/ credential.revision # record.revision - 1
    \/ credential.state # "active"
    \/ record.active # credential.active + 1
    \/ row.version # record.active \/ row.key # record.key
    \/ \E other \in versions : other.version = row.version

\* rotate: stored, or a conflict.  The answer may be lost.
Rotate(o) ==
    /\ sealed[o] # NotSealed
    /\ LET record == sealed[o].record
           row == sealed[o].row IN
       IF Conflicts(record, row) THEN UNCHANGED <<credential, versions, copy, kept, lostAnswers>>
       ELSE /\ versions' = versions \cup {row}
            /\ credential' = [credential EXCEPT !.revision = record.revision, !.key = record.key,
                                                !.active = record.active]
            /\ \/ /\ copy' = [copy EXCEPT ![o] = record]
                  /\ kept' = kept \cup {<<row.version, o>>}
                  /\ UNCHANGED lostAnswers
               \/ /\ lostAnswers < MaxLostAnswers /\ lostAnswers' = lostAnswers + 1
                  /\ UNCHANGED <<copy, kept>>
    /\ sealed' = [sealed EXCEPT ![o] = NotSealed]

Revoke(o) ==
    /\ copy[o].state = "active"
    /\ copy[o].revision = credential.revision /\ credential.state = "active"
    /\ credential' = [credential EXCEPT !.revision = @ + 1, !.state = "revoked", !.active = 0]
    /\ copy' = [copy EXCEPT ![o] = credential']
    /\ UNCHANGED <<versions, sealed, kept, lostAnswers>>

CredentialNext ==
    \E o \in Operators : ReadCredential(o) \/ (\E k \in KeyIds : SealVersion(o, k)) \/ Rotate(o) \/ Revoke(o)

CredentialSpec == CredentialInit /\ [][CredentialNext]_credentialVars

-----------------------------------------------------------------------------
\* getActiveVersion, and the checks of withCredential before it decrypts.
Found(version) ==
    {row \in versions : credential.state = "active" /\ credential.active = version /\ row.version = version}
Opens(row, version) == row.key = credential.key /\ row.aad = version

\* The version a worker finds is one row, opens, and is the last that an
\* operator was told is stored or a later one; no version that was stored is
\* ever replaced.
ActiveVersionOpens ==
    /\ credential.state = "active" =>
        /\ Cardinality(Found(credential.active)) = 1
        /\ \A row \in Found(credential.active) : Opens(row, credential.active)
        /\ \A k \in kept : k[1] <= credential.active
    /\ \A k \in kept : {row.by : row \in {r \in versions : r.version = k[1]}} = {k[2]}
=============================================================================
