------------------------------ MODULE AdsAssets ------------------------------
(***************************************************************************)
(* Media for advertisements: a file is imported into a private store and a *)
(* registry, approved or archived there, planned for upload, previewed,    *)
(* uploaded, and referred to by creative plans and campaign links.         *)
(*                                                                         *)
(* Every command is a process of its own.  The registry is one file, read  *)
(* and written back whole, and the source file, the plan and the provider  *)
(* refs are files too, which another command or a person may replace       *)
(* between any two steps.  An asset is for one provider.                   *)
(*                                                                         *)
(* Of a file it matters which bytes it holds; a hash is the bytes hashed.  *)
(***************************************************************************)
EXTENDS Naturals, Sequences

CONSTANTS
    Commands,       \* processes, each of which runs one command at a time
    Assets,
    Bytes,          \* what a source file may hold
    NoBytes,        \* no file
    Incomplete,     \* assets whose metadata lack dimensions or a duration
    Unfit,          \* assets of a type or shape that no placement takes
    MaxCommands, MaxSources, MaxUploads, MaxCommandDeaths   \* bounds

ASSUME AssetsAssumption ==
    /\ Assets # {} /\ NoBytes \notin Bytes
    /\ MaxCommands \in Nat /\ MaxSources \in Nat /\ MaxUploads \in Nat /\ MaxCommandDeaths \in Nat

VARIABLES
    registry,   \* of each asset its lifecycle status and the hash on record
    source,     \* of each asset the bytes in the private store
    plans,      \* the upload plans on disk
    previews,   \* those whose dry run was recorded as previewed
    uploaded,   \* what the provider was given, by the id it gave
    refs,       \* of each asset the provider ref on disk
    creatives,  \* the operations of all creative plans
    links,      \* assets and ids linked to a campaign
    command,    \* of each process what it is at
    snapshot,   \* of each process the registry it read
    topic,      \* of each process the asset it is at
    digest,     \* of each process the hash it took
    granted,    \* of each process the id the provider gave it, or 0
    uploads,    \* of each process the operations still to be done
    vetted,     \* assets and bytes that somebody approved
    sources, commandDeaths, commandsRun

assetVars == <<registry, source, plans, previews, uploaded, refs, creatives, links,
               command, snapshot, topic, digest, granted, uploads, vetted, sources, commandDeaths, commandsRun>>
onDisk    == <<registry, source, plans, previews, refs>>
atWork    == <<command, snapshot, topic, digest, granted, uploads>>
atProvider == <<uploaded, creatives, links>>

Unregistered == [status |-> "absent", hash |-> NoBytes]
NoRef        == [id |-> 0, hash |-> NoBytes]

AssetsInit ==
    /\ registry = [a \in Assets |-> Unregistered]
    /\ source = [a \in Assets |-> NoBytes]
    /\ plans = {} /\ previews = {}
    /\ uploaded = <<>> /\ creatives = {} /\ links = {}
    /\ refs = [a \in Assets |-> NoRef]
    /\ command = [c \in Commands |-> "none"]
    /\ snapshot = [c \in Commands |-> [a \in Assets |-> Unregistered]]
    /\ topic = [c \in Commands |-> CHOOSE a \in Assets : TRUE]
    /\ digest = [c \in Commands |-> NoBytes] /\ granted = [c \in Commands |-> 0]
    /\ uploads = [c \in Commands |-> {}]
    /\ vetted = {}
    /\ commandsRun = 0 /\ sources = 0 /\ commandDeaths = 0

-----------------------------------------------------------------------------
Turns(c, what) == command' = [command EXCEPT ![c] = what]
About(c, a) == topic' = [topic EXCEPT ![c] = a]

\* The command returns or its process ends: what it held in memory is gone.
ForgetCommand(c) ==
    /\ Turns(c, "none")
    /\ snapshot' = [snapshot EXCEPT ![c] = [a \in Assets |-> Unregistered]]
    /\ About(c, CHOOSE a \in Assets : TRUE)
    /\ digest' = [digest EXCEPT ![c] = NoBytes] /\ granted' = [granted EXCEPT ![c] = 0]
    /\ uploads' = [uploads EXCEPT ![c] = {}]

AnotherCommand == commandsRun < MaxCommands /\ commandsRun' = commandsRun + 1
ReadRegistry(c) == snapshot' = [snapshot EXCEPT ![c] = registry]

\* Import copies the file into the store, hashes what is there and adds a draft.
CopySource(c, a, b) ==
    /\ command[c] = "none" /\ AnotherCommand
    /\ sources < MaxSources
    /\ sources' = sources + 1
    /\ source' = [source EXCEPT ![a] = b]
    /\ Turns(c, "hashing") /\ About(c, a)
    /\ UNCHANGED <<registry, plans, previews, refs, atProvider, granted, snapshot, digest, uploads, vetted, commandDeaths>>

HashSource(c) ==
    /\ command[c] = "hashing"
    /\ digest' = [digest EXCEPT ![c] = source[topic[c]]]
    /\ Turns(c, "hashed")
    /\ UNCHANGED <<onDisk, atProvider, granted, snapshot, topic, uploads, vetted, sources, commandDeaths, commandsRun>>

ReadForImport(c) ==
    /\ command[c] = "hashed"
    /\ ReadRegistry(c)
    /\ Turns(c, "importing")
    /\ UNCHANGED <<onDisk, atProvider, granted, topic, digest, uploads, vetted, sources, commandDeaths, commandsRun>>

\* Approve and archive; an asset that is not there is an error.
ReadForUpdate(c, a, what) ==
    /\ command[c] = "none" /\ AnotherCommand
    /\ registry[a].status # "absent"
    /\ ReadRegistry(c)
    /\ Turns(c, what) /\ About(c, a)
    /\ UNCHANGED <<onDisk, atProvider, granted, digest, uploads, vetted, sources, commandDeaths>>

ReadRegistryFor(c) ==
    \/ ReadForImport(c)
    \/ \E a \in Assets, what \in {"approving", "archiving"} : ReadForUpdate(c, a, what)

NewEntry(c) ==
    LET old == snapshot[c][topic[c]] IN
    CASE command[c] = "importing" -> [status |-> "draft", hash |-> digest[c]]
      [] command[c] = "approving" -> [old EXCEPT !.status = "approved"]
      [] command[c] = "archiving" -> [old EXCEPT !.status = "archived"]

\* The registry becomes the one that was read but for one entry.
WriteRegistry(c) ==
    /\ command[c] \in {"importing", "approving", "archiving"}
    /\ registry' = [snapshot[c] EXCEPT ![topic[c]] = NewEntry(c)]
    /\ vetted' = vetted \cup (IF command[c] = "approving" THEN {<<topic[c], NewEntry(c).hash>>} ELSE {})
    /\ ForgetCommand(c)
    /\ UNCHANGED <<source, plans, previews, refs, atProvider, sources, commandDeaths, commandsRun>>

-----------------------------------------------------------------------------
\* The report of the registry: an error is a source that is not what it was, a
\* warning an asset that is not approved, lacks metadata or is there twice.
Listed(c) == {a \in Assets : snapshot[c][a].status # "absent"}
Erroneous(c, a) == source[a] # snapshot[c][a].hash
Doubtful(c, a) ==
    \/ snapshot[c][a].status # "approved"
    \/ a \in Incomplete
    \/ \E other \in Listed(c) \ {a} : snapshot[c][other].hash = snapshot[c][a].hash

ReadForPlan(c, what) ==
    /\ command[c] = "none" /\ AnotherCommand
    /\ ReadRegistry(c)
    /\ Turns(c, what)
    /\ UNCHANGED <<onDisk, atProvider, granted, topic, digest, uploads, vetted, sources, commandDeaths>>

\* What is approved and without any complaint is planned.
UploadOperations(c, chosen) ==
    {[asset |-> a, hash |-> snapshot[c][a].hash] :
        a \in {a \in Listed(c) \cap chosen : ~Erroneous(c, a) /\ ~Doubtful(c, a)}}

WriteUploadPlan(c, chosen) ==
    /\ command[c] = "planning"
    /\ plans' = plans \cup {[operations |-> UploadOperations(c, chosen),
                              faulty |-> \E a \in Listed(c) : Erroneous(c, a)]}
    /\ ForgetCommand(c)
    /\ UNCHANGED <<registry, source, previews, refs, atProvider, vetted, sources, commandDeaths, commandsRun>>

\* A dry run records the hash of the plan; a blocked one leads to nothing.
PreviewUpload(plan) ==
    /\ plan.operations # {} /\ ~plan.faulty
    /\ previews' = previews \cup {plan}
    /\ UNCHANGED <<registry, source, plans, refs, atProvider, atWork, vetted, sources, commandDeaths, commandsRun>>

\* A live upload reads plan and receipt; the operator confirms every operation.
StartUpload(c, plan) ==
    /\ command[c] = "none" /\ AnotherCommand
    /\ plan \in previews /\ ~plan.faulty
    /\ uploads' = [uploads EXCEPT ![c] = plan.operations]
    /\ Turns(c, "uploading")
    /\ UNCHANGED <<onDisk, atProvider, granted, snapshot, topic, digest, vetted, sources, commandDeaths>>

Current(c) == {op \in uploads[c] : op.asset = topic[c]}
\* The operation has its result, whatever it is.
Resolve(c, op) ==
    /\ uploads' = [uploads EXCEPT ![c] = @ \ {op}]
    /\ Turns(c, "uploading")
    /\ About(c, CHOOSE a \in Assets : TRUE)
    /\ digest' = [digest EXCEPT ![c] = NoBytes]
    /\ granted' = [granted EXCEPT ![c] = 0]

\* mutant: the bytes are not compared
ReadAnySource(c, op) ==
    /\ command[c] = "uploading" /\ op \in uploads[c]
    /\ source[op.asset] # NoBytes
    /\ digest' = [digest EXCEPT ![c] = source[op.asset]]
    /\ Turns(c, "sending") /\ About(c, op.asset)
    /\ UNCHANGED <<onDisk, atProvider, granted, uploads, snapshot, vetted, sources, commandDeaths, commandsRun>>

\* The bytes are read once; if they are not those of the plan, the operation has
\* failed and the next one follows.
ReadSource(c, op) ==
    /\ command[c] = "uploading" /\ op \in uploads[c]
    /\ IF source[op.asset] = op.hash
       THEN /\ digest' = [digest EXCEPT ![c] = source[op.asset]]
            /\ Turns(c, "sending") /\ About(c, op.asset)
            /\ UNCHANGED <<granted, uploads>>
       ELSE Resolve(c, op)
    /\ UNCHANGED <<onDisk, atProvider, snapshot, vetted, sources, commandDeaths, commandsRun>>

\* The provider takes the bytes and answers, or its answer is lost.
ProviderTakes(c, op) ==
    /\ command[c] = "sending" /\ op \in Current(c)
    /\ Len(uploaded) < MaxUploads
    /\ uploaded' = Append(uploaded, [asset |-> op.asset, bytes |-> digest[c]])
    /\ \/ /\ Turns(c, "referring") /\ granted' = [granted EXCEPT ![c] = Len(uploaded) + 1]
          /\ UNCHANGED <<topic, digest, uploads>>
       \/ Resolve(c, op)
    /\ UNCHANGED <<onDisk, creatives, links, snapshot, vetted, sources, commandDeaths, commandsRun>>

ProviderRefuses(c, op) ==
    /\ command[c] = "sending" /\ op \in Current(c)
    /\ Resolve(c, op)
    /\ UNCHANGED <<onDisk, atProvider, snapshot, vetted, sources, commandDeaths, commandsRun>>

WriteRef(c, op) ==
    /\ command[c] = "referring" /\ op \in Current(c)
    /\ refs' = [refs EXCEPT ![op.asset] = [id |-> granted[c], hash |-> op.hash]]
    /\ Resolve(c, op)
    /\ UNCHANGED <<registry, source, plans, previews, atProvider, snapshot, vetted, sources, commandDeaths, commandsRun>>

\* The receipt of a live upload is read by nobody.
EndUpload(c) ==
    /\ command[c] = "uploading" /\ uploads[c] = {}
    /\ ForgetCommand(c)
    /\ UNCHANGED <<onDisk, atProvider, vetted, sources, commandDeaths, commandsRun>>

UploadStep(c) ==
    \/ \E plan \in plans : StartUpload(c, plan)
    \/ EndUpload(c)
    \/ \E op \in uploads[c] :
        ReadSource(c, op) \/ ProviderTakes(c, op) \/ ProviderRefuses(c, op) \/ WriteRef(c, op)

-----------------------------------------------------------------------------
\* A creative is planned of what was uploaded as the registry now has it,
\* whatever the lifecycle of the asset.
CreativeOperations(c, chosen) ==
    {[asset |-> a, id |-> refs[a].id, hash |-> snapshot[c][a].hash] :
        a \in {a \in (Listed(c) \cap chosen) \ Unfit : refs[a] # NoRef /\ refs[a].hash = snapshot[c][a].hash}}

WriteCreativePlan(c, chosen) ==
    /\ command[c] = "designing"
    /\ creatives' = creatives \cup CreativeOperations(c, chosen)
    /\ ForgetCommand(c)
    /\ UNCHANGED <<onDisk, uploaded, links, vetted, sources, commandDeaths, commandsRun>>

\* An asset is linked to a campaign by the ref on disk, without regard to its hash.
LinkCampaign(a) ==
    /\ refs[a] # NoRef
    /\ links' = links \cup {<<a, refs[a].id>>}
    /\ UNCHANGED <<onDisk, uploaded, creatives, atWork, vetted, sources, commandDeaths, commandsRun>>

DieCommand(c) ==
    /\ command[c] # "none"
    /\ commandDeaths < MaxCommandDeaths
    /\ commandDeaths' = commandDeaths + 1
    /\ ForgetCommand(c)
    /\ UNCHANGED <<onDisk, atProvider, vetted, sources, commandsRun>>

\* Somebody replaces a file of the private store by hand.
ReplaceSource(a, b) ==
    /\ source[a] \notin {b, NoBytes}
    /\ sources < MaxSources
    /\ sources' = sources + 1
    /\ source' = [source EXCEPT ![a] = b]
    /\ UNCHANGED <<registry, plans, previews, refs, atProvider, atWork, vetted, commandDeaths, commandsRun>>

AssetsNext ==
    \/ \E c \in Commands :
        \/ \E a \in Assets, b \in Bytes : CopySource(c, a, b)
        \/ HashSource(c) \/ ReadRegistryFor(c) \/ WriteRegistry(c)
        \/ \E what \in {"planning", "designing"} : ReadForPlan(c, what)
        \/ \E chosen \in SUBSET Assets \ {{}} : WriteUploadPlan(c, chosen) \/ WriteCreativePlan(c, chosen)
        \/ UploadStep(c)
        \/ DieCommand(c)
    \/ \E plan \in plans : PreviewUpload(plan)
    \/ \E a \in Assets : LinkCampaign(a) \/ \E b \in Bytes : ReplaceSource(a, b)

AssetsSpec == AssetsInit /\ [][AssetsNext]_assetVars

-----------------------------------------------------------------------------
\* Whatever commands overlap and whoever replaces a file or a plan, what the
\* provider was given is bytes that somebody approved for that asset and that a
\* dry run showed; a creative is made of the very bytes its plan names; and a
\* link is to an upload of its asset.
AssetsAsApproved ==
    /\ \A i \in DOMAIN uploaded :
        /\ <<uploaded[i].asset, uploaded[i].bytes>> \in vetted
        /\ \E plan \in previews : [asset |-> uploaded[i].asset, hash |-> uploaded[i].bytes] \in plan.operations
    /\ \A op \in creatives : uploaded[op.id] = [asset |-> op.asset, bytes |-> op.hash]
    /\ \A link \in links : uploaded[link[2]].asset = link[1]
=============================================================================
