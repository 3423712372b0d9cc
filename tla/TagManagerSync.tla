--------------------------- MODULE TagManagerSync ---------------------------
(***************************************************************************)
(* A tag manager workspace is brought to the state of a manifest: it is    *)
(* read, one list of resources after the other, and compared; the plan is  *)
(* reviewed, and applied write by write after two more readings that must  *)
(* show what was reviewed.  Whoever uses the tag manager itself may edit   *)
(* the workspace at any moment.                                            *)
(*                                                                         *)
(* A resource belongs to the manifest by its name, which tells its slug:   *)
(* the configured name, or another one that carries the slug (inferred).   *)
(* Folders and triggers are referred to by the ids the provider gave them. *)
(* Of a resource it matters whether its content is the configured one; the *)
(* order of the triggers of a tag is left out, and so are filters.  The    *)
(* content of a pixel that has its configured name is not read: what the   *)
(* manifest says is taken for it.                                          *)
(*                                                                         *)
(* The attempt, its lease and its recovery are those of GtmContainer.      *)
(***************************************************************************)
EXTENDS Naturals, Sequences, SequencesExt

CONSTANTS
    SlugOrder,      \* the slugs of the manifest, sorted
    Retired,        \* tags the manifest no longer has
    Other,          \* the slug of a resource whose name tells none
    KindOf,         \* of each slug its kind
    FolderOf,       \* of each slug its folder, or Other
    FiresOn,        \* of each tag its triggers
    Pixels,         \* tags of type meta_pixel
    KeptPaused,     \* tags that are configured to be paused
    BuiltInTriggers,    \* the triggers that every container has, with their ids
    Workspaces,     \* how the workspace may be at first
    MaxSyncEdits, MaxSyncFaults     \* bounds

\* A resource as it may be at first; a slug is that of one kind.
IsResource(r) ==
    /\ r = [id |-> r.id, kind |-> r.kind, slug |-> r.slug, exact |-> r.exact, content |-> r.content,
            folder |-> r.folder, fires |-> r.fires, paused |-> r.paused, print |-> r.print]
    /\ r.id \in Nat /\ r.print \in Nat
    /\ r.slug # Other => KindOf[r.slug] = r.kind

\* Of one kind no two have the same id.
Distinct(resources) == \A r, q \in resources : r.kind = q.kind /\ r.id = q.id => r = q

ASSUME SyncAssumption ==
    /\ SlugOrder \in Seq(ToSet(SlugOrder))
    /\ \A start \in Workspaces : IsFiniteSet(start) /\ Distinct(start) /\ \A r \in start : IsResource(r)
    /\ Other \notin ToSet(SlugOrder) \cup Retired
    /\ Retired \cap ToSet(SlugOrder) = {}
    /\ MaxSyncEdits \in Nat /\ MaxSyncFaults \in Nat

VARIABLES
    workspace,  \* the resources the provider holds
    syncStage,  \* what the host is at
    listing,    \* the list it asks for next
    listed,     \* the resources of this reading
    shown,      \* those of the reading that was reviewed
    writes,     \* operations still to be done
    boundIds,   \* the ids this apply knows: pairs of a slug and an id
    syncEdits, syncFaults

syncVars == <<workspace, syncStage, listing, listed, shown, writes, boundIds, syncEdits, syncFaults>>

KindsReversed == <<"tag", "trigger", "variable", "built_in_variable", "folder">>     \* mutant: the order
KindOrder == <<"folder", "built_in_variable", "variable", "trigger", "tag">>

OfKind(kind) ==
    LET one(s) == IF KindOf[s] = kind THEN <<s>> ELSE <<>> IN
    FlattenSeq([i \in DOMAIN SlugOrder |-> one(SlugOrder[i])])
Manifest == FlattenSeq([i \in DOMAIN KindOrder |-> OfKind(KindOrder[i])])

SyncInit ==
    /\ workspace \in Workspaces
    /\ syncStage = "idle"
    /\ listing = 1 /\ listed = {} /\ shown = {}
    /\ writes = <<>> /\ boundIds = {}
    /\ syncEdits = 0 /\ syncFaults = 0

-----------------------------------------------------------------------------
\* What a reading tells of a resource.  The id of a trigger that no list has stands
\* for itself, that of a folder for none.
SlugOfId(kind, id, resources) ==
    LET named == {r.slug : r \in {q \in resources : q.kind = kind /\ q.id = id}}
                    \cup {s \in DOMAIN BuiltInTriggers : kind = "trigger" /\ BuiltInTriggers[s] = id}
    IN IF named \subseteq {Other} THEN id ELSE CHOOSE s \in named : TRUE

\* Folders and built-in variables are managed only under their configured name.
ManagedResource(r) == IF r.kind \in {"folder", "built_in_variable"} THEN r.exact ELSE r.slug # Other

Payload(r, resources) ==
    [exact |-> r.exact, content |-> IF r.exact /\ r.slug \in Pixels THEN "configured" ELSE r.content,
     folder |-> IF \E f \in resources : f.kind = "folder" /\ f.id = r.folder
                THEN SlugOfId("folder", r.folder, resources) ELSE Other,
     paused |-> r.paused,
     fires |-> {SlugOfId("trigger", id, resources) : id \in r.fires}]

Normalized(resources) ==
    {[kind |-> r.kind, slug |-> IF r.slug = Other THEN r.id ELSE r.slug, id |-> r.id, print |-> r.print,
      managed |-> ManagedResource(r), payload |-> Payload(r, resources)] : r \in resources}

Wanted(s) ==
    [exact |-> TRUE, content |-> "configured", paused |-> s \in KeptPaused,
     folder |-> FolderOf[s], fires |-> FiresOn[s]]

Ambiguous(snapshot) == \E a, b \in snapshot : a # b /\ a.kind = b.kind /\ (a.slug = b.slug \/ a.id = b.id)

Matches(s, snapshot) == {o \in snapshot : o.kind = KindOf[s] /\ o.slug = s}

ChangesFor(s, snapshot) ==
    IF Matches(s, snapshot) = {} THEN <<[type |-> "create_resource", slug |-> s]>>
    ELSE LET o == CHOOSE o \in Matches(s, snapshot) : TRUE IN
         IF o.payload = Wanted(s) THEN <<>>
         ELSE <<[type |-> "update_resource", slug |-> s, id |-> o.id, print |-> o.print]>>

\* Of what the manifest does not have, a managed tag is paused and the rest retained.
Pauses(snapshot) ==
    LET surplus(o) == o.slug \notin ToSet(SlugOrder) /\ o.managed /\ o.kind = "tag" /\ ~o.payload.paused
    IN SetToSeq({[type |-> "pause_tag", slug |-> o.slug, id |-> o.id, print |-> o.print] :
                    o \in {o \in snapshot : surplus(o)}})

SyncOperations(snapshot) ==
    FlattenSeq([i \in DOMAIN Manifest |-> ChangesFor(Manifest[i], snapshot)]) \o Pauses(snapshot)

-----------------------------------------------------------------------------
Reading == {"planning", "checking", "inspecting"}

Read(stage) == syncStage' = stage /\ listing' = 1 /\ listed' = {}

\* The call returns or throws.
EndSync == Read("idle") /\ shown' = {} /\ writes' = <<>> /\ boundIds' = {}

StartPlanning ==
    /\ syncStage = "idle"
    /\ Read("planning")
    /\ UNCHANGED <<workspace, shown, writes, boundIds, syncEdits, syncFaults>>

ListResources ==
    /\ syncStage \in Reading /\ listing \in DOMAIN KindOrder
    /\ listing' = listing + 1
    /\ listed' = listed \cup {r \in workspace : r.kind = KindOrder[listing]}
    /\ UNCHANGED <<workspace, syncStage, shown, writes, boundIds, syncEdits, syncFaults>>

ReadCompletely(stage) == syncStage = stage /\ listing \notin DOMAIN KindOrder

\* Identities that are not unique are nothing to plan from.
ReviewWorkspace ==
    /\ ReadCompletely("planning")
    /\ IF Ambiguous(Normalized(listed))
       THEN EndSync
       ELSE Read("checking") /\ shown' = listed /\ UNCHANGED <<writes, boundIds>>
    /\ UNCHANGED <<workspace, syncEdits, syncFaults>>

\* The operations follow from the reading, so that the same reading has the same.
SameReview == Normalized(listed) = Normalized(shown)

CheckReview ==
    /\ ReadCompletely("checking")
    /\ IF SameReview THEN Read("inspecting") /\ UNCHANGED <<shown, writes, boundIds>> ELSE EndSync
    /\ UNCHANGED <<workspace, syncEdits, syncFaults>>

KnownIds ==
    {<<r.slug, r.id>> : r \in {q \in listed : q.kind \in {"folder", "trigger"}}}
        \cup {<<s, BuiltInTriggers[s]>> : s \in DOMAIN BuiltInTriggers}

InspectWorkspace ==
    /\ ReadCompletely("inspecting")
    /\ IF SameReview
       THEN /\ Read("writing")
            /\ writes' = SyncOperations(Normalized(listed))
            /\ boundIds' = KnownIds
            /\ UNCHANGED shown
       ELSE EndSync
    /\ UNCHANGED <<workspace, syncEdits, syncFaults>>

-----------------------------------------------------------------------------
References(s) == FiresOn[s] \cup (IF FolderOf[s] = Other THEN {} ELSE {FolderOf[s]})
IdOf(s) == (CHOOSE b \in boundIds : b[1] = s)[2]

Lowered(s, id, print) ==
    [id |-> id, kind |-> KindOf[s], slug |-> s, exact |-> TRUE, content |-> "configured",
     folder |-> IF FolderOf[s] = Other THEN 0 ELSE IdOf(FolderOf[s]),
     fires |-> {IdOf(t) : t \in FiresOn[s]}, paused |-> s \in KeptPaused, print |-> print]

NameFree(s, id) == ~ \E r \in workspace : r.kind = KindOf[s] /\ r.slug = s /\ r.exact /\ r.id # id
\* An id is never given again.
FreshId == Max({r.id : r \in workspace \cup listed \cup shown} \cup {0}) + 1

AnyTarget(op) == {r \in workspace : r.kind = KindOf[op.slug] /\ r.id = op.id}     \* mutant: no fingerprint
\* The provider writes over a resource only if its fingerprint is the one given.
Target(op) == {r \in AnyTarget(op) : r.print = op.print}

\* The resources that an operation takes away and puts, or nothing if it is refused.
Effect(op) ==
    CASE op.type = "create_resource" ->
            IF NameFree(op.slug, 0) THEN {[old |-> {}, new |-> Lowered(op.slug, FreshId, 1)]} ELSE {}
      [] op.type = "update_resource" ->
            {[old |-> {r}, new |-> Lowered(op.slug, r.id, r.print + 1)] :
                r \in {q \in Target(op) : NameFree(op.slug, q.id)}}
      [] op.type = "pause_tag" ->
            \* the resource as it was read last, but paused
            {[old |-> Target(op), new |-> [r EXCEPT !.paused = TRUE, !.print = @ + 1]] :
                r \in {q \in shown : Target(op) # {} /\ q.kind = "tag" /\ q.id = op.id}}

Bindable(op) == op.type # "pause_tag" => \A s \in References(op.slug) : \E b \in boundIds : b[1] = s

Changed(effect) == workspace' = (workspace \ effect.old) \cup {effect.new}
Rebound(effect) == {b \in boundIds : b[1] # effect.new.slug} \cup {<<effect.new.slug, effect.new.id>>}

\* An operation whose folder or trigger is not known, or that is refused, ends
\* the apply.
WriteResource ==
    /\ syncStage = "writing" /\ writes # <<>>
    /\ LET op == Head(writes) IN
       IF Bindable(op) /\ Effect(op) # {}
       THEN /\ \E effect \in Effect(op) : Changed(effect) /\ boundIds' = Rebound(effect)
            /\ writes' = Tail(writes)
            /\ UNCHANGED <<syncStage, listing, listed, shown>>
       ELSE EndSync /\ UNCHANGED workspace
    /\ UNCHANGED <<syncEdits, syncFaults>>

CompleteSync ==
    /\ syncStage = "writing" /\ writes = <<>>
    /\ EndSync
    /\ UNCHANGED <<workspace, syncEdits, syncFaults>>

\* A request fails, the workspace has conflicts, or a write is not answered.
FailSync ==
    /\ syncStage # "idle"
    /\ syncFaults < MaxSyncFaults
    /\ syncFaults' = syncFaults + 1
    /\ \/ UNCHANGED workspace
       \/ /\ syncStage = "writing" /\ writes # <<>> /\ Bindable(Head(writes))
          /\ \E effect \in Effect(Head(writes)) : Changed(effect)
    /\ EndSync
    /\ UNCHANGED syncEdits

-----------------------------------------------------------------------------
\* People at the tag manager.
EditBy(old, new) ==
    /\ workspace' = (workspace \ old) \cup new
    /\ UNCHANGED <<syncStage, listing, listed, shown, writes, boundIds, syncFaults>>

Edit ==
    /\ syncEdits < MaxSyncEdits
    /\ syncEdits' = syncEdits + 1
    /\ \E r \in workspace :
        \/ /\ r.kind # "built_in_variable"
           /\ \/ EditBy({r}, {[r EXCEPT !.content = "edited", !.print = @ + 1]})
              \/ EditBy({r}, {[r EXCEPT !.slug = Other, !.exact = FALSE, !.print = @ + 1]})
              \/ r.kind = "tag" /\ EditBy({r}, {[r EXCEPT !.paused = ~@, !.print = @ + 1]})
        \/ /\ \A q \in workspace : r.id # q.folder /\ r.id \notin q.fires
           /\ EditBy({r}, {})

\* Two resources of one slug are told apart by somebody, who deletes the one
\* that has not the configured name.
Investigate ==
    /\ \E r, q \in workspace :
        /\ r.kind = q.kind /\ r.slug = q.slug /\ r.slug # Other
        /\ q.exact /\ ~r.exact
        /\ EditBy({r}, {})
    /\ UNCHANGED syncEdits

SyncStep ==
    \/ StartPlanning \/ ListResources \/ ReviewWorkspace
    \/ CheckReview \/ InspectWorkspace \/ WriteResource \/ CompleteSync

SyncNext == SyncStep \/ FailSync \/ Edit \/ Investigate

\* The operator plans and applies again and again, and looks into what is
\* ambiguous.
SyncFairness == WF_syncVars(SyncStep) /\ WF_syncVars(Investigate)

SyncSpec == SyncInit /\ [][SyncNext]_syncVars /\ SyncFairness

-----------------------------------------------------------------------------
\* The resource is there once and as configured, and refers to the resources
\* that bear the configured slugs, whatever ids they have.  An edited pixel stays
\* as it was edited: no reading shows it.
InPlace(s) ==
    \E r \in workspace :
        /\ {q \in workspace : q.kind = KindOf[s] /\ q.slug = s} = {r}
        /\ r.exact /\ r.content \in {"configured"} \cup (IF s \in Pixels THEN {"edited"} ELSE {})
        /\ r.paused = (s \in KeptPaused)
        /\ r.folder = 0 => FolderOf[s] = Other
        /\ r.folder # 0 => \E f \in workspace : f.kind = "folder" /\ f.id = r.folder /\ f.slug = FolderOf[s]
        /\ {SlugOfId("trigger", id, workspace) : id \in r.fires} = FiresOn[s]

\* Once people leave it alone, the workspace comes to hold the manifest and
\* stays so: each resource once, bound to its folder and its triggers, and no
\* tag of an earlier manifest fires, though applies stop half way and answers
\* are lost.
WorkspaceInPlace ==
    /\ \A s \in ToSet(SlugOrder) : InPlace(s)
    /\ \A r \in workspace : r.slug \in Retired => r.paused
WorkspaceSettles == <>[]WorkspaceInPlace

\* A write of an apply takes away nothing that the review did not show: an edit
\* made after it, even between the last reading and the write, is not lost.
EditsNotOverwritten ==
    [][writes' # writes /\ writes # <<>> => workspace \ workspace' \subseteq shown]_syncVars
=============================================================================
