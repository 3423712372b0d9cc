---------------------------- MODULE MCComponents ----------------------------
(***************************************************************************)
(* Small instances of components that share no state, in one run: a        *)
(* behaviour is one of the component `part`, the others stay as they       *)
(* begin.  Invariants and action properties are those of the components;   *)
(* what must happen is asked of the part that runs.                        *)
(***************************************************************************)
EXTENDS MCAwsRollout, CloudApply, CloudRollout, HostedScheduler, HostedCredentials, ActionExecution,
        ConversionDelivery, RunStore, TagManagerSync, AdsAssets, AdsLaunch

CONSTANTS p1, p2, web, txt, work, dead, worker, route, daily, hourly, e1, e2,
          group, click, view, pixel, legacy, shoes, hats, bags

VARIABLE part

\* Two plans for one target, the first of which begins with a no-op.
TwoChanges == p1 :> <<"no-op", "merge">> @@ p2 :> <<"merge">>

\* Two DNS entries, one with two values; a queue with its dead letters; a worker
\* with all it may have.
TwoEntries == <<web, txt>>
EntryNames == web :> "web" @@ txt :> "txt"
Values == web :> <<"v1">> @@ txt :> <<"t1", "t2">>
TwoQueues == <<work, dead>>
OneWorker == <<worker>>
OneRoute == worker :> <<route>>
OneQueue == worker :> <<work>>
OneVariable == worker :> <<"var">>
OneSecret == worker :> <<"secret">>
OneCron == worker :> {"hourly"}
Rec(name, value) == [name |-> name, value |-> value]
Absent == [scripts |-> {}, bindings |-> {}, crons |-> {}, owner |-> Free]
Present == [scripts |-> {worker}, bindings |-> {"old"}, crons |-> {"daily"}, owner |-> "other"]
Remote(zone_, queues, here) ==
    [records |-> zone_, queues |-> queues, scripts |-> here.scripts, routes |-> route :> here.owner,
     consumers |-> work :> Free @@ dead :> Free, bindings |-> worker :> here.bindings, crons |-> worker :> here.crons]
FlareStarts ==
    {[managed |-> {"dns"}, remote |-> Remote(zone_, {}, Absent)] :
        zone_ \in {<<>>, <<Rec("web", "old"), Rec("txt", "t1")>>, <<Rec("txt", "old"), Rec("web", "old")>>}}
    \cup {[managed |-> {"queues", "workers", "cron"}, remote |-> Remote(<<>>, queues, here)] :
        queues \in {{}, {dead}}, here \in {Absent, Present}}
Strange == {Rec("web", "x"), Rec("txt", "t2")}

TwoCadences == daily :> 2 @@ hourly :> 1
TwoProviders == e1 :> "google-ads" @@ e2 :> "ga4"
TwoWirings == {e1 :> "right" @@ e2 :> "right", e1 :> "settings" @@ e2 :> "route"}

\* A tag in a folder that fires on a trigger and on one of the container; a tag
\* that the manifest no longer has.
TagSlugs == <<pixel, click, group>>
TagKinds == group :> "folder" @@ click :> "trigger" @@ view :> "trigger" @@ pixel :> "tag" @@ legacy :> "tag"
TagFolders == pixel :> group @@ click :> group @@ group :> Other
TagFires == pixel :> {click, view} @@ click :> {} @@ group :> {}
ViewTrigger == view :> 99
Tagged(id, slug, exact, content, folder, fires) ==
    [id |-> id, kind |-> TagKinds[slug], slug |-> slug, exact |-> exact, content |-> content,
     folder |-> folder, fires |-> fires, paused |-> FALSE, print |-> 1]
\* Nothing yet; what an earlier manifest left; two tags of one slug.
TagStarts ==
    {{},
     {Tagged(1, group, FALSE, "configured", 0, {}), Tagged(2, click, TRUE, "edited", 1, {}),
      Tagged(3, legacy, TRUE, "configured", 1, {2})},
     {Tagged(1, click, TRUE, "configured", 0, {}), Tagged(2, pixel, TRUE, "configured", 0, {1}),
      Tagged(3, pixel, FALSE, "configured", 0, {99})}}

\* Two bare campaigns that are launched side by side, or one with an ad group and an
\* asset.
Ready(objects) == [o \in Objects |-> IF o \in objects THEN "ready" ELSE "absent"]
TwoMaps == {Ready({shoes, hats}), Ready({bags})}
OnlyBags == [o \in Objects |-> IF o = bags THEN 1 ELSE 0]

-----------------------------------------------------------------------------
vars == <<part, cloudVars, awsVars, flareVars, schedulerVars, credentialVars, actionVars, conversionVars, runVars, syncVars,
          assetVars, launchVars>>

Only(p) == part = p
\* Of several initial states the parts that do not run have one.
ComponentsInit ==
    /\ part \in {"apply", "aws", "cloudflare", "schedules", "credentials", "actions", "conversions", "runs",
                "workspace", "assets", "launch"}
    /\ CloudInit /\ (Only("apply") \/ <<lapsed, backend>> = <<{}, CHOOSE b \in Backends : TRUE>>)
    /\ LET anywhere == CHOOSE start \in Accounts : TRUE IN
       AwsInit /\ (Only("aws") \/ [buckets |-> buckets, edge |-> edge, naming |-> naming] = anywhere)
    /\ RolloutInit /\ (Only("cloudflare") \/ [managed |-> managed, remote |-> remote] = CHOOSE start \in Starts : TRUE)
    /\ SchedulerInit
    /\ CredentialInit /\ (Only("credentials") \/ credential.key = CHOOSE k \in KeyIds : TRUE)
    /\ ActionInit
    /\ ConversionInit /\ (Only("conversions") \/ wiring = CHOOSE wires \in Wirings : TRUE)
    /\ RunInit /\ (Only("runs") \/ runBackend = CHOOSE b \in RunBackends : TRUE)
    /\ SyncInit /\ (Only("workspace") \/ workspace = {})
    /\ AssetsInit /\ LaunchInit

\* The calls on a target are alike, so that it does not matter which is made first.
FirstCall == calls = 0 => plan'[CHOOSE c \in Owners : TRUE] # Nobody \/ calls' = 0

ComponentsNext ==
    /\ UNCHANGED part
    /\ IF Only("apply") THEN CloudNext /\ FirstCall ELSE UNCHANGED cloudVars
    /\ IF Only("aws") THEN AwsNext ELSE UNCHANGED awsVars
    /\ IF Only("cloudflare") THEN RolloutNext ELSE UNCHANGED flareVars
    /\ IF Only("schedules") THEN SchedulerNext ELSE UNCHANGED schedulerVars
    /\ IF Only("credentials") THEN CredentialNext ELSE UNCHANGED credentialVars
    /\ IF Only("actions") THEN ActionNext ELSE UNCHANGED actionVars
    /\ IF Only("conversions") THEN ConversionNext ELSE UNCHANGED conversionVars
    /\ IF Only("runs") THEN RunNext ELSE UNCHANGED runVars
    /\ IF Only("workspace") THEN SyncNext ELSE UNCHANGED syncVars
    /\ IF Only("assets") THEN AssetsNext ELSE UNCHANGED assetVars
    /\ IF Only("launch") THEN LaunchNext ELSE UNCHANGED launchVars

\* The fairness of the components.
ComponentsFairness ==
    /\ \A f \in Families : WF_stage(Only("aws") /\ ComesUp(f)) /\ WF_awsVars(Only("aws") /\ Applies(f))
    /\ WF_awsVars(Only("aws") /\ \E f \in Families : RemoveLock(f))
    /\ WF_awsVars(Only("aws") /\ (Prerequisite \/ Progress))
    /\ \A f \in Focuses : WF_flareVars(Only("cloudflare") /\ FocusStep(f))
    /\ \A p \in Schedulers : WF_schedulerVars(Only("schedules") /\ (WorkOnce(p) \/ RestartScheduler(p)))
    /\ WF_schedulerVars(Only("schedules") /\ PassSchedulerTime)
    /\ \A w \in ActionWorkers :
        /\ WF_actionVars(Only("actions") /\ ClaimNext(w))
        /\ WF_actionVars(Only("actions") /\ Deliver(w))
    /\ WF_actionVars(Only("actions") /\ RecoverActions)
    /\ WF_actionVars(Only("actions") /\ PassActionTime)
    /\ \A e \in Events : WF_conversionVars(Only("conversions") /\ DeliverConversion(e))
    /\ WF_syncVars(Only("workspace") /\ SyncStep)
    /\ WF_syncVars(Only("workspace") /\ Investigate)

ComponentsSpec == ComponentsInit /\ [][ComponentsNext]_vars /\ ComponentsFairness

-----------------------------------------------------------------------------
\* PlansSettle of the AWS families.
AwsPlansSettle == <>[](Only("aws") => \A f \in Families : Settled(f))

\* CloudSettles of the Cloudflare focuses.
CloudflareSettles == []<>(Only("cloudflare") => Served)

\* DueMaterializes of the schedulers.
SchedulesCatchUp == []<>(Only("schedules") => DueMaterialized)

\* JobsSettle of the action runtime.
ActionJobsSettle == []<>(Only("actions") => JobsSettled)

\* ConversionsConclude of the delivery of conversions.
DeliveriesConclude == []<>(Only("conversions") => ConversionsConcluded)

\* WorkspaceSettles of the tag manager workspace.
TagWorkspaceSettles == <>[](Only("workspace") => WorkspaceInPlace)
=============================================================================
