------------------------------ MODULE AdsLaunch ------------------------------
(***************************************************************************)
(* A plan for advertisements on its way to campaigns.  Candidates of each  *)
(* strategy object and provider are drafted into a file, a person reviews  *)
(* it, a dry run leaves a receipt with the hash of the plan, and a live    *)
(* call with plan and receipt launches the campaigns of all candidates at  *)
(* once and leaves a receipt of its own.  Both calls hold the lock file of *)
(* the environment, which a death leaves behind until a person removes it. *)
(*                                                                         *)
(* Each call is a process.  The plan is a file that may be drafted anew or *)
(* edited between any two reads of it; a hash is the plan hashed.  The     *)
(* operator gives every confirmation and enables the live executor, and    *)
(* the account allows campaigns to be created.                             *)
(***************************************************************************)
EXTENDS Naturals, Sequences, FiniteSets

CONSTANTS
    Objects,        \* strategy objects, and ad groups of an SEO plan
    StrategyMaps,   \* what may be known of them: "ready", or what is missing
    MetaEnabled,    \* whether the project has Meta Ads besides Google Ads
    HasCriteria,    \* whether campaigns get locations, languages or negatives
    AdGroups, CampaignAssets,   \* how many the campaign of each object gets
    MaxAdsCalls, MaxDrafts, MaxAdsCommands, MaxCrashes  \* bounds: applies, drafts, both; deaths

Knowledge == {"absent", "ready", "no landing page", "no conversion", "mismatch", "no keywords"}

ASSUME LaunchAssumption ==
    /\ StrategyMaps \subseteq [Objects -> Knowledge]
    /\ MetaEnabled \in BOOLEAN /\ HasCriteria \in BOOLEAN
    /\ AdGroups \in [Objects -> Nat] /\ CampaignAssets \in [Objects -> Nat]
    /\ MaxAdsCalls \in Nat /\ MaxDrafts \in Nat /\ MaxAdsCommands \in Nat /\ MaxCrashes \in Nat

AdsCalls == 1 .. MaxAdsCalls
Launches == {"googleAds", "metaAds"} \X Objects

VARIABLES
    adsPlan,        \* the plan file
    adsReceipts,    \* what dry runs recorded: ready or not, and a plan by its hash
    adsLock,        \* the call that made the lock file, or 0
    adsCall,        \* of each call where it is and what it read
    launchResults,        \* of each call and launch the result, or what it waits for
    built,          \* of each call and launch the steps the provider took
    namedGroups,    \* of each call and launch how many ad groups the answer named
    drafts, crashes

launchVars == <<adsPlan, adsReceipts, adsLock, adsCall, launchResults, built, namedGroups, drafts, crashes>>

NoAdsPlan == [status |-> "absent", candidates |-> {}]
NewCall == [phase |-> "new", plan |-> NoAdsPlan, hashed |-> NoAdsPlan, ready |-> FALSE, google |-> FALSE]

LaunchInit ==
    /\ adsPlan = NoAdsPlan /\ adsReceipts = {} /\ adsLock = 0
    /\ adsCall = [c \in AdsCalls |-> NewCall]
    /\ launchResults = [c \in AdsCalls |-> [l \in Launches |-> "none"]]
    /\ built = [c \in AdsCalls |-> [l \in Launches |-> 0]]
    /\ namedGroups = [c \in AdsCalls |-> [l \in Launches |-> 0]]
    /\ drafts = 0 /\ crashes = 0

-----------------------------------------------------------------------------
\* The candidates and the actions each proposes.
BaseBlockers(known) ==
    CASE known = "no landing page" -> {"landing_page_required"}
      [] known = "no conversion" -> {"conversion_mapping_required"}
      [] known = "mismatch" -> {"conversion_reconciliation_mismatch"}
      [] OTHER -> {}

AdsAction(type, approval, blocks) == [type |-> type, approval |-> approval, blocks |-> blocks]
Approved(types) == {AdsAction(type, TRUE, FALSE) : type \in types}

Validations(known) ==
    {AdsAction("validate_landing_page", FALSE, "landing_page_required" \in BaseBlockers(known)),
     AdsAction("validate_conversion_mapping", TRUE, "conversion_mapping_required" \in BaseBlockers(known))}

GoogleAdsActions(known) ==
    Validations(known) \cup Approved({"validate_account_settings"})
        \cup IF known = "no keywords" THEN {AdsAction("hold", FALSE, TRUE)}
             ELSE Approved({"create_campaign", "configure_campaign_settings", "create_ad_group", "add_keywords",
                            "add_negative_keywords", "create_responsive_search_ad", "set_budget_guardrail",
                            "set_bid_strategy"})

MetaAdsActions(known) ==
    Validations(known) \cup {AdsAction("prepare_creative", TRUE, TRUE)}
        \cup Approved({"create_campaign", "create_ad_set", "create_ad_creative", "create_ad",
                       "set_budget_guardrail", "set_bid_strategy"})

ActionsOf(candidate) ==
    IF candidate.provider = "googleAds" THEN GoogleAdsActions(candidate.known) ELSE MetaAdsActions(candidate.known)

CandidateBlockers(candidate) ==
    BaseBlockers(candidate.known) \cup {a.type : a \in {b \in ActionsOf(candidate) : b.blocks}}

PlanBlockers(plan) ==
    UNION {CandidateBlockers(candidate) : candidate \in plan.candidates}
        \cup IF plan.candidates = {} THEN {"missing_strategy_map"} ELSE {}

-----------------------------------------------------------------------------
\* What an action is to the apply policy.
AdsSafety(action) ==
    CASE action.blocks -> "blocked"
      [] ~action.blocks /\ action.type = "validate_landing_page" -> "verification"
      [] ~action.blocks /\ action.type = "validate_conversion_mapping" -> "low_risk_change"
      [] OTHER -> "spend_or_launch"

MutationIntent(action) ==
    CASE action.blocks -> "blocked"
      [] ~action.blocks /\ action.type \in {"validate_landing_page", "validate_conversion_mapping"} -> "verify"
      [] ~action.blocks /\ action.type = "set_budget_guardrail" -> "spend_increase"
      [] OTHER -> "launch_or_expand"

ApprovalTier(action) ==
    IF AdsSafety(action) = "spend_or_launch" THEN "strict" ELSE IF action.approval THEN "standard" ELSE "none"

FirstApplyEligible(action) == AdsSafety(action) = "verification" /\ ~action.approval /\ ~action.blocks

LiveExecutable(action) ==
    /\ action.type = "create_campaign"
    /\ ApprovalTier(action) = "strict"
    /\ MutationIntent(action) = "launch_or_expand" /\ AdsSafety(action) = "spend_or_launch"
    /\ ~action.blocks

\* What a dry run finds against a plan.
PreviewReady(plan) ==
    /\ plan.status = "reviewed"
    /\ PlanBlockers(plan) = {}
    /\ \E candidate \in plan.candidates : \E a \in ActionsOf(candidate) : FirstApplyEligible(a)

LiveOperations(plan) ==
    {<<candidate.provider, candidate.object>> :
        candidate \in {k \in plan.candidates : \E a \in ActionsOf(k) : LiveExecutable(a)}}

\* What a live call finds against the plan and the receipt it was given.
LiveReady(c) ==
    /\ adsCall[c].ready /\ adsCall[c].hashed = adsCall[c].plan
    /\ adsCall[c].plan.status = "reviewed"
    /\ LiveOperations(adsCall[c].plan) # {}

-----------------------------------------------------------------------------
AdsCommandLeft == drafts + Cardinality({c \in AdsCalls : adsCall[c].phase # "new"}) < MaxAdsCommands

\* ads plan: whatever the strategy files now say; a provider may be chosen.
DraftPlan(known, providers) ==
    /\ drafts < MaxDrafts /\ AdsCommandLeft
    /\ drafts' = drafts + 1
    /\ adsPlan' = [status |-> "draft",
                   candidates |-> {[provider |-> l[1], object |-> l[2], known |-> known[l[2]]] :
                                      l \in {k \in providers \X Objects : known[k[2]] # "absent"}}]
    /\ UNCHANGED <<adsReceipts, adsLock, adsCall, launchResults, built, namedGroups, crashes>>

\* A person edits the status in the file.
ReviewPlan ==
    /\ adsPlan.status = "draft"
    /\ adsPlan' = [adsPlan EXCEPT !.status = "reviewed"]
    /\ UNCHANGED <<adsReceipts, adsLock, adsCall, launchResults, built, namedGroups, drafts, crashes>>

\* Calls are numbered as they come.
NextCall(c) == AdsCommandLeft /\ adsCall[c].phase = "new" /\ \A d \in 1 .. c - 1 : adsCall[d].phase # "new"
Phase(c, phase) == adsCall' = [adsCall EXCEPT ![c].phase = phase]

\* The dry run reads the plan for its verdict, and again for the hash.
StartPreview(c) ==
    /\ NextCall(c) /\ adsPlan # NoAdsPlan
    /\ adsCall' = [adsCall EXCEPT ![c].phase = "previewing", ![c].plan = adsPlan]
    /\ UNCHANGED <<adsPlan, adsReceipts, adsLock, launchResults, built, namedGroups, drafts, crashes>>

\* 'wx': with the file there the call ends in an error.
TakeLock(c, phase, others) ==
    IF adsLock = 0
    THEN adsLock' = c /\ adsCall' = [adsCall EXCEPT ![c] = [others EXCEPT !.phase = phase]]
    ELSE adsLock' = adsLock /\ Phase(c, "refused")

LockPreview(c) ==
    /\ adsCall[c].phase = "previewing"
    /\ TakeLock(c, "previewed", [adsCall[c] EXCEPT !.hashed = adsPlan])
    /\ UNCHANGED <<adsPlan, adsReceipts, launchResults, built, namedGroups, drafts, crashes>>

WritePreview(c) ==
    /\ adsCall[c].phase = "previewed"
    /\ adsReceipts' = adsReceipts \cup {[ready |-> PreviewReady(adsCall[c].plan), plan |-> adsCall[c].hashed]}
    /\ adsLock' = 0
    /\ Phase(c, "ended")
    /\ UNCHANGED <<adsPlan, launchResults, built, namedGroups, drafts, crashes>>

\* The command reads the plan for the providers it needs credentials of; those
\* of Meta Ads it refuses.
StartLive(c) ==
    /\ NextCall(c) /\ adsPlan # NoAdsPlan
    /\ \A candidate \in adsPlan.candidates : candidate.provider # "metaAds"
    /\ adsCall' = [adsCall EXCEPT ![c].phase = "resolving", ![c].google = adsPlan.candidates # {}]
    /\ UNCHANGED <<adsPlan, adsReceipts, adsLock, launchResults, built, namedGroups, drafts, crashes>>

ReadForLaunch(c, receipt) ==
    /\ adsCall[c].phase = "resolving"
    /\ adsCall' = [adsCall EXCEPT ![c].phase = "checked", ![c].plan = adsPlan,
                                  ![c].ready = receipt.ready, ![c].hashed = receipt.plan]
    /\ UNCHANGED <<adsPlan, adsReceipts, adsLock, launchResults, built, namedGroups, drafts, crashes>>

\* All operations start at once, those of a provider with an executor.
Started(c) ==
    [l \in Launches |->
        CASE l \notin LiveOperations(adsCall[c].plan) -> "none"
          [] l \in LiveOperations(adsCall[c].plan) /\ LiveReady(c) /\ l[1] = "googleAds" -> "under way"
          [] OTHER -> "blocked"]

LockLaunch(c) ==
    /\ adsCall[c].phase = "checked"
    /\ TakeLock(c, "executing", adsCall[c])
    /\ launchResults' = [launchResults EXCEPT ![c] = IF adsLock = 0 THEN Started(c) ELSE @]
    /\ UNCHANGED <<adsPlan, adsReceipts, built, namedGroups, drafts, crashes>>

UnderWay(c, l) == launchResults[c][l] = "under way" /\ adsCall[c].phase # "dead"

\* What the executor asks of Google, in order, when the answer to the request for
\* the ad groups names `named` of them: it fills as many, and goes on.  Nothing of
\* it is taken back.
BuildSteps(l, named) ==
    <<"budget", "campaign">>
        \o (IF HasCriteria THEN <<"criteria">> ELSE <<>>)
        \o (IF AdGroups[l[2]] > 0 THEN <<"ad groups">> ELSE <<>>)
        \o [i \in 1 .. 2 * named |-> IF i % 2 = 1 THEN "keywords" ELSE "search ad"]
        \o [i \in 1 .. 2 * CampaignAssets[l[2]] |-> IF i % 2 = 1 THEN "asset" ELSE "link"]

AskedFor(c, l) == BuildSteps(l, namedGroups[c][l])[built[c][l] + 1]

\* A step is taken and acknowledged, the last one is the end of the launch.  The
\* names of a budget, campaign, ad or asset must be in the answer, else the launch
\* fails; those of the ad groups may be missing, and what belongs to them is left out.
BuildStep(c, l) ==
    /\ UnderWay(c, l) /\ adsCall[c].google
    /\ built' = [built EXCEPT ![c][l] = @ + 1]
    /\ \E named \in IF AskedFor(c, l) = "ad groups" THEN 0 .. AdGroups[l[2]] ELSE {namedGroups[c][l]} :
        /\ namedGroups' = [namedGroups EXCEPT ![c][l] = named]
        /\ launchResults' = [launchResults EXCEPT ![c][l] =
                                IF built[c][l] + 1 = Len(BuildSteps(l, named)) THEN "sent" ELSE @]
    /\ UNCHANGED <<adsPlan, adsReceipts, adsLock, adsCall, drafts, crashes>>

\* mutant: the error of one operation is the error of the call
FailsCall(c, l) ==
    /\ UnderWay(c, l)
    /\ launchResults' = [launchResults EXCEPT ![c][l] = "failed"]
    /\ adsLock' = IF adsLock = c THEN 0 ELSE adsLock
    /\ Phase(c, "unrecorded")
    /\ UNCHANGED <<adsPlan, adsReceipts, built, namedGroups, drafts, crashes>>

\* A step is refused, or its answer lost: the operation has failed, the others
\* go on.
FailLaunch(c, l) ==
    /\ UnderWay(c, l)
    /\ launchResults' = [launchResults EXCEPT ![c][l] = "failed"]
    /\ built' \in {built} \cup (IF adsCall[c].google THEN {[built EXCEPT ![c][l] = @ + 1]} ELSE {})
    /\ UNCHANGED <<adsPlan, adsReceipts, adsLock, adsCall, namedGroups, drafts, crashes>>

\* When all have ended the receipt is written, or cannot be; the lock goes.
EndLaunch(c) ==
    /\ adsCall[c].phase = "executing" /\ \A l \in Launches : ~UnderWay(c, l)
    /\ \E phase \in {"recorded", "unrecorded"} : Phase(c, phase)
    /\ adsLock' = 0
    /\ UNCHANGED <<adsPlan, adsReceipts, launchResults, built, namedGroups, drafts, crashes>>

\* The process dies while it holds the lock, and a step it has sent may still be
\* taken.  One that dies without the lock is like one that does not go on.
DieLaunching(c) ==
    /\ adsCall[c].phase \in {"previewed", "executing"}
    /\ crashes < MaxCrashes
    /\ crashes' = crashes + 1
    /\ Phase(c, "dead")
    /\ \/ UNCHANGED built
       \/ \E l \in Launches : UnderWay(c, l) /\ adsCall[c].google /\ built' = [built EXCEPT ![c][l] = @ + 1]
    /\ UNCHANGED <<adsPlan, adsReceipts, adsLock, launchResults, namedGroups, drafts>>

\* A person removes the lock file of a call that died.
RemoveAdsLock ==
    /\ adsLock # 0 /\ adsCall[adsLock].phase = "dead"
    /\ adsLock' = 0
    /\ UNCHANGED <<adsPlan, adsReceipts, adsCall, launchResults, built, namedGroups, drafts, crashes>>

LaunchNext ==
    \/ \E known \in StrategyMaps :
        \E providers \in SUBSET {"googleAds", "metaAds"} \ {{}} :
            (MetaEnabled \/ "metaAds" \notin providers) /\ DraftPlan(known, providers)
    \/ ReviewPlan
    \/ \E c \in AdsCalls :
        \/ StartPreview(c) \/ LockPreview(c) \/ WritePreview(c)
        \/ StartLive(c) \/ (\E receipt \in adsReceipts : ReadForLaunch(c, receipt)) \/ LockLaunch(c)
        \/ \E l \in Launches : BuildStep(c, l) \/ FailLaunch(c, l)
        \/ EndLaunch(c) \/ DieLaunching(c)
    \/ RemoveAdsLock

LaunchSpec == LaunchInit /\ [][LaunchNext]_launchVars

-----------------------------------------------------------------------------
\* Whatever is edited, fails or dies, and however calls meet: while operations
\* of a living call are under way it holds the lock, so that two never launch at
\* once; whatever was built at a provider is in the receipt of its call, or the
\* call said that it could not write one, or died; it was asked for by a reviewed
\* plan whose hash a ready receipt has; and the receipt says "sent" only of what is
\* finished as far as the answers named it: an ad group that was made and not named
\* stays without keywords and ads, and "sent" does not say that there is none.
LaunchesAccounted ==
    \A c \in AdsCalls, l \in Launches :
        /\ UnderWay(c, l) => adsLock = c
        /\ launchResults[c][l] = "sent" => built[c][l] = Len(BuildSteps(l, namedGroups[c][l]))
        /\ built[c][l] > 0 =>
            /\ adsCall[c].phase = "recorded" => launchResults[c][l] \in {"sent", "failed"}
            /\ adsCall[c].phase \in {"executing", "recorded", "unrecorded", "dead"}
            /\ l[1] = "googleAds" /\ adsCall[c].plan.status = "reviewed"
            /\ [ready |-> TRUE, plan |-> adsCall[c].plan] \in adsReceipts
=============================================================================
