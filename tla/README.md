# A TLA+ verification of Unisane Ops

Unisane Ops lets operators, agents and schedules read provider data and change
provider state (advertising campaigns, tag containers, DNS, cloud resources)
under plans, approvals, leases, receipts and verification. This directory holds
TLA+ modules translated from its TypeScript source, TLC configurations that
check them on small instances, and proofs, checked by TLAPS, that hold for every
value of the constants. `PROJECT.json` maps every definition to the lines it
models.

## Inventory

Sizes are lines of TypeScript without tests. What two actors share decides what
is worth a model; most of the repository is sequential analysis, rendering and
HTTP.

| Component | State it keeps | Operations | Who shares it |
| --- | --- | --- | --- |
| Hosted read runtime (`ops-engine/hosted-read.ts`, `hosted-postgresql`, `apps/hosted-runtime`, 3.0k) | jobs, dispatch outbox, results, audit entries, in PostgreSQL | admit, claim dispatch, execute, put, complete, recover, acknowledge, release | gateway, scheduler and any number of worker processes, through the database only |
| Hosted scheduler | schedules with a claim and a revision, occurrences | save, claimDue, materialize, recoverExpired | scheduler processes; its jobs are admitted into the read runtime |
| Hosted credentials | credential rows, encrypted versions, active version | create, rotate, revoke, getActiveVersion | administrators and workers |
| Campaign pause (`growth/workflows`, `actions`, `playbooks`, 1.8k) | mutation run, target guard, approval, receipt, lease | plan, approve, apply, verify, recover | CLI, console and MCP processes through the execution stores; the provider; people who use the provider directly |
| Execution stores (`ops-engine/local.ts`, `sqlite-execution`) | run revisions, receipts, approvals, leases, plan artifacts | compareAndSet, recordReceipt, put, acquire, renew, release, assertCurrent | every mutation workflow |
| GTM release and workspace (`growth/gtm`) | run, pointers to the last attempt (per kind and per container), approval, receipt, lease | plan, approve, apply, recover | as campaign pause; both kinds share the container |
| Action engine (`ops-engine/execution.ts`, `testing.ts`) | action jobs with claims and an audit list | enqueue, claim, renew, complete, fail, cancel, recoverExpired | workers and requesters |
| Workflows (`ops-engine/workflows.ts`) | workflow run with steps | start, handoff, resume | agents and hosts |
| Conversion delivery (`web-runtime/conversions`) | none of its own; an outbox of the application | publish, deliver, retry, recordReceipt | application processes |
| Advertising assets and launches (`growth/marketing/ads`, `provider-google` executor, 4k) | registry, private sources, plans, provider refs and receipts in files; a lock file per environment | import, approve, archive, plan, preview, upload; draft, review, preview and launch of campaigns | one process per command; people who edit the files; the provider |
| Cloud workflows (`cloud`, `provider-cloudflare`, 6k) | plans, approvals, receipts, one lease per target | plan, apply and check of DNS records, queues, workers, schedules | concurrent calls on one target; the Cloudflare account and other tools that change it |
| AWS provider (`provider-aws`, 9k) | plans and receipts on disk, one lock file per family | plan and apply of S3, CloudFront and domains | an operator, AWS, people and other tools on the account |
| Control plane, readiness, packs | none (pure) | compare desired with observed state | nobody |
| Tag manager workspace (`provider-google/google/tag-manager`, 3k) | none of its own; the resources of the workspace at the provider | inspect, plan, check, apply operation by operation | people who edit the workspace in the tag manager |
| Google and Meta providers (14k) | tokens on disk | HTTP requests, pacing, OAuth | the workflows above |
| Growth analysis, CLI, console, MCP (`growth`, `unisane-ops`, `apps/console`, `ops-mcp`) | reports on disk, session token | read, score, render, dispatch a command | mostly nobody |

**Interaction.** The hosted part is four roles around one database: the gateway
and the scheduler admit jobs together with a dispatch row, workers claim
dispatches, claim jobs, call the provider and write results. The controlled
mutations run in short-lived processes (one per CLI, console or agent call)
that share only the execution stores. Nothing in the repository is
multi-threaded: what interleaves are processes, and every `await` of a store or
provider call is a point where another process may step in.

**What is hard.** Leases that lapse while their holder still works; a reply lost
after its commit; a process that dies between two stores that belong together;
a recovery that decides by time that a request is over; compare-and-set on two
records that cannot be updated at once; clocks of different processes. The list,
each at its line, is under `hazards` in `PROJECT.json`.

**What makes each component correct.**

- Hosted reads: no admitted job is lost, each ends exactly once with the value
  stored for it, a fenced-out worker changes nothing, the audit trail and the
  outbox say exactly what happened.
- Controlled mutations: one request per approved plan, under the lease, exclusive
  per target until observed; the receipt, the output and the guard never disagree;
  an interrupted attempt is reconciled and never repeated.
- Execution stores: a live lease is not taken from its holder, a run is replaced only
  by a successor of the run that was read.
- Scheduler: one job per occurrence that is due, none left out, no schedule stuck.
- Credentials: the active version of a credential is there and opens.
- Action engine: the audit list tells the life of a job, and a cancelled job never
  reports success.
- Delivery: every conversion comes to a conclusion, and no receipt denies what the
  provider took.
- Advertising: what is uploaded is what was approved and shown, no two calls launch at
  once, and nothing is built that no reviewed plan asked for or that no receipt tells of.
- Tag manager workspace: planning and applying again and again reaches the manifest, and
  never writes over an edit that no review has shown.
- Rollouts: planning and applying again and again reaches the configured state from
  every state the account may be in, and keeps what other tools put beside it.

## Modules

| Module | Models | Source |
| --- | --- | --- |
| `ReadContract` | what the hosted runtime promises a client: one verdict per read, never changed, a success publishes the stored value | abstract |
| `HostedRead` | gateway admission, dispatch outbox, workers, recovery, results, audit | `hosted-read.ts`, `hosted-postgresql/src/index.ts`, `worker-process.ts` |
| `HostedReadProofs` | theorems about `HostedRead` | |
| `HostedScheduler` | schedules, claims, materialization of occurrences | `hosted-scheduler.ts`, `scheduler-process.ts`, `hosted-postgresql/src/index.ts` |
| `HostedCredentials` | rotation, revocation and resolution of a credential | `hosted-credentials.ts`, `hosted-postgresql/src/index.ts` |
| `HostedStateProofs` | theorems about `HostedCredentials` and `HostedScheduler` | |
| `ActionExecution` | admission, claim, outcome, cancellation and recovery of action jobs | `ops-engine/execution.ts`, `testing.ts` |
| `MutationContract` | what a controlled mutation promises an operator: one request per plan, exclusive per target, an honest report | abstract |
| `CampaignPause` | plan, approve, apply, verify, recover of a campaign pause over the shared stores | `campaign-pause-execution.ts`, `campaign-pause-run.ts`, `campaign-pause.ts`, `campaign-pause-approval.ts`, `safety.ts`, `sqlite-execution/*` |
| `CampaignPauseProofs` | theorems about `CampaignPause` | |
| `GtmContainer` | approve, apply and recover of release and workspace plans on one tag container | `gtm/release/workflow.ts`, `gtm/workspace/*`, `gtm/container-guard.ts`, `tag-manager/api-client.ts`, `sqlite-execution/*` |
| `GtmContainerProofs` | theorems about `GtmContainer` | |
| `TagManagerSync` | a workspace read, compared with the manifest, reviewed, read twice more and written | `provider-google/src/google/tag-manager/*` |
| `LeaseStore` | the lease of one target in the sqlite and the file store, call by call | `local.ts`, `sqlite-execution/leases.ts` |
| `CloudApply` | approval, lease, preflight, requests and receipt of an apply; extends `LeaseStore` | `cloud/workflow.ts`, `cloudflare-resource-apply.ts`, `cloud-dns.ts`, `safety.ts` |
| `CloudRollout` | what DNS, queue, worker and schedule plans ask for and what their operations make of the account | `cloud/workflow.ts`, `cloudflare-resources.ts`, `cloudflare-resource-workflow.ts`, `cloudflare-resource-apply.ts` |
| `CloudProofs` | theorems about `CloudApply` and its `LeaseStore` | |
| `RunStore` | compareAndSet of a run in both stores | `local.ts`, `sqlite-execution/runs.ts`, `campaign-pause-run.ts` |
| `OpsEngineProofs` | theorems about `RunStore` and `ActionExecution` | |
| `AwsS3`, `AwsCloudFront`, `AwsDomains` | what each family's plan asks for, as operators, and what its requests do | `provider-aws` inventories, plans, applies |
| `AwsRollout` | the three families planned and applied over and over on one account | the same, and the operation lock |
| `ProviderProofs` | theorems about `AwsRollout`, `TagManagerSync` and `CloudRollout` | |
| `ConversionDelivery` | publication, attempts, receipts of conversions to four providers | `web-runtime/src/conversions` |
| `AdsAssets` | media from the import of a file to uploads, creatives and links, command by command | `growth/marketing/ads/assets.ts`, `provider-google/google/marketing/assets.ts` |
| `AdsLaunch` | plan, review, preview and live apply of campaigns under the lock of the environment | `growth/marketing/ads/plan*.ts`, `apply*.ts`, `executors.ts`, `provider-google/google/marketing/live-ads-executor.ts` |
| `MarketingProofs` | theorems about `ConversionDelivery`, `AdsAssets` and `AdsLaunch` | |
| `MCHostedRead`, `MCCampaignPause`, `MCGtmContainer`, `MCAwsRollout` | clocks, kinds of plans, accounts and symmetry for TLC | |
| `MCComponents` | small instances of the components that share no state, in one run | |

### HostedRead

`job`, `dispatch`, `artifact` and `audit` are the tables of the same name
(`migrations.ts`); each database transaction is one action, which is what
PostgreSQL gives the code: `Admit` is `admitBundle`, `ClaimDispatch` is
`claimAvailable`, `ClaimJob`, `Complete`, `RecoverCommit`, `PutAnswer`/`PutResult`,
`Acknowledge` and `Release` are the methods they are named after. A worker's
variables are what `workOnce` keeps across its awaits: the expired jobs it listed
(`todo`), the dispatch and job it holds as it last read them (`hand`, `seen`), and
the outcome it is about to write. The clock is a countdown on each lease and each
process sees it with its own skew (`Stamp`, `Lapsed`), since the code compares
the `now` of one process with the expiry another process wrote. A fault is a dead
process (`Crash`) or a store call that fails, before or after its commit
(`StoreError`, `Reply`). `dispatch.fail` is not modelled: `workOnce` calls it for a
job row that is missing, which the foreign key of `ops_hosted_read_dispatch`
excludes, or whose times are none, which no statement of the store writes. The fencing token of a claim is its revision
(`Token`).

### CampaignPause

Every call of `executeCampaignPauseWorkflow` is a caller, with its own lock owner
as in the host (`lockOwner: campaign.<uuid>`). Every store call is a step. The
names of `pc` follow the code: `locking`, `preflight`, then `recordAttempt`
(`attempting`, `checkingGuard`, `starting`, `guarding`: get run, get guard, store
run, store guard), `sending`/`inFlight` (assertCurrent and the provider request),
`recording` (recordReceipt), `applying`/`storing` (recordApply), `releasing` (the
`finally`); for verify `recovering`, `recoverRead`, `recoverStore` (recovery
receipt and recordApply), `observing`, `observedRead`, `observedStore`,
`guardRead`, `guardClose` (action.verify and recordVerification).

Three abstractions carry the model:

- A revision is kept as the set of records whose latest revision a caller has read
  (`fresh`): a successful compare-and-set of a record removes it from every caller,
  which is exactly when the revision check of another fails.
- The deadlines that race (lease, recovery time, verification window, the 30 s
  abort of a provider request) are countdowns; `Tick` is the passing of one unit.
  A lease check and the request it guards are one step.
- What nobody in the system controls is free: the evidence or the plan may be stale
  at preflight, the campaign may be in any status when it is read.

All runs of the model are on one target; runs on different targets share no lease
and no guard. `ApprovalsFinal` selects the sqlite store (approvals immutable) or the
local one (overwritten).

### GtmContainer

The two workflows run the same protocol on one container, so that one module holds
both: `Kind` says which a plan is, `Size` how many provider writes it has. Every
access to a record that can change is a step. `pc` goes through `preflight` (nothing on
record for the plan), `ownPointer`/`ownRun` (the pointer of the kind and the run it names),
`sharedPointer`/`sharedRun` (`assertGtmContainerReconciled`), `attempting` (the provider is
read and the run stored), `pointing` and `guarding` (the two pointers are put), then for
each write `writing` (`beforeWrite`), `pacing` (rate limit and token) and
`inFlight` (at most `CallLimit`), and `recording`, `storing`, `releasing`. In `pacing` a
request that passed the lease check waits for its token; the refresh of a token is a
`fetch` without timeout (`oauth.ts:65-69`), so that the wait is unbounded. What has passed
of it is counted up to the margin; then the request is `Overdue`, and may leave at any
later time, a judgement of its own attempt included. The properties say what is left:
such a request is the only one that leaves late, and none passes the check after the
judgement. A recovery is
`observing` and `settling`; `verified` and `not-matched` are one status, `judged`, since
the code treats them alike wherever it decides. It differs from the campaign in three
ways, and the properties follow the differences: the pointers are put without a
compare-and-set, so that only the lease keeps them right; a lease check and the request it
guards are two steps with any time in between; and a recovery writes no receipt, so that a
dead apply or recovery never stands in its way. It also judges an attempt without regard
to whether apply recorded its outcome, which is why `MutationContract` (no report after an
observation) is not its contract: a receipt may be recorded after a judgement. Storing a
plan and its approval is not an action: each is one immutable record, and a missing or
expired one is among the reasons for which `Preflight` may fail.

### TagManagerSync

The provider's part of a workspace plan, which `GtmContainer` has only as a number of
writes. A reading is one list after the other (`ListResources`), so that an edit may fall
between two of them. `Normalized` is what the code makes of a reading: the slug of a
resource is told by its configured name, or inferred from a name that carries it, and ids
of folders and triggers are turned into slugs; `SyncOperations` compares that with the
manifest. Three readings are made: for the plan (`ReviewWorkspace`), at the start of
apply (`CheckReview`) and by the executor (`InspectWorkspace`), and the latter two must
show what the first did. `WriteResource` turns slugs back into the ids this apply knows
(`boundIds`), which grow with what it creates; an unknown one or a refusal ends the
apply. `Edit` is a person who changes, renames, pauses or deletes a resource at any
moment. Of the provider it is assumed that names are unique per kind, that an id is
never given twice and that a write with a fingerprint is refused if the resource has
another one. A create whose answer was lost after an edit renamed its target leaves two
resources of one slug, of which every plan is refused: `Investigate` is the person who
then deletes one.

Not everything of a resource is read. A tag of type `meta_pixel` that has its configured
name is read as what the manifest says of it, without the HTML that apply wrote
(`remote-snapshot.ts:607-653`): `Payload` takes the content of the `Pixels` for the
configured one, so that nobody who edits a pixel by hand sees it put right, no plan shows
the edit, and a write for another reason overwrites it. `InPlace` therefore asks nothing of
the content of a pixel. A folder whose id no folder of the reading has is read as none.

What was met on the way and is not in the instance, since no rollout of it settles: a
trigger with filters or of a page path is read back in another form than it is written
in, so that every plan updates it again; a custom template is compared with resources
that the plan does not read and the apply does. A managed tag that somebody renames to a
name without slug is not recognized any more: it goes on firing, and a second is created.

### LeaseStore, CloudApply and RunStore

`LeaseStore` has both stores a host may select. In the sqlite store an operation is a
transaction and an action (`SqliteAcquire`, `SqliteRelease`). In the file store each file
system call is one: `Look` reads the lease file, `UnlinkExpired` removes it, `ReadCounter`,
`StageCounter` and `CommitCounter` draw the fencing value, `CreateLease` creates the file
exclusively and `FillLease` writes it. A caller compares with the time at which it asked,
as the code does with the `now` it was given.

`CloudApply` extends it with the apply of a reviewed Cloudflare plan: an approval is put
(`StartApply`), the lease acquired, the approval, the lease and the absence of a receipt
checked (`CheckApproval`, `CheckTargetLease`, `CheckReceipt`), and for each operation the
settings read if it merges (`ReadOperation`), the lease asserted (`BeforeEffect`), the
request sent (`TakeEffect`, `Accept`, `Refuse`), and one receipt recorded at the end
(`RecordResults`). `Late` says whether a request may land after the lease it was checked
under: a provider may be that slow, and nothing in the code fences it; the run takes it
to be false, and `BindingsKept` depends on that. The approval is put before the lease is
held, so that a call that is refused has already tried to replace it; the stores decide
whether it may. A renewed approval of the same plan is refused by the sqlite store
(`records.ts:68`), expired or not, so that an approval that expired can only be replaced
by a new plan.

A call may also throw under its own live lease (`Throw`): a secret that cannot be
resolved, a schedule without its set, a receipt that cannot be stored. The `finally`
releases the lease and no receipt is left, so that, in the file store, where the approval
may be overwritten, the same plan can be applied again and repeats what it had done, with
no death and no lapse; `EffectOnce` excepts those plans (`thrown`), and `ReceiptFinal` says
what holds all the same: once a plan has a receipt, it does nothing more.

`RunStore` is `compareAndSet` alone, the primitive on which the guards of all mutation
workflows rest: `SetRow` in one transaction, or `OpenLock`, `ReadRun`, `RenameRun` and
`UnlinkLock` with those of others in between. A process that dies between them leaves the
`.lock` file, after which every store of that run conflicts (`local.ts:276`): the model has
it (`DieWriting`), and no property asks for progress there.

### CloudRollout

The account is one record: DNS records, queues and their consumers, scripts, routes,
bindings and schedules. Each focus (`dns`, `queues`, `workers`, `cron`) is planned from an
inventory and applied; `FlarePlanOf` is the plan, `EnactFlare` what an operation makes of
the account. The apply goes on after an operation that failed (`FailOperation`). Another
tool may add DNS records. Excluded, since no rollout of them settles: two entries of one
name and type, whose single-record updates undo each other; and a worker route whose zone
is configured by its name, which never gets a zone id and so is refused by every apply
(`RouteZoned`). The plan of a worker compares scripts, routes and consumers but not
bindings, and an upload may drop bindings that it does not name; the rollout still settles,
since the plan re-applies variables and secrets always.

### AwsS3, AwsCloudFront, AwsDomains and AwsRollout

The first three are pure: from what was read of the account they build the plan
(`S3Plan`, `CloudFrontPlan`, `DomainsPlan`), its requests, and the accounts a request may
lead to (`EnactS3`, `EnactCloudFront`, `EnactDomains`; the empty set is a refusal).
Of a lifecycle rule the inventory reads id, prefix, status and days (`AsRead`), and a lifecycle
request puts back that reading of every rule of the bucket (`Amended`): tags, transitions
and the expiry of noncurrent versions of any rule (`more`) are lost to it. A bucket with a
rule without prefix or days is refused by apply, and one where the id of the new rule is
taken (an own rule that was disabled, for instance) by S3; neither is ever put right, and
what comes after it in the plan is never reached (`Acceptable`, `Hopeless`, `Settled`). A
reading of a domains resource that fails is an empty inventory (`Misreadings`,
`PlanAmiss`), which plans a `create` of what is there: a certificate may be requested
twice. A reading of S3 or CloudFront that fails makes a plan that apply refuses. A hosted
zone of the other mode, private for public, blocks the plan (`otherMode`) until somebody
makes the right one, whose records begin empty.

`AwsRollout` is the operator at work: `MakePlan`, `StartOperations` (validation, lock
file), `Request` by `Request`, which stops at the first failure (`Setback`),
`FinishOperations`; a plan may be applied again as it is (`RepeatPlan`), a process may die
and leave its lock file (`DieApplying`) until somebody removes it. `Prerequisite` is what
people do by hand (a zone, DMARC, a subscription, production access), `Progress` what AWS
does by itself (a certificate is issued when its record is there). The families depend on
each other in a circle of sorts: the CDN waits for the certificate, the certificate for
its record, the alias record for the CDN. Known and left out of the instance: two CDNs on
one origin bucket are found by their origin and so steal each other's distribution; of two
lifecycle operations in one plan the second erases the rule of the first, which the next
plan then asks for again (the instance has two prefixes: it settles); tags are put whole,
so that foreign tags are lost. The sending readiness of an identity without bounce and
complaint destinations stays a blocker whatever the staged rollout allows.

### HostedScheduler, HostedCredentials and ActionExecution

`HostedScheduler`: a process repeats `StartWork` (reads its clock), `RecoverSchedules`,
`ClaimDue` and `Materialize`, each a transaction; whatever goes wrong ends the process
(`FailScheduler`), a materialization whose commit was not answered included, and the host
starts it anew (`RestartScheduler`). `occurrences` and `admitted` are what was
materialized, `DueTimes` what should have been.

`HostedCredentials`: an operator holds a record it read (`copy`), seals a secret under it
(`SealVersion`: the key and the version are the additional data) and stores it (`Rotate`),
any of which may be long after another rotation or a revocation; an answer may be lost. A
ciphertext is what it was sealed with, and `Opens` compares that with the row.

`ActionExecution`: jobs are admitted once for a key (`Admit`), claimed under a token
(`ClaimNext`), answered (`Deliver`), cancelled (`Cancel`) and recovered
(`RecoverActions`), with an audit entry for each.

### ConversionDelivery

`outbox` is the host's: an event is `pending`, `claimed` or `delivered`, the host numbers
the attempts. An attempt checks age and permission (`CheckDelivery`), sends
(`SendConversion`), records a receipt (`RecordConversion`) and returns or throws.
`FailureKind` is how each transport classes the answers of its provider, which differ: a
401 is permanent for Meta and Google Ads and retried for Data Manager; settings that no
upload can be made with are an error of the Google Ads client that counts as uncertain and
is retried; what the subscriber's guards refuse (`subscriber.ts:45-76`), an event of another
binding, is thrown before there is anything to record and tried again (`TurnBack`). `wiring`
says which of the two an event meets until the host is set right (`CorrectWiring`), which
nothing promises: `ConversionsConcluded` asks for a conclusion only of events that are wired
right. A duplicate code of
Google Ads after an attempt whose answer was lost is a rejection, although the event was
counted, so that the terminal receipt may be `rejected` for an event the provider has:
`ReceiptsDoNotDeny` therefore asks that no receipt denies an event that no unknown or
missing receipt accounts for. A gap in the attempt numbers is left by a crash after the
call as well as by one before it.

### AdsAssets and AdsLaunch

`AdsAssets`: a command reads the registry into `snapshot` and writes it back whole
(`ReadRegistryFor`, `WriteRegistry`); an import copies the file, hashes the copy and only
then reads the registry (`CopySource`, `HashSource`, `ReadForImport`). An upload is
planned (`WriteUploadPlan`), shown (`PreviewUpload`) and done operation by operation:
`ReadSource` reads the bytes and compares them with the plan, `ProviderTakes` sends those
very bytes, `WriteRef` keeps the id. A file of the store may be replaced at any moment
(`ReplaceSource`). `vetted` is a history variable: what somebody approved, as the registry
had it when the approval was written.

`AdsLaunch`: `DraftPlan` turns what the strategy files say into candidates and their
actions, `ReviewPlan` is the person who edits the status, a dry run (`StartPreview`,
`LockPreview`, `WritePreview`) leaves a receipt with the hash of the plan, and a live call
(`StartLive`, `ReadForLaunch`, `LockLaunch`) starts all launches at once, each a sequence
of requests of which nothing is taken back (`BuildSteps`). Calls hold the lock file, a
death leaves it (`DieLaunching`) until a person removes it (`RemoveAdsLock`). The answer to
the request for the ad groups may name fewer than were asked for, or none
(`live-ads-executor.ts:97-105`): the keywords and ads of the rest are then left out, and
the launch is recorded as sent all the same (`namedGroups`). `LaunchesAccounted` hence takes
a launch that was sent to have all the steps that its answer left it (`BuildSteps`). The
model has how many were named, not which: a name that is missing in the middle gives the
keywords of one ad group to the next.

What the code does and the models keep, without a property that forbids it: of two
commands that read the registry before either writes, the later write undoes the other, an
archive included; `approve` names no hash and approves whatever the registry has by then;
a creative plan ignores the lifecycle of its assets, and a campaign link the hash of its
ref; the dry run reads the plan for its verdict and again for the hash, so that a ready
receipt may carry the hash of a newer plan; the command reads the plan for the credentials
it needs and the apply reads it again; nothing stops one plan from being launched twice;
the receipt of a failed launch says `liveMutationSent: false` although requests may have
been taken; an apply that cannot write its receipt still removes its lock; and a Meta
candidate blocks every preview (`prepare_creative` always blocks) and has no executor.

## Runs

| Run | Instance | Shows |
| --- | --- | --- |
| `hosted_safety` | 2 workers one tick of skew apart, 1 job, 2 outputs, 1 fault | audit and dispatch ledgers, fencing, artifact, lease and acknowledgement |
| `hosted_liveness` | 2 workers, 2 jobs, recovery limit 1, 1 fault, fairness | every job settles and none starves the other, the outbox drains, `ReadContract` with its fairness is implemented |
| `hosted_retry_conflict` | as safety | **violated**: a recovered read may be refused as a result conflict |
| `campaign_races` | 2 callers, 2 plans, leases that lapse at any step | one exclusive request per plan; output and receipt agree; `MutationContract` |
| `campaign_crashes` | 2 callers, 1 plan, 2 faults, provider may reject, approval renewed | the guard survives every cut, and no recovery meets a request, through crashes and failed stores |
| `campaign_liveness` | 1 caller, 2 plans, fairness, no faults | attempts resolve, the target reopens |
| `campaign_lost_output` | 1 caller, 1 fault, fairness | **violated**: a receipt without output is never reconciled |
| `campaign_verified_guard` | 1 caller, 1 fault, fairness | **violated**: a verified run may leave its target closed |
| `gtm_races` | 2 callers, 2 releases and a workspace plan of 2 writes, 1 fault, checked requests that wait for any time | no plan writes beside an attempt that was not judged, none after its own judgement, but for a request that waited longer than the margin; an overwritten pointer loses no open attempt; receipts are complete; a judgement is not erased |
| `gtm_slow_checks` | 2 callers, 3 plans, slow reads | **violated**: a slow apply overwrites the pointer of a later attempt |
| `components` | eleven small instances, one at a time | see below |
| `aws_unsigned` | a distribution somebody else made, 1 setback | **violated**: a distribution whose access control was created but not attached is a no-op for every later plan |

The run `components` checks components that share no state. Its variable `part` says which
of them runs; the others stay as they begin, with one initial state each, so that the
behaviours are those of the parts, one after the other, and not their product. The first
call of `apply` is taken to be of one of the two callers (`FirstCall`), which are alike. An
invariant or action property of a component is checked as it stands; what must happen
(`AwsPlansSettle`, `CloudflareSettles`, `SchedulesCatchUp`, `ActionJobsSettle`,
`DeliveriesConclude`, `TagWorkspaceSettles`) is asked of the part that runs.

| Part | Instance | Shows |
| --- | --- | --- |
| `apply` | 2 calls, 2 plans of one target, both stores, 1 death or throw, which may be of an earlier call that left its lease | a live lease is lost only in the file store and only after a death or a lapse (`LeaseKept`); an operation takes effect once, but for the file store after a call died, outlived its lease or threw (`EffectOnce`); after a receipt none does (`ReceiptFinal`); no binding is lost (`BindingsKept`); a sqlite receipt names the stored approval (`ReceiptApproved`) |
| `aws` | 1 bucket, CDN, certificate, identity and zone; three accounts partly done, one bucket with a foreign rule that says more, one with an own rule disabled, one zone of the other mode; 1 setback (a failed request, death or reading), 1 repetition, 1 foreign rule added, two of these three (`MaxIncidents`) | rollouts settle, up to a lifecycle request that is refused for ever; a foreign lifecycle rule loses its id, prefix, status or expiration only to a plan made before it |
| `cloudflare` | 2 entries with 3 values, 2 queues, 1 worker; 7 accounts; 1 setback, 1 foreign record | rollouts settle |
| `schedules` | 2 schedulers, 2 schedules of different cadence, 3 units of time, 1 fault | exactly one occurrence and job for each time that was due; schedules catch up |
| `credentials` | 2 operators, 2 keys, 3 versions, 1 lost answer | the active version is there and opens |
| `actions` | 2 workers, 2 keys, 1 death | the audit list tells the life of a job; jobs settle |
| `conversions` | 2 events of two providers, both wired right or both wrong at first, 2 troubles | no receipt denies what was taken; deliveries conclude where the wiring is right |
| `runs` | 3 writers, both stores, 1 death | a run is replaced only by a successor of the run that was read |
| `assets` | 2 commands at a time, 5 in all, one of which may die, 1 asset, 2 contents, 2 files, 1 upload | what the provider has was approved and shown; creatives and links name what was uploaded |
| `launch` | 3 objects, 2 states of the strategy files: two bare campaigns, or one with an ad group and an asset; an answer may name no ad group; 3 calls, 2 drafts, 4 commands, 1 death | launches exclude each other; what was built was asked for and is told |
| `workspace` | a folder, a trigger, a tag that fires on it and on one of the container (a pixel), a tag of an earlier manifest; 3 workspaces; 1 edit, 1 failure | the workspace settles; an edit after the review is not overwritten |

**Bounds.** Two workers or callers are enough for every race in this code, since
each conflict is between one holder and one other process (a compare-and-set, an
expiry, an unlinked row); two jobs or plans are enough for one to take what the
other holds. The file lock of a run needs a third writer, one that waits while the other
two meet. One unit of the campaign clock is 30 s: lease 1, delay 0 or 1, margin 1
and abort 1 keep the order of the real deadlines (the request is aborted no later
than the margin, `TimeAssumption`), and the margin is tight there, so a shorter one
is caught. One or two faults cover every single cut and every cut of the recovery of
a cut. The container needs a
third plan to write beside an attempt whose pointer was overwritten; the wait of a checked
request there has no bound, since what passed of it is counted only until the margin is
reached. `Prompt` is the assumption that apply reads the
provider in less than its lease: the code does not ensure it, and `gtm_slow_checks` shows
what depends on it. The accounts of a rollout begin where one of its families still has
all to do and the others are done, since a family acts on its own part; what couples them
(certificate, record, CDN) is undone together. `MaxApprovals`, `MaxFaults`,
`MaxRepeats`, `MaxStrangers`, `MaxClock`, `MaxVersion` and their like are bounds in the
guards, and `MaxRevision` is the revision from which a read is punctual.
Deadlock is not checked where a run of the model ends when all jobs or plans are done
and the bounds are used up.

**Fairness.** The worker process loops on `workOnce` until it is stopped and the
deployment restarts it: weak fairness of worker steps and restarts, and of time.
A read must in the end be shorter than its dispatch lease (`Punctual`), which nothing
in the code ensures: without it a slow provider is read forever. For the campaign,
a call that has begun runs on and time passes (weak fairness); the operator follows
the `nextStep` of the review again and again (strong fairness of `Verify`, since
another call may get in first) and a campaign that is asked for again and again is in
the end readable (strong fairness of a decisive `Observe`). A scheduler process loops and
is restarted, and so are the workers of the action runtime and of the delivery, whose host
also calls the recovery; an operator of a rollout plans (`ComesUp`) and applies (`Applies`) again and again,
removes the lock file of a dead process and completes what only people can do, and AWS
issues what it can; so does the operator of a tag manager workspace (`SyncStep`), who also
looks into resources that are ambiguous (`Investigate`): all weak. None of these is assumed by a safety property.

## Proofs

`HostedReadProofs` proves, for any sets of workers, jobs and outputs, any lease, skew
and bound: `TypeCorrect`, `AuditLedgerHolds`, `DispatchLedgerHolds`,
`FencedOutHolds` and `LeaseProtectsHolderHolds`. The inductive invariant is
`IInv == TypeInv /\ HistoryInv /\ FenceInv`. `HistoryInv` says that revision, attempt
counter, audit entries and dispatch rows of a job are functions of one another; neither
ledger is inductive alone, because an audit id is fresh only if no entry of its revision
exists, and a dispatch id only if every row is of an earlier offer. `FenceInv` says of a
worker between claim and complete that the job still carries its token, or has moved to
a later revision; and that the lease it was stamped with is the one in the row. Each
action is one lemma or step, each conjunct it disturbs a step below it. The proofs use
the constants' assumptions stated in `HostedRead` and nothing else.

`ArtifactMatchesHolds` and `OnlyOwnerClosesDispatchHolds` build on the same invariant. The
first adds that what a worker is about to complete with is what the store holds (`ReportInv`).
For the second, an inserted row has an id no row has (`FreshDispatch`), so that a claim ends
only by an acknowledgement or a release of its owner or by the claim of another, whose clock
saw the lease end. `Implementation` is the refinement of `Contract!Safety`, the part of
`ReadContract` without fairness: `Verdict` is a function of the job row, and each step is seen
by the client as an admission, a stored artifact, a completion, or nothing
(`ContractStep`, `SameVerdict`). A job only completes with the artifact that is stored for it.

`CampaignPauseProofs` proves, for any callers, runs and answers, any lease, delay and
bound, and any margin that is at least the limit of a request: `TypeCorrect`,
`GuardCoversRequestHolds`, `OutputMatchesReceiptHolds`, `NoRecoveryInFlightHolds`,
`RequestIsExclusiveHolds` and `Implementation`, that the workflow implements
`MutationContract`. The inductive invariant (checked by TLC on the instances of
`campaign_races` and `campaign_crashes` before it was proved) says what a caller may rely
on at each step: a record it has read is as it was while its read is the latest
(`FreshInv`); two callers never have an attempt on one run (`Exclusive`), since the
attempt is stored against the latest read; under an unexpired lease the wait of the run
exceeds the lease by the margin, and in flight it exceeds the time left to the request
(`TimeInv`). The properties need one another: the guard is never given away before an
observation, an observation needs an output, an output needs a receipt, a recovery's
receipt needs a wait of zero, and the wait of a request in flight is positive. What a
step of one caller may do to the others is one predicate (`Undisturbed`); `Compose`
shows that it suffices, and there is one lemma per action (`SendKeeps`,
`AttemptStoreKeeps`, ...). For the refinement every step is shown to be seen by the
contract as a request, an answer, a report, an observation or nothing (`NextSeen`).

`GtmContainerProofs` proves, for any callers, plans, sizes, delays and limits:
`TypeCorrect`, `ReceiptIsCompleteHolds`, `RecoveryNotErasedHolds` and
`NoWriteAfterRecoveryHolds`; and `WritesAwaitRecoveryHolds` where `Prompt`, without which the run `gtm_slow_checks` has a counterexample. The first invariant
(`IInv`) says that an attempt has one caller, since its run is created once (`Exclusive`);
that what this caller has counted is what was sent (`AttemptInv`); and that the wait of a
recovery exceeds the lease of its attempt by the margin (`LeaseInv`). From it follows
`PaceInv`: while a checked request has not waited longer than the margin, the recovery of
its attempt still has at least the rest of that to wait, so that no judgement precedes it.
Nothing is assumed of how long the request waits; the exception in both properties is the
case in which it is longer.
The last theorem adds `PrepareInv`, that a call holds the lease until its pointers are put,
and `PointerInv`, that nobody therefore moves the pointer whose run it found judged. TLC
had checked these on the instance of `gtm_races` first.

`OpsEngineProofs` proves, for any number of writers, deaths and revisions and either store,
`RunTypeCorrect` and `ComparedRunKept`: between the read and the rename of a writer the
run does not change. What makes it inductive is that the `.lock` file is there while
somebody holds it (`LockHeld`) and that nobody else does (`OneHolder`). It also proves
`ActionTypeCorrect`, for which it is needed that a job has a token exactly while it is
claimed, and that an audit list is there for each job. `AuditsTell` adds to this what an entry
does to the three things the audit is read for: the status that the last entry stands for
(`Tells`), the number of claims and the number of ends. The counts are cardinalities of sets
of positions, of which an appended entry adds one or none; an end is appended only to a job
that has not ended, whose audit by the invariant holds none.

`HostedStateProofs` proves `ActiveOpens`, for any operators, keys and versions, and the
types of credentials and schedules. `CredentialIndInv` says that there is one row per
version and none above the active one, that the active one is sealed as the record says,
that a sealing in an operator's hand is for the record beside it, and that no copy is
ahead of the record: a stored version is hence either what the record now needs or is
refused by its revision. For the scheduler, a claim has a token exactly while it has an
expiry. `OccurrencesAreExact` adds that a row has come as many cadences past its first time
as it was materialized (`RowExact`), and that what is being materialized was due
(`ScheduleExact`). A materialization then adds the one time that `DueTimes` gains when the
next time moves on by a cadence (`OneMoreTime`), and every other step leaves the rows as they
were (`RowsKept`).

`CloudProofs` proves, for any calls, plans, operations, lease and deaths and either store,
`LeaseIsKept`, `EffectsOnce`, `ReceiptsFinal` and `ReceiptsApproved`; and `BindingsAreKept` where no request
lands after the lease it was checked under (`~Late`), without which an upload may replace
bindings that a later call has put. The invariant (`CloudIndInv`) is written per call and per
plan: a call past the check of its lease owns the record of the target, or its plan is one that
lapsed, or a live lease was taken (`SoundLease`); in the file store each step of
acquire and release has seen what it says it has seen (`SoundCall`); an operation that a call
has still to do has had no effect, unless the plan is one that may be repeated, a call of it
having died, lapsed or thrown (`SoundEffects`, `Excused`); a call past the look-up of the
receipt found none, and none comes while its lease lasts (`Pending`); and what a call merges with is what the worker has, while
its lease lasts (`SoundSettings`). The two stores differ in one place only: the file store may
take a live lease once some lease has ended under its call, which is what the properties except.
An assumption says that the value for "no receipt" is not a receipt.

`ProviderProofs` proves, for any account, rules, failures and repetitions,
`StrangerRulesAreKept`, for any manifest, starting workspace and edits `EditsAreKept`, and for
any zone, configuration and interference `RecordsAreKept`. A
lifecycle request puts a whole list of rules, so that the invariant has to say of the plan
and of what is left of it that they were made from one reading, and of every foreign rule, as it reads, that is
there that it was in that reading or came later (`ReadBefore`, `RulesInv`). Of a workspace, `SyncInv` says that ids are unique, that a
resource that was read is there unchanged, there with a later print, or gone (`Aged`), and that
each write names a resource that the review showed, with its print (`Grounded`): the provider
compares prints, so that what is overwritten is what was shown. The assumptions are that no rule of another
tool reads like one of the configured ones and that the accounts and workspaces at the start are
well formed (ids unique, a slug of one kind). Both plans are built by flattening lists; the
induction this needs is done over a set of numbers that has a least element
(`LeastNumber`, from the well-foundedness of strict subsets), in `FlattenExists` and
`FlattenTyped`, and the same way `Greatest` finds the largest id of a finite set.

`RecordsAreKept` is about the DNS records of `CloudRollout`: a rollout takes none away, and
overwrites one only with the single value configured for its name, and only the first of that
name. `FlareInv` says of every plan, and of what is left of it, that an update names a
record that carries the name of its entry and is the first to do so, and that the entry has one
value (`Replaceable`): it was the only one when the plan was made. Other tools may add records
of the name before the apply, but those come later in the zone and no
step renames a record, so that a plan stays good while it ages (`OpsGrow`). The assumption
(`FlareAssumption`) is that the configuration is made of lists and the account at the start
is well formed. `RecordsKept` is in no run's configuration: TLC checked it on the account of
part `cloudflare`, where it holds and where updating an entry of several values
(`UpdatesAnyEntry`) breaks it.

`MarketingProofs` proves three things. `TakenNotDenied`: the invariant relates the outbox, the attempt under
way and the receipts of one event (`Sound`), and of an event the provider took it says that a
receipt tells, that a number is missing, or that the verdict about to be recorded tells.
What each transport answers enters by one lemma (`TakenIsNotRejected`).

`LaunchesAreAccounted`, for any objects, calls, drafts and deaths. It
rests on `HoldersLock`, that the lock names every call that may write a receipt or launch;
on `CheckedReceipt`, that a call which passed its reads has a receipt with the hash it
holds; and on `SoundLaunch`, that what is built is under way or has its result, in a call
that checked a reviewed plan, and goes no further than the answer about the ad groups left.

`MediaAsApproved`, for any assets, contents and commands. What an approved
entry of the registry holds was approved, and so in every copy that a command still has
in memory, which is why a write of an older registry does no harm; the operations of every plan
are of such entries, one per asset; the bytes in hand are those of the operation; and a
ref names an upload of its asset.

The type invariants that the modules state are proved and not checked by a run any more, and
so is every safety property of a passing run: all invariants, all action properties, and
the safety part of both refinements. Model-checked only: liveness, which is out of the
prover's reach (`EveryJobSettles`, `OutboxDrains`, `AttemptsResolve`, `TargetReopens`,
`AwsPlansSettle`, `CloudflareSettles`, `SchedulesCatchUp`, `ActionJobsSettle`,
`DeliveriesConclude`, `TagWorkspaceSettles`, and the fairness of `ReadContract` that
`ImplementsContract` of `hosted_liveness` includes). Of the rollouts (`AwsRollout`,
`CloudRollout`) hence `StrangerRulesAreKept` and `RecordsAreKept` are proved, and that they
settle is model-checked.

## Not modelled

Analysis, rendering, argument parsing, HTTP and OAuth have no state that a second
actor shares: the growth analysis and reports, the console and its view models, the CLI,
the MCP tool contracts and the browser tracking, which together are most of the lines of
the repository, are functions of what they read, or presentation. A clock that jumps is
not modelled, only clocks that differ. A pause of
a process between the last lease check and the request it guards is not modelled for
campaigns: the code cannot exclude it and the recovery margin is its only answer to it
(`GtmContainer` has such a pause, of any length, since there the code waits of its
own accord). A provider that carries out a request after the client aborted it is not
modelled. Stores are taken to be atomic per call, as PostgreSQL and SQLite are, but for
the lease and the run of the file stores (`LeaseStore`, `RunStore`).

Of what is modelled: the confirmations and the age of a cloud plan are a preflight that may
fail; a worker whose script source is configured but unreadable is left out; the renewal
of a lease, lists and the artifacts of the file stores are not modelled; the resubmission
of an admitted job and the authorized lookup of a result are not. A version creation of
the container that never reached the provider, or whose name is not unique, stays
`unavailable` and so blocks the container until a person acts, which the completion plan
of the repository documents; `GtmContainer` has it as an observation that does not decide.

## Plan

1. `HostedRead`, `ReadContract` and their proofs, the safety half of the refinement included
   (done).
2. `CampaignPause`, `MutationContract` and their proofs, the refinement included (done).
3. `GtmContainer`, its proofs, and `TagManagerSync` (done); that every attempt is judged in
   the end, as a liveness property.
4. The file stores, the Cloudflare and AWS rollouts, the scheduler, credentials, action
   jobs, the delivery of conversions, and advertising (done, as parts of `components`, with
   proofs about each); theorems about what a settled rollout does
   not undo.
5. `HostedAdmission`: resubmission and authorized lookup.
6. Pure operators of the control plane, checked against reference definitions.
