\* Eleven small instances of components that share no state, of which one runs:
\* the rollout of AWS, the apply and the rollout of Cloudflare, schedules,
\* credentials, action jobs, conversions, the store of runs, the workspace of a tag
\* manager, and the media and the launch of advertisements.
SPECIFICATION ComponentsSpec
CONSTANTS
 media=media cdn=cdn mail=mail cert=cert zone=zone
 BucketOrder <- OneBucket
 Temporary <- TwoPrefixes
 WithCors = {media}
 Inadmissible = {}
 RuleId <- RuleIds
 CdnOrder <- OneCdn
 Aliases <- OneAlias
 Origin <- OneOrigin
 CdnCertificate <- OneCertificate
 WithLogs = {cdn}
 Refused = {}
 Nothing = Nothing
 MailOrder <- OneMail
 CertificateOrder <- Certs
 ZoneOrder <- OneZone
 ExternalZones = {}
 ZoneFor <- ZoneOfAll
 WithMailFrom = {mail}
 WithConfigurationSet = {mail}
 WithDestination = {mail}
 WithBimi = {mail}
 Misaligned = {}
 Production = TRUE
 Accounts <- PartlyDone
 StrangerRules <- ForeignRules
 MaxStrangers = 1
 MaxRepeats = 1
 MaxSetbacks = 1
 MaxIncidents = 2

 Owners = {o1, o2}
 Nobody = Nobody
 Gone = Gone
 Backends = {"sqlite", "local"}
 LeaseTtl = 1
 p1 = p1 p2 = p2
 Plans = {p1, p2}
 Changes <- TwoChanges
 Late = FALSE
 MaxCalls = 2
 MaxDeaths = 1

 web = web txt = txt work = work dead = dead worker = worker route = route
 EntryOrder <- TwoEntries
 EntryName <- EntryNames
 EntryValues <- Values
 QueueOrder <- TwoQueues
 WorkerOrder <- OneWorker
 WithSource = {worker}
 Routes <- OneRoute
 Producers <- OneQueue
 Consumers <- OneQueue
 Variables <- OneVariable
 Secrets <- OneSecret
 Crons <- OneCron
 RouteZoned = {route}
 Free = Free
 Starts <- FlareStarts
 StrangeRecords <- Strange
 MaxStrangeRecords = 1
 MaxFlareSetbacks = 1

 daily = daily hourly = hourly
 Schedulers = {q1, q2}
 Schedules = {daily, hourly}
 Cadence <- TwoCadences
 LeaseMs = 1
 RecoveryLimit = 1
 MaxClock = 3
 MaxSchedulerFaults = 1

 Operators = {"first", "second"}
 KeyIds = {"key1", "key2"}
 MaxVersion = 3
 MaxLostAnswers = 1

 Keys = {"k1", "k2"}
 ActionWorkers = {a1, a2}
 ActionLease = 1
 MaxActionTime = 2
 MaxActionCalls = 3
 MaxWorkerDeaths = 1

 e1 = e1 e2 = e2
 Events = {e1, e2}
 ProviderOf <- TwoProviders
 Unmapped = {}
 Wirings <- TwoWirings
 MaxTroubles = 2

 Writers = {w1, w2, w3}
 RunBackends = {"sqlite", "local"}
 MaxRunRevision = 3
 MaxWriterDeaths = 1

 group = group click = click view = view pixel = pixel legacy = legacy
 Other = Other
 SlugOrder <- TagSlugs
 Retired = {legacy}
 KindOf <- TagKinds
 FolderOf <- TagFolders
 FiresOn <- TagFires
 Pixels = {pixel}
 KeptPaused = {}
 BuiltInTriggers <- ViewTrigger
 Workspaces <- TagStarts
 MaxSyncEdits = 1
 MaxSyncFaults = 1

 Commands = {c1, c2}
 Assets = {banner}
 Bytes = {"b1", "b2"}
 NoBytes = NoBytes
 Incomplete = {}
 Unfit = {}
 MaxCommands = 5
 MaxSources = 2
 MaxUploads = 1
 MaxCommandDeaths = 1

 shoes = shoes hats = hats bags = bags
 Objects = {shoes, hats, bags}
 StrategyMaps <- TwoMaps
 MetaEnabled = TRUE
 HasCriteria = FALSE
 AdGroups <- OnlyBags
 CampaignAssets <- OnlyBags
 MaxAdsCalls = 3
 MaxDrafts = 2
 MaxAdsCommands = 4
 MaxCrashes = 1
INVARIANTS
 LeaseKept EffectOnce OccurrencesExact ActiveVersionOpens AuditTells ReceiptsDoNotDeny ComparedRunStays
 AssetsAsApproved LaunchesAccounted
PROPERTIES
 BindingsKept ReceiptApproved ReceiptFinal StrangerRulesKept EditsNotOverwritten
 AwsPlansSettle CloudflareSettles SchedulesCatchUp ActionJobsSettle DeliveriesConclude TagWorkspaceSettles
CHECK_DEADLOCK FALSE
