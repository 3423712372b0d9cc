----------------------------- MODULE AwsRollout -----------------------------
(***************************************************************************)
(* Rolling out an AWS environment: an operator plans and applies S3,       *)
(* CloudFront and domains, each family under a lock of its own, again and  *)
(* again until the plans ask for nothing more.  The families depend on     *)
(* each other: a CDN waits for a certificate, which waits for a record;    *)
(* the alias records of the CDN wait for its distribution.                 *)
(*                                                                         *)
(* A plan is what one reading of the provider asks for; apply makes its    *)
(* requests one by one and stops at the first that fails.  The             *)
(* confirmations that apply wants are given, and a plan is applied before  *)
(* it is too old.                                                          *)
(***************************************************************************)
EXTENDS AwsDomains

CONSTANTS
    Accounts,       \* what the AWS account may hold at first
    StrangerRules,  \* lifecycle rules another tool may add
    MaxStrangers,   \* bound: rules so added
    MaxRepeats,     \* bound: plans applied once more, without a new reading
    MaxSetbacks,    \* bound: requests that fail and processes that die
    MaxIncidents    \* bound: all of these together

ASSUME RolloutAssumption ==
    /\ WithDestination \subseteq WithConfigurationSet
    /\ \A c \in Cdns : Aliases[c] # {} => CdnCertificate[c] \in Certificates
    /\ \A start \in Accounts :
        start.buckets = [b \in Buckets |-> start.buckets[b]] /\ \A b \in Buckets : IsBucket(start.buckets[b])
    /\ \A rule \in StrangerRules, b \in Buckets : \A prefix \in ToSet(Temporary[b]) : AsRead(rule) # OwnRule(prefix)
    /\ MaxStrangers \in Nat /\ MaxRepeats \in Nat /\ MaxSetbacks \in Nat /\ MaxIncidents \in Nat

VARIABLES
    buckets, edge, naming,  \* the account
    stage,      \* of each family: "idle", "planned" or "applying"
    reviewed,   \* its last plan
    todo,       \* the requests it still has to make
    created,    \* the distributions this apply created
    locks,      \* lock files
    unseen,     \* history: rules that the S3 plan was made without
    strangers, repeats, setbacks

account == <<buckets, edge, naming>>
awsVars == <<account, stage, reviewed, todo, created, locks, unseen, strangers, repeats, setbacks>>

Families == {"s3", "cloudfront", "domains"}

AwsInit ==
    /\ \E start \in Accounts :
        buckets = start.buckets /\ edge = start.edge /\ naming = start.naming
    /\ stage = [f \in Families |-> "idle"]
    /\ reviewed = [f \in Families |-> <<>>]
    /\ todo = [f \in Families |-> <<>>]
    /\ created = [c \in Cdns |-> 0]
    /\ locks = {}
    /\ unseen = {}
    /\ strangers = 0 /\ repeats = 0 /\ setbacks = 0

OneMore == strangers + repeats + setbacks < MaxIncidents

PlanOf(f) ==
    CASE f = "s3" -> S3Plan(buckets)
      [] f = "cloudfront" -> CloudFrontPlan(edge, Issued(naming))
      [] f = "domains" -> DomainsPlan(naming, edge)

\* validatePlanForApply
Refuses(f, op) == IF f = "domains" THEN Unsupported(op) ELSE op.action = "blocked"

Requests(op) ==
    CASE op.family = "domains" -> DomainRequests(op)
      [] op.action = "no-op" -> <<>>
      [] op.family = "s3" -> <<op>>
      [] OTHER -> CdnRequests(op)

MoveTo(f, s) == stage' = [stage EXCEPT ![f] = s]

-----------------------------------------------------------------------------
\* A plan comes up: a new one, or the last one again.
ComesUp(f) == stage[f] = "idle" /\ MoveTo(f, "planned")

MakePlan(f) ==
    /\ ComesUp(f)
    /\ reviewed' = [reviewed EXCEPT ![f] = PlanOf(f)]
    /\ unseen' = IF f = "s3" THEN {} ELSE unseen
    /\ UNCHANGED <<account, todo, created, locks, strangers, repeats, setbacks>>

\* A reading of one resource fails, and the plan takes it for one that is not there.
\* An S3 or CloudFront plan of a failed reading is refused.
PlanAmiss ==
    /\ ComesUp("domains")
    /\ setbacks < MaxSetbacks /\ OneMore
    /\ setbacks' = setbacks + 1
    /\ \E seen \in Misreadings(naming) : reviewed' = [reviewed EXCEPT !["domains"] = DomainsPlan(seen, edge)]
    /\ UNCHANGED <<account, todo, created, locks, unseen, strangers, repeats>>

\* The plan is applied once more as it is.
RepeatPlan(f) ==
    /\ ComesUp(f) /\ reviewed[f] # <<>>
    /\ repeats < MaxRepeats /\ OneMore
    /\ repeats' = repeats + 1
    /\ UNCHANGED <<account, reviewed, todo, created, locks, unseen, strangers, setbacks>>

\* A plan that asks for something that is blocked or not supported is refused as
\* a whole; so is any plan while the lock file is there.
StartOperations(f) ==
    /\ stage[f] = "planned"
    /\ IF f \in locks \/ \E i \in DOMAIN reviewed[f] : Refuses(f, reviewed[f][i])
       THEN MoveTo(f, "idle") /\ UNCHANGED <<todo, created, locks>>
       ELSE /\ MoveTo(f, "applying")
            /\ locks' = locks \cup {f}
            /\ todo' = [todo EXCEPT ![f] = FlattenSeq([i \in DOMAIN reviewed[f] |-> Requests(reviewed[f][i])])]
            /\ created' = IF f = "cloudfront" THEN [c \in Cdns |-> 0] ELSE created
    /\ UNCHANGED <<account, reviewed, unseen, strangers, repeats, setbacks>>

Enact(f, op) ==
    CASE f = "s3" -> EnactS3(buckets, op)
      [] f = "cloudfront" -> EnactCloudFront(edge, op, Issued(naming), created, buckets)
      [] f = "domains" -> EnactDomains(naming, op)

TakesEffect(f, op, after) ==
    /\ buckets' = IF f = "s3" THEN after ELSE buckets
    /\ edge' = IF f = "cloudfront" THEN after ELSE edge
    /\ naming' = IF f = "domains" THEN after ELSE naming
    /\ created' = IF op.check = "create" /\ f = "cloudfront"
                  THEN [created EXCEPT ![op.key] = Len(after.distributions)] ELSE created

Request(f) ==
    /\ stage[f] = "applying" /\ todo[f] # <<>>
    /\ LET op == Head(todo[f]) IN
       \/ /\ \E after \in Enact(f, op) : TakesEffect(f, op, after)
          /\ todo' = [todo EXCEPT ![f] = Tail(@)]
       \/ /\ Enact(f, op) = {}
          /\ todo' = [todo EXCEPT ![f] = <<>>]
          /\ UNCHANGED <<account, created>>
    /\ UNCHANGED <<stage, reviewed, locks, unseen, strangers, repeats, setbacks>>

\* A request fails, or its answer is lost.
Setback(f) ==
    /\ stage[f] = "applying" /\ todo[f] # <<>>
    /\ setbacks < MaxSetbacks /\ OneMore
    /\ setbacks' = setbacks + 1
    /\ \/ UNCHANGED <<account, created>>
       \/ \E after \in Enact(f, Head(todo[f])) : TakesEffect(f, Head(todo[f]), after)
    /\ todo' = [todo EXCEPT ![f] = <<>>]
    /\ UNCHANGED <<stage, reviewed, locks, unseen, strangers, repeats>>

\* The receipt is written and the lock file removed.
FinishOperations(f) ==
    /\ stage[f] = "applying" /\ todo[f] = <<>>
    /\ MoveTo(f, "idle")
    /\ locks' = locks \ {f}
    /\ UNCHANGED <<account, reviewed, todo, created, unseen, strangers, repeats, setbacks>>

\* A process that dies leaves its lock file, until somebody removes it.
DieApplying(f) ==
    /\ stage[f] = "applying"
    /\ setbacks < MaxSetbacks /\ OneMore
    /\ setbacks' = setbacks + 1
    /\ MoveTo(f, "idle")
    /\ todo' = [todo EXCEPT ![f] = <<>>]
    /\ UNCHANGED <<account, reviewed, created, locks, unseen, strangers, repeats>>

RemoveLock(f) ==
    /\ f \in locks /\ stage[f] # "applying"
    /\ locks' = locks \ {f}
    /\ UNCHANGED <<account, stage, reviewed, todo, created, unseen, strangers, repeats, setbacks>>

-----------------------------------------------------------------------------
\* What AWS does by itself, and people by hand.
Names(after) ==
    /\ naming' = after
    /\ naming' # naming
    /\ UNCHANGED <<buckets, edge, stage, reviewed, todo, created, locks, unseen, strangers, repeats, setbacks>>

IssueCertificate(k) ==
    /\ naming.certificates[k] = "pending"
    /\ naming.records[<<"acm-validation", k>>] = 1
    /\ Names([naming EXCEPT !.certificates[k] = "issued"])

VerifyIdentity(m) ==
    /\ naming.mail[m].exists /\ naming.records[<<"ses-dkim", m>>] = 1
    /\ Names([naming EXCEPT !.mail[m].verified = TRUE])

ConfirmSubscription(m) ==
    /\ naming.mail[m].subscription = "pending"
    /\ Names([naming EXCEPT !.mail[m].subscription = "confirmed"])

\* A zone of the configured mode is another zone, and empty.
CreateZone(z) ==
    /\ z \notin ExternalZones /\ z \notin naming.zones \ naming.otherMode
    /\ Names([naming EXCEPT !.zones = @ \cup {z}, !.otherMode = @ \ {z},
                            !.records = [r \in Records |-> IF ZoneFor[r[2]] = z THEN 0 ELSE @[r]]])
PublishDmarc(m) == Names([naming EXCEPT !.records[<<"dmarc", m>>] = 2])
GrantAccess == Names([naming EXCEPT !.access = TRUE])

Prerequisite ==
    \/ \E z \in Zones : CreateZone(z)
    \/ \E m \in Mail : PublishDmarc(m) \/ ConfirmSubscription(m)
    \/ GrantAccess

Progress ==
    \/ \E k \in Certificates : IssueCertificate(k)
    \/ \E m \in Mail : VerifyIdentity(m)

\* Another tool adds a lifecycle rule to a bucket.
AddRule(b, rule) ==
    /\ strangers < MaxStrangers /\ OneMore
    /\ strangers' = strangers + 1
    /\ buckets[b].exists /\ \A other \in buckets[b].rules : other.id # rule.id
    /\ buckets' = [buckets EXCEPT ![b].rules = @ \cup {rule}]
    /\ unseen' = unseen \cup {<<b, AsRead(rule)>>}
    /\ UNCHANGED <<edge, naming, stage, reviewed, todo, created, locks, repeats, setbacks>>

Applies(f) == StartOperations(f) \/ Request(f) \/ FinishOperations(f)

AwsNext ==
    \/ \E f \in Families :
        MakePlan(f) \/ Applies(f) \/ RepeatPlan(f) \/ Setback(f) \/ DieApplying(f) \/ RemoveLock(f)
    \/ PlanAmiss
    \/ Prerequisite
    \/ Progress
    \/ \E b \in Buckets, rule \in StrangerRules : AddRule(b, rule)

\* The operator goes on, removes the lock of a dead process and completes what
\* must be done by hand; AWS validates what it can.
AwsFairness ==
    /\ \A f \in Families : WF_stage(ComesUp(f)) /\ WF_awsVars(Applies(f))
    /\ WF_awsVars(\E f \in Families : RemoveLock(f))
    /\ WF_awsVars(Prerequisite \/ Progress)

AwsSpec == AwsInit /\ [][AwsNext]_awsVars /\ AwsFairness

-----------------------------------------------------------------------------
(***************************************************************************)
(* Properties.                                                             *)
(***************************************************************************)
\* A lifecycle request that is refused over and over; the apply stops at it.
Hopeless(op) == op.check = "lifecycle.temporary-prefix" /\ ~Acceptable(op)

Settled(f) ==
    \E plan \in {PlanOf(f)} : \A i \in DOMAIN plan :
        plan[i].action \in {"no-op", "manual"} \/ \E j \in 1 .. i : Hopeless(plan[j])

\* Planning and applying over and over comes to an end, whatever the families
\* wait for from each other: in the end every plan asks for nothing or for what
\* must be done at an external DNS provider, up to a lifecycle rule that cannot be
\* added to those the bucket has.
PlansSettle == <>[](\A f \in Families : Settled(f))

\* A CDN of which the plan asks nothing is served as configured: its distribution
\* signs its requests to the bucket, and the bucket lets it in.
NoOpIsServed ==
    \A c \in Cdns :
        LET id == FindDistribution(c, edge) IN
        Settled("cloudfront") =>
            /\ edge.distributions[id].control = c
            /\ edge.distributions[id].aliases = Aliases[c]
            /\ edge.statements[c] = id

\* A lifecycle rule of another tool loses its id, its prefix, its status or its
\* expiration only to a plan made before it.  What more it says is lost to any
\* lifecycle request, as the reading leaves it out.
Has(rules, rule) == \E other \in rules : AsRead(other) = AsRead(rule)
StrangerRulesKept ==
    [][\A b \in Buckets : \A rule \in StrangerRules :
        Has(buckets[b].rules, rule) /\ ~Has(buckets'[b].rules, rule) => <<b, AsRead(rule)>> \in unseen]_awsVars
=============================================================================
