----------------------------- MODULE AwsDomains -----------------------------
(***************************************************************************)
(* What the domains plan asks for mail identities, certificates, zones and *)
(* the alias records of the CDNs, which of its operations the apply of a   *)
(* staged rollout skips, and what the others do.                           *)
(*                                                                         *)
(* Several records or status checks of one kind that appear and disappear  *)
(* together are one here: the three DKIM tokens, A and AAAA, the readiness *)
(* checks of the account.  The value of an alias record is the             *)
(* distribution it names; of DMARC, 1 when published and 2 when enforced.  *)
(***************************************************************************)
EXTENDS AwsCloudFront

CONSTANTS
    MailOrder, CertificateOrder, ZoneOrder,     \* configured, in order
    ExternalZones,  \* zones at another provider than Route 53
    ZoneFor,        \* the zone of each identity, certificate and CDN, or Nothing
    WithMailFrom, WithConfigurationSet, WithDestination, WithBimi,
    Misaligned,     \* certificates whose names are not those configured
    Production

Mail == ToSet(MailOrder)
Certificates == ToSet(CertificateOrder)
Zones == ToSet(ZoneOrder)

MailRecords == {"ses-dkim", "ses-mail-from-mx", "ses-mail-from-spf", "bimi", "dmarc"}
Records ==
    (MailRecords \X Mail) \cup ({"acm-validation"} \X Certificates)
        \cup ({"cloudfront-alias"} \X Cdns)

NewIdentity ==
    [exists |-> FALSE, verified |-> FALSE, mailFrom |-> FALSE, attached |-> FALSE,
     set |-> FALSE, destination |-> "none", subscription |-> "none"]

EmptyNaming ==
    [mail |-> [m \in Mail |-> NewIdentity],
     certificates |-> [k \in Certificates |-> "none"],
     zones |-> {}, otherMode |-> {},
     records |-> [r \in Records |-> 0],
     access |-> FALSE]

Issued(naming) == {k \in Certificates : naming.certificates[k] = "issued"}

DomainOperation(key, action, check) == Operation("domains", key, action, check)

\* What a reading tells when one resource, or the account, could not be read.
Misreadings(naming) ==
    {[naming EXCEPT !.mail[m] = NewIdentity] : m \in Mail}
        \cup {[naming EXCEPT !.certificates[k] = "none"] : k \in Certificates}
        \cup {[naming EXCEPT !.zones = @ \ {z}] : z \in Zones}
        \cup {[naming EXCEPT !.access = FALSE]}

\* addDnsRecordOperation
RecordOperation(naming, purpose, key, value) ==
    LET within == ZoneFor[key]
        op(action) ==
            <<[family |-> "domains", key |-> key, action |-> action, check |-> "dns.record",
               purpose |-> purpose, value |-> value]>>
    IN IF within \in ExternalZones THEN op("manual")
       ELSE IF within \notin naming.zones THEN op("blocked")
       ELSE IF naming.records[<<purpose, key>>] = value THEN <<>>
       ELSE op("update")

-----------------------------------------------------------------------------
\* The checks of an identity that exists, in order, each with its action.
MailChecks ==
    <<<<"blocked", "mail.account">>,
      <<"update", "mail.identity.verified">>,
      <<"update", "mail.identity.mail-from-domain">>,
      <<"create", "mail.configuration-set.exists">>,
      <<"update", "mail.identity.configuration-set">>,
      <<"create", "mail.event-destination.exists">>,
      <<"update", "mail.event-destination.matches">>,
      <<"create", "mail.subscription.exists">>,
      <<"update", "mail.subscription.confirmed">>,
      <<"blocked", "mail.configuration-set.event-destinations">>>>

Due(m, naming, check) ==
    LET i == naming.mail[m] IN
    CASE check = "mail.account" -> Production /\ ~naming.access
      [] check = "mail.identity.verified" -> ~i.verified
      [] check = "mail.identity.mail-from-domain" -> m \in WithMailFrom /\ ~i.mailFrom
      [] check = "mail.configuration-set.exists" -> m \in WithConfigurationSet /\ ~i.set
      [] check = "mail.identity.configuration-set" -> m \in WithConfigurationSet /\ ~i.attached
      [] check = "mail.event-destination.exists" -> m \in WithDestination /\ i.destination = "none"
      [] check = "mail.event-destination.matches" -> m \in WithDestination /\ i.destination = "other"
      [] check = "mail.subscription.exists" ->
            m \in WithDestination /\ i.destination # "none" /\ i.subscription = "none"
      [] check = "mail.subscription.confirmed" ->
            m \in WithDestination /\ i.destination # "none" /\ i.subscription = "pending"
      [] check = "mail.configuration-set.event-destinations" ->
            Production /\ m \in WithConfigurationSet \ WithDestination /\ i.destination = "none"

\* A DMARC policy is published by hand.
DmarcOperation(m, naming, least) ==
    IF naming.records[<<"dmarc", m>>] >= least THEN <<>>
    ELSE <<DomainOperation(m, IF ZoneFor[m] \in ExternalZones THEN "manual" ELSE "blocked", "dns.record.dmarc")>>

MailPlan(m, naming) ==
    LET due(entry) == Due(m, naming, entry[2])
        checks == SelectSeq(MailChecks, due)
        record(purpose) == RecordOperation(naming, purpose, m, 1)
        only(wanted, operations) == IF m \in wanted THEN operations ELSE <<>>
    IN IF ~naming.mail[m].exists THEN <<DomainOperation(m, "create", "mail.identity.exists")>>
       ELSE OrElse([i \in DOMAIN checks |-> DomainOperation(m, checks[i][1], checks[i][2])]
                     \o only(IF Production THEN Mail ELSE {}, DmarcOperation(m, naming, 1))
                     \o record("ses-dkim")
                     \o only(WithMailFrom, record("ses-mail-from-mx") \o record("ses-mail-from-spf"))
                     \o only(WithBimi, DmarcOperation(m, naming, 2) \o record("bimi")),
                   DomainOperation(m, "no-op", "mail.identity.posture"))

CertificatePlan(k, naming) ==
    LET status == naming.certificates[k] IN
    IF status = "none" THEN <<DomainOperation(k, "create", "certificate.exists")>>
    ELSE OrElse((IF status = "issued" THEN <<>>
                 ELSE <<DomainOperation(k, "update", "certificate.validation")>>)
                  \o RecordOperation(naming, "acm-validation", k, 1)
                  \o (IF k \notin Misaligned THEN <<>>
                      ELSE <<DomainOperation(k, "update", "certificate.subject-alternative-names")>>),
                DomainOperation(k, "no-op", "certificate.posture"))

ZonePlan(z, naming) ==
    <<CASE z \notin ExternalZones \cup naming.zones -> DomainOperation(z, "create", "dns.zone.exists")
        [] z \in naming.otherMode \ ExternalZones -> DomainOperation(z, "blocked", "dns.zone.private-zone")
        [] OTHER -> DomainOperation(z, "no-op", "dns.zone.posture")>>

AliasPlan(c, naming, edge) ==
    LET id == FindDistribution(c, edge) IN
    IF Aliases[c] = {} THEN <<>>
    ELSE IF id = 0 THEN <<DomainOperation(c, "blocked", "distribution-unavailable")>>
    ELSE RecordOperation(naming, "cloudfront-alias", c, id)

DomainsPlan(naming, edge) ==
    LET each(order, plan(_)) == FlattenSeq([i \in DOMAIN order |-> plan(order[i])])
    IN each(MailOrder, LAMBDA m : MailPlan(m, naming))
         \o each(CertificateOrder, LAMBDA k : CertificatePlan(k, naming))
         \o each(ZoneOrder, LAMBDA z : ZonePlan(z, naming))
         \o each(CdnOrder, LAMBDA c : AliasPlan(c, naming, edge))

-----------------------------------------------------------------------------
\* mutant: only the event destinations may be staged
StagedDestinationsOnly(op) ==
    op.action = "blocked" /\ op.check = "mail.configuration-set.event-destinations"

\* isAllowedStagedBlockedOperation
StagedBlocked(op) ==
    /\ op.action = "blocked"
    /\ op.check \in {"distribution-unavailable", "mail.configuration-set.event-destinations"}

\* isAllowedStagedStatusOperation
StagedStatus(op) ==
    /\ op.action = "update"
    /\ op.check \in {"mail.identity.verified", "mail.subscription.confirmed", "certificate.validation"}

Unsupported(op) ==
    \/ op.action = "blocked" /\ ~StagedBlocked(op)
    \/ op.check \in {"dns.zone.exists", "certificate.subject-alternative-names"} /\ op.action # "no-op"

\* What is skipped makes no request.
Skipped(op) == op.action \in {"no-op", "manual"} \/ StagedBlocked(op) \/ StagedStatus(op)

DomainRequests(op) == IF Skipped(op) THEN <<>> ELSE <<op>>

\* Each change of an identity, with what it needs.
EnactMail(identity, check) ==
    CASE check = "mail.identity.exists" -> {[identity EXCEPT !.exists = TRUE]}
      [] check = "mail.identity.mail-from-domain" -> {[identity EXCEPT !.mailFrom = TRUE]}
      [] check = "mail.configuration-set.exists" -> {[identity EXCEPT !.set = TRUE]}
      [] check = "mail.identity.configuration-set" ->
            IF identity.set THEN {[identity EXCEPT !.attached = TRUE]} ELSE {}
      [] check = "mail.event-destination.exists" ->
            IF identity.set
            THEN {[identity EXCEPT !.destination = IF @ = "none" THEN "ours" ELSE @]} ELSE {}
      [] check = "mail.event-destination.matches" ->
            IF identity.destination # "none" THEN {[identity EXCEPT !.destination = "ours"]} ELSE {}
      [] check = "mail.subscription.exists" ->
            {[identity EXCEPT !.subscription = IF @ = "none" THEN "pending" ELSE @]}

\* A certificate that is there already is the one ACM returns, or a second one that
\* the next reading may find.
EnactDomains(naming, op) ==
    CASE op.check = "dns.record" ->
            IF ZoneFor[op.key] \notin naming.zones THEN {}
            ELSE {[naming EXCEPT !.records[<<op.purpose, op.key>>] = op.value]}
      [] op.check = "certificate.exists" ->
            {[naming EXCEPT !.certificates[op.key] = s] : s \in {"pending", naming.certificates[op.key]} \ {"none"}}
      [] OTHER ->
            {[naming EXCEPT !.mail[op.key] = i] : i \in EnactMail(naming.mail[op.key], op.check)}
=============================================================================
