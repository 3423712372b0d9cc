--------------------------- MODULE AwsCloudFront ---------------------------
(***************************************************************************)
(* What the CloudFront plan asks for each configured CDN, and the provider *)
(* requests that its apply makes for an operation.  The distribution of a  *)
(* CDN is found by an alias of its own, or else by its origin.             *)
(*                                                                         *)
(* The state of the edge is one record: the distributions, in the order of *)
(* their list, the access controls and cache policies by the CDN they are  *)
(* named for, and the statement of each CDN in the policy of its bucket.   *)
(***************************************************************************)
EXTENDS Naturals, Sequences, SequencesExt, AwsS3

CONSTANTS
    CdnOrder,       \* the configured CDNs, in the order of the file
    Aliases,        \* for each CDN its aliases
    Origin,         \* for each CDN the bucket it serves
    CdnCertificate, \* for each CDN its certificate, or Nothing
    WithLogs,       \* the CDNs with access logs
    Refused,        \* CDNs with another access mode or a log bucket that does not fit
    Nothing

Cdns == ToSet(CdnOrder)

EmptyEdge ==
    [distributions |-> <<>>, controls |-> {}, caches |-> {},
     statements |-> [c \in Cdns |-> 0]]

NewDistribution(c, certificate) ==
    [origin |-> Origin[c], control |-> c, aliases |-> Aliases[c], certificate |-> certificate,
     cache |-> c, https |-> TRUE, logs |-> c \in WithLogs]

First(n, test(_)) == LET found == {i \in 1 .. n : test(i)} IN IF found = {} THEN 0 ELSE Min(found)

\* findDistribution: 0 when there is none.
FindDistribution(c, edge) ==
    LET byAlias(i) == edge.distributions[i].aliases \cap Aliases[c] # {}
        byOrigin(i) == edge.distributions[i].origin = Origin[c]
        matched == First(Len(edge.distributions), byAlias)
    IN IF matched # 0 THEN matched ELSE First(Len(edge.distributions), byOrigin)

\* originAccessControlName: that of the origin, or else of any control that has
\* the desired name, attached or not.
ReportedControl(c, d, edge) ==
    IF d.control # Nothing THEN d.control
    ELSE IF c \in edge.controls THEN c ELSE Nothing

CdnOperation(c, id, action, check) ==
    [family |-> "cloudfront", key |-> c, action |-> action, check |-> check, id |-> id]

CertificateReady(c, issued) == Aliases[c] = {} \/ CdnCertificate[c] \in issued

\* The checks in the order in which the plan makes them.
UpdateChecks ==
    <<"origin-domain", "origin-access-control", "viewer-certificate", "aliases",
      "viewer-protocol-policy", "cache-policy", "access-logging", "s3-oac-bucket-policy">>

Differs(c, d, edge, id, check) ==
    CASE check = "origin-domain"          -> d.origin # Origin[c]
      [] check = "origin-access-control"  -> ReportedControl(c, d, edge) # c
      [] check = "viewer-certificate"     -> Aliases[c] # {} /\ d.certificate # CdnCertificate[c]
      [] check = "aliases"                -> d.aliases # Aliases[c]
      [] check = "viewer-protocol-policy" -> ~d.https
      [] check = "cache-policy"           -> d.cache # c
      [] check = "access-logging"         -> c \in WithLogs /\ ~d.logs
      [] check = "s3-oac-bucket-policy"   -> edge.statements[c] # id

CdnPlan(c, edge, issued) ==
    LET id == FindDistribution(c, edge)
        d == edge.distributions[id]
        differs(check) == Differs(c, d, edge, id, check)
        checks == SelectSeq(UpdateChecks, differs)
    IN IF c \in Refused THEN <<CdnOperation(c, id, "blocked", "access-mode")>>
       ELSE IF ~CertificateReady(c, issued)
       THEN <<CdnOperation(c, id, "blocked", "viewer-certificate.unissued")>>
       ELSE IF id = 0
       THEN <<CdnOperation(c, 0, "create", "distribution.exists"),
              CdnOperation(c, 0, "update", "s3-oac-bucket-policy")>>
       ELSE OrElse([i \in DOMAIN checks |-> CdnOperation(c, id, "update", checks[i])],
                   CdnOperation(c, id, "no-op", "distribution.posture"))

CloudFrontPlan(edge, issued) ==
    FlattenSeq([i \in DOMAIN CdnOrder |-> CdnPlan(CdnOrder[i], edge, issued)])

\* The requests of an operation, one after the other.
CdnRequests(op) ==
    LET steps ==
            CASE op.check = "distribution.exists" ->
                    <<"ensure-control", "ensure-cache", "create", "s3-oac-bucket-policy">>
              [] op.check = "origin-access-control" ->
                    <<"ensure-control", "attach-control", "s3-oac-bucket-policy">>
              [] op.check = "cache-policy" -> <<"ensure-cache", "attach-cache">>
              [] OTHER -> <<op.check>>
    IN [i \in DOMAIN steps |-> [op EXCEPT !.check = steps[i]]]

InUse(edge, aliases, except) ==
    \E i \in DOMAIN edge.distributions \ {except} : edge.distributions[i].aliases \cap aliases # {}

\* A distribution of its own; an alias must be free and its certificate issued.
CreateDistribution(edge, c, issued) ==
    IF ~CertificateReady(c, issued) \/ InUse(edge, Aliases[c], 0) THEN {}
    ELSE {[edge EXCEPT !.distributions = Append(@,
             NewDistribution(c, IF Aliases[c] = {} THEN Nothing ELSE CdnCertificate[c]))]}

\* putBucketPolicyForDistribution: the statement of the CDN names the distribution,
\* which must be known; its bucket must exist.
AllowDistribution(edge, c, id, buckets) ==
    IF id = 0 \/ ~buckets[Origin[c]].exists THEN {} ELSE {[edge EXCEPT !.statements[c] = id]}

\* updateDistribution: the configuration is read and put back under its ETag.
Configure(edge, op, d) == {[edge EXCEPT !.distributions[op.id] = d]}

\* The edge after a request, or nothing when it is refused: an alias is served by
\* one distribution and needs a certificate, which must be issued.
EnactCloudFront(edge, op, issued, created, buckets) ==
    LET c == op.key
        d == edge.distributions[op.id]
        id == IF op.id # 0 THEN op.id ELSE created[c]
    IN CASE op.check = "ensure-control" -> {[edge EXCEPT !.controls = @ \cup {c}]}
         [] op.check = "ensure-cache" -> {[edge EXCEPT !.caches = @ \cup {c}]}
         [] op.check = "create" -> CreateDistribution(edge, c, issued)
         [] op.check = "origin-domain" -> Configure(edge, op, [d EXCEPT !.origin = Origin[c]])
         [] op.check = "attach-control" -> Configure(edge, op, [d EXCEPT !.control = c])
         [] op.check = "viewer-certificate" ->
                IF CdnCertificate[c] \notin issued THEN {}
                ELSE Configure(edge, op, [d EXCEPT !.certificate = CdnCertificate[c]])
         [] op.check = "aliases" ->
                IF InUse(edge, Aliases[c], op.id) \/ (Aliases[c] # {} /\ d.certificate = Nothing) THEN {}
                ELSE Configure(edge, op, [d EXCEPT !.aliases = Aliases[c]])
         [] op.check = "viewer-protocol-policy" -> Configure(edge, op, [d EXCEPT !.https = TRUE])
         [] op.check = "attach-cache" -> Configure(edge, op, [d EXCEPT !.cache = c])
         [] op.check = "access-logging" -> Configure(edge, op, [d EXCEPT !.logs = TRUE])
         [] op.check = "s3-oac-bucket-policy" -> AllowDistribution(edge, c, id, buckets)
=============================================================================
