---------------------------- MODULE MCAwsRollout ----------------------------
\* One bucket with two temporary prefixes, one CDN of it with an alias, the
\* certificate of the alias, one mail identity, one zone for all three.
EXTENDS AwsRollout, TLC
CONSTANTS media, cdn, mail, cert, zone
OneBucket == <<media>>
TwoPrefixes == media :> <<"tmp", "exports">>
OneCdn == <<cdn>>
OneAlias == cdn :> {"assets"}
OneOrigin == cdn :> media
OneCertificate == cdn :> cert
OneMail == <<mail>>
Certs == <<cert>>
OneZone == <<zone>>
ZoneOfAll == mail :> zone @@ cert :> zone @@ cdn :> zone

RuleIds == "tmp" :> "expire-tmp" @@ "exports" :> "expire-exports"
ForeignRule == Rule("foreign", "archive", TRUE, TRUE, TRUE)
ForeignRules == {ForeignRule}
DoneBucket == [exists |-> TRUE, meets |-> ToSet(PostureChecks), rules |-> {OwnRule("tmp"), OwnRule("exports")}]
\* A bucket with a rule of another tool, and one where somebody disabled a rule.
SharedBucket == [DoneBucket EXCEPT !.rules = {OwnRule("tmp"), ForeignRule}]
DisabledBucket == [DoneBucket EXCEPT !.rules = {OwnRule("tmp"), [OwnRule("exports") EXCEPT !.enabled = FALSE]}]
DoneEdge ==
    [distributions |-> <<NewDistribution(cdn, cert)>>, controls |-> Cdns, caches |-> Cdns,
     statements |-> [c \in Cdns |-> 1]]
DoneMail ==
    [exists |-> TRUE, verified |-> TRUE, mailFrom |-> TRUE, attached |-> TRUE, set |-> TRUE,
     destination |-> "ours", subscription |-> "confirmed"]
DoneNaming ==
    [mail |-> [m \in Mail |-> DoneMail], certificates |-> [k \in Certificates |-> "issued"], zones |-> Zones,
     otherMode |-> {},
     records |-> [r \in Records |-> IF r[1] = "dmarc" THEN 2 ELSE 1], access |-> TRUE]

\* What is still to be done: all of S3 and the policy of the bucket, ...
NoStatement == [DoneEdge EXCEPT !.statements[cdn] = 0]
\* the certificate and with it the alias, ...
NoCertificate ==
    [DoneNaming EXCEPT !.certificates[cert] = "none",
                       !.records[<<"acm-validation", cert>>] = 0, !.records[<<"cloudfront-alias", cdn>>] = 0]
\* or the mail identity and all by hand.
NoMail ==
    [DoneNaming EXCEPT !.mail[mail] = NewIdentity, !.access = FALSE, !.otherMode = {zone},
                       !.records = [r \in Records |-> IF r[2] = mail THEN 0 ELSE 1]]
\* A distribution of the bucket that somebody else made.
Legacy(control) ==
    [EmptyEdge EXCEPT !.distributions =
        <<[origin |-> media, control |-> control, aliases |-> {}, certificate |-> Nothing, cache |-> Nothing,
           https |-> FALSE, logs |-> FALSE]>>]

Account(b, e, n) == [buckets |-> media :> b, edge |-> e, naming |-> n]
PartlyDone ==
    {Account(MissingBucket, NoStatement, DoneNaming),
     Account(SharedBucket, EmptyEdge, NoCertificate),
     Account(DisabledBucket, DoneEdge, NoMail)}
Unsigned == {Account(DoneBucket, Legacy(Nothing), DoneNaming)}
=============================================================================
