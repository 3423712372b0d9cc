\* One bucket, CDN, certificate, identity and zone; the distribution of the bucket
\* is one that somebody else made, and one request may fail.
SPECIFICATION AwsSpec
CONSTANTS
 media=media cdn=cdn mail=mail cert=cert zone=zone
 BucketOrder <- OneBucket
 Temporary <- TwoPrefixes
 WithCors = {media}
 Inadmissible = {}
 RuleId <- RuleIds
 CdnOrder <- OneCdn
 Aliases <- OneAlias
 Origin <- OneOrigin
 CdnCertificate <- OneCertificate
 WithLogs = {cdn}
 Refused = {}
 Nothing = Nothing
 MailOrder <- OneMail
 CertificateOrder <- Certs
 ZoneOrder <- OneZone
 ExternalZones = {}
 ZoneFor <- ZoneOfAll
 WithMailFrom = {mail}
 WithConfigurationSet = {mail}
 WithDestination = {mail}
 WithBimi = {mail}
 Misaligned = {}
 Production = TRUE
 Accounts <- Unsigned
 StrangerRules = {}
 MaxStrangers = 0
 MaxRepeats = 0
 MaxSetbacks = 1
 MaxIncidents = 1

INVARIANT NoOpIsServed
CHECK_DEADLOCK FALSE
