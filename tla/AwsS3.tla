------------------------------- MODULE AwsS3 -------------------------------
(***************************************************************************)
(* What the S3 plan asks of a bucket it has read, and what its apply does  *)
(* to the bucket.  Of the posture of a bucket it matters which checks it   *)
(* meets; of a lifecycle rule its id and prefix, whether it is enabled and *)
(* simple (has a prefix and an expiration in days), and whether it says    *)
(* more (tags, transitions, the expiry of noncurrent versions).  What more *)
(* it says is not read.                                                    *)
(***************************************************************************)
EXTENDS Naturals, Sequences, SequencesExt

CONSTANTS
    BucketOrder,    \* the configured buckets, in the order of the file
    Temporary,      \* for each bucket its prefixes of temporary data, in order
    WithCors,       \* the buckets with a cors section
    Inadmissible,   \* buckets that production policy does not admit, or public
    RuleId          \* the id of the rule that expires a prefix; two may share one

Buckets == ToSet(BucketOrder)

ASSUME S3Assumption ==
    /\ BucketOrder \in Seq(Buckets)
    /\ \A b \in Buckets : Temporary[b] \in Seq(ToSet(Temporary[b]))

PostureChecks == <<"public-access-block", "object-ownership", "encryption", "tags", "cors">>

MissingBucket == [exists |-> FALSE, meets |-> {}, rules |-> {}]
EmptyBucket   == [exists |-> TRUE, meets |-> {}, rules |-> {}]
\* What a reading tells of a bucket; one that does not exist has no rules.
IsBucket(s) == s = [exists |-> s.exists, meets |-> s.meets, rules |-> s.rules] /\ (s.exists \/ s.rules = {})

Operation(family, key, action, check) ==
    [family |-> family, key |-> key, action |-> action, check |-> check]

Rule(id, prefix, enabled, simple, more) ==
    [id |-> id, prefix |-> prefix, enabled |-> enabled, simple |-> simple, more |-> more]
AsRead(rule) == Rule(rule.id, rule.prefix, rule.enabled, rule.simple, FALSE)
OwnRule(prefix) == Rule(RuleId[prefix], prefix, TRUE, TRUE, FALSE)

\* A plan carries what was read: the rules that a lifecycle request puts back.
LifecycleOperation(b, prefix, current) ==
    [family |-> "s3", key |-> b, action |-> "update", check |-> "lifecycle.temporary-prefix",
     prefix |-> prefix, current |-> {AsRead(rule) : rule \in current}]

PostureUpdates(b, inventory) ==
    LET unmet(check) == check \notin inventory.meets /\ (check = "cors" => b \in WithCors)
        update(check) == IF unmet(check) THEN <<Operation("s3", b, "update", check)>> ELSE <<>>
    IN FlattenSeq([i \in DOMAIN PostureChecks |-> update(PostureChecks[i])])

\* hasLifecycleForPrefix
Covered(prefix, rules) == \E rule \in rules : rule.enabled /\ rule.simple /\ rule.prefix = prefix

LifecycleUpdates(b, inventory) ==
    LET update(prefix) == IF Covered(prefix, inventory.rules) THEN <<>> ELSE <<LifecycleOperation(b, prefix, inventory.rules)>>
    IN FlattenSeq([i \in DOMAIN Temporary[b] |-> update(Temporary[b][i])])

OrElse(operations, otherwise) == IF operations = <<>> THEN <<otherwise>> ELSE operations

BucketPlan(b, inventory) ==
    IF b \in Inadmissible THEN <<Operation("s3", b, "blocked", "policy")>>
    ELSE IF ~inventory.exists THEN <<Operation("s3", b, "create", "bucket.exists")>>
    ELSE OrElse(PostureUpdates(b, inventory) \o LifecycleUpdates(b, inventory),
                Operation("s3", b, "no-op", "bucket.posture"))

S3Plan(inventory) ==
    FlattenSeq([i \in DOMAIN BucketOrder |-> BucketPlan(BucketOrder[i], inventory[BucketOrder[i]])])

\* mutant: a lifecycle request puts only the rule of its own prefix
EnactS3OwnRule(buckets, op) ==
    LET b == op.key IN
    IF op.check = "bucket.exists" THEN {[buckets EXCEPT ![b] = EmptyBucket]}
    ELSE IF op.check = "lifecycle.temporary-prefix" THEN {[buckets EXCEPT ![b].rules = {OwnRule(op.prefix)}]}
    ELSE {[buckets EXCEPT ![b].meets = @ \cup {op.check}]}

\* The rules a lifecycle request puts.  Apply refuses when one that was read is not
\* simple, S3 when two have the same id: a rule of the same id that is disabled, or
\* that another prefix has, is not replaced.
Amended(op) == op.current \cup {OwnRule(op.prefix)}
Acceptable(op) ==
    /\ \A rule \in op.current : rule.simple
    /\ \A rule, other \in Amended(op) : rule.id = other.id => rule = other

\* The buckets after a request, or nothing when it cannot succeed.
EnactS3(buckets, op) ==
    LET b == op.key IN
    CASE op.check = "bucket.exists" ->
            IF buckets[b].exists THEN {} ELSE {[buckets EXCEPT ![b] = EmptyBucket]}
      [] op.check = "lifecycle.temporary-prefix" ->
            IF ~buckets[b].exists \/ ~Acceptable(op) THEN {}
            ELSE {[buckets EXCEPT ![b].rules = Amended(op)]}
      [] OTHER ->
            IF ~buckets[b].exists THEN {}
            ELSE {[buckets EXCEPT ![b].meets = @ \cup {op.check}]}
=============================================================================
