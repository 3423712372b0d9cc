--------------------------- MODULE ProviderProofs ---------------------------
(***************************************************************************)
(* What people and other tools keep when the host writes to a provider:    *)
(* the lifecycle rules of a bucket (AwsS3, AwsRollout), the resources of a *)
(* tag manager workspace (TagManagerSync) and the DNS records of a zone    *)
(* (CloudRollout).                                                         *)
(*                                                                         *)
(* Their plans are flattened lists.  That such a list holds what its parts  *)
(* hold needs induction over their number; it is done with a least number  *)
(* of a set (LeastNumber), so that the lemmas FlattenTyped and ListedTyped *)
(* hold for every list and set.                                            *)
(***************************************************************************)
EXTENDS AwsRollout, TagManagerSync, CloudRollout, FiniteSetTheorems, TLAPS

LEMMA LeastNumber == ASSUME NEW T, T \subseteq Nat, T # {} PROVE \E m \in T : \A k \in T : m <= k
<1> DEFINE Below == {0 .. k : k \in T}
<1>1. Below \subseteq FiniteSubsetsOf(Nat) /\ Below # {}
  <2>1. ASSUME NEW k \in T PROVE 0 .. k \in FiniteSubsetsOf(Nat)
    <3>1. k \in Int /\ 0 \in Int /\ 0 .. k \in SUBSET Nat
      OBVIOUS
    <3>2. IsFiniteSet(0 .. k)
      BY <3>1, FS_Interval
    <3> QED
      BY <3>1, <3>2 DEF FiniteSubsetsOf
  <2> QED
    BY <2>1
<1>2. \E X \in Below : \A Y \in Below : <<Y, X>> \notin StrictSubsetOrdering(Nat)
  <2> HIDE DEF Below
  <2> QED
    BY <1>1, FS_StrictSubsetOrderingWellFounded, WFMin
<1>3. PICK m \in T : \A k \in T : <<0 .. k, 0 .. m>> \notin StrictSubsetOrdering(Nat)
  BY <1>2
<1>4. ASSUME NEW k \in T PROVE m <= k
  <2>1. m \in Nat /\ k \in Nat
    OBVIOUS
  <2>2. ASSUME k < m PROVE FALSE
    <3>1. 0 .. k \in SUBSET Nat /\ 0 .. m \in SUBSET Nat /\ 0 .. k \subseteq 0 .. m /\ m \in 0 .. m /\ m \notin 0 .. k
      BY <2>1, <2>2
    <3>2. <<0 .. k, 0 .. m>> \in StrictSubsetOrdering(Nat)
      BY <3>1 DEF StrictSubsetOrdering
    <3> QED
      BY <1>3, <3>2
  <2> QED
    BY <2>1, <2>2
<1> QED
  BY <1>4

\* A list of lists of things of a set is flattened to a list of them.
FlattensTo(f, ss) == f = [i \in 1 .. Len(ss) |-> IF i = 1 THEN ss[i] ELSE f[i - 1] \o ss[i]]

LEMMA FlattenExists ==
    ASSUME NEW S, NEW n \in Nat, NEW ss \in [1 .. n -> Seq(S)]
    PROVE  \E f : FlattensTo(f, ss)
<1> DEFINE Starts_(f, k) == f \in [1 .. k -> Seq(S)] /\ \A i \in 1 .. k : f[i] = IF i = 1 THEN ss[i] ELSE f[i - 1] \o ss[i]
<1> DEFINE T == {k \in 0 .. n : ~ \E f : Starts_(f, k)}
<1>1. T = {}
  <2> SUFFICES ASSUME T # {} PROVE FALSE
    OBVIOUS
  <2>1. PICK m \in T : \A k \in T : m <= k
    <3>1. T \subseteq Nat
      OBVIOUS
    <3> HIDE DEF T
    <3> QED
      BY <3>1, LeastNumber
  <2>0. m \in 0 .. n /\ ~ \E f : Starts_(f, m)
    OBVIOUS
  <2>2. m # 0
    <3>1. Starts_([i \in 1 .. 0 |-> <<>>], 0)
      OBVIOUS
    <3> QED
      BY <2>0, <3>1
  <2>3. PICK f : Starts_(f, m - 1)
    <3>1. m - 1 \in 0 .. n /\ ~(m <= m - 1)
      BY <2>0, <2>2
    <3>2. m - 1 \notin T
      <4> HIDE DEF T
      <4> QED
        BY <2>1, <3>1
    <3> QED
      BY <3>1, <3>2
  <2> DEFINE next == IF m = 1 THEN ss[m] ELSE f[m - 1] \o ss[m]
             g == [i \in 1 .. m |-> IF i = m THEN next ELSE f[i]]
  <2>4. next \in Seq(S)
    <3>1. m \in 1 .. n /\ ss[m] \in Seq(S)
      BY <2>0, <2>2
    <3>2. m # 1 => f[m - 1] \in Seq(S)
      BY <2>3, <3>1
    <3> QED
      BY <3>1, <3>2
  <2>5. Starts_(g, m)
    <3>1. m \in 1 .. n
      BY <2>0, <2>2
    <3> HIDE DEF next
    <3>2. g \in [1 .. m -> Seq(S)]
      BY <2>3, <2>4, <3>1
    <3>3. ASSUME NEW i \in 1 .. m PROVE g[i] = IF i = 1 THEN ss[i] ELSE g[i - 1] \o ss[i]
      <4>1. CASE i = m
        BY <3>1, <4>1 DEF next
      <4>2. CASE i # m
        <5>1. i \in 1 .. m - 1 /\ g[i] = f[i] /\ (i # 1 => g[i - 1] = f[i - 1])
          BY <3>1, <4>2
        <5> QED
          BY <2>3, <5>1
      <4> QED
        BY <4>1, <4>2
    <3> QED
      BY <3>2, <3>3
  <2> QED
    BY <2>0, <2>5
<1>2. PICK f : Starts_(f, n)
  <2>1. n \in 0 .. n
    OBVIOUS
  <2>2. n \notin T
    <3> HIDE DEF T
    <3> QED
      BY <1>1
  <2> QED
    BY <2>1, <2>2
<1>3. f = [i \in 1 .. n |-> IF i = 1 THEN ss[i] ELSE f[i - 1] \o ss[i]]
  BY <1>2
<1>4. Len(ss) = n
  OBVIOUS
<1> QED
  BY <1>3, <1>4 DEF FlattensTo

LEMMA FlattenTyped ==
    ASSUME NEW S, NEW n \in Nat, NEW ss \in [1 .. n -> Seq(S)]
    PROVE  FlattenSeq(ss) \in Seq(S)
<1>1. Len(ss) = n
  OBVIOUS
<1>2. CASE n = 0
  BY <1>1, <1>2 DEF FlattenSeq
<1>3. CASE n # 0
  <2> DEFINE f == CHOOSE f : f = [i \in 1 .. Len(ss) |-> IF i = 1 THEN ss[i] ELSE f[i - 1] \o ss[i]]
  <2>1. FlattensTo(f, ss)
    BY FlattenExists DEF FlattensTo
  <2>2. FlattenSeq(ss) = f[n]
    BY <1>1, <1>3 DEF FlattenSeq
  <2> HIDE DEF f
  <2> DEFINE T == {i \in 1 .. n : f[i] \notin Seq(S)}
  <2>3. ASSUME T # {} PROVE FALSE
    <3>1. PICK m \in T : \A k \in T : m <= k
      <4>1. T \subseteq Nat
        OBVIOUS
      <4> HIDE DEF T
      <4> QED
        BY <2>3, <4>1, LeastNumber
    <3>2. f[m] = IF m = 1 THEN ss[m] ELSE f[m - 1] \o ss[m]
      BY <1>1, <2>1 DEF FlattensTo
    <3>3. m # 1 => f[m - 1] \in Seq(S)
      BY <3>1
    <3>4. m \in 1 .. n /\ f[m] \notin Seq(S) /\ ss[m] \in Seq(S)
      OBVIOUS
    <3>5. CASE m = 1
      BY <3>2, <3>4, <3>5
    <3>6. CASE m # 1
      BY <3>2, <3>3, <3>4, <3>6
    <3> QED
      BY <3>5, <3>6
  <2> QED
    BY <1>3, <2>2, <2>3
<1> QED
  BY <1>2, <1>3

-----------------------------------------------------------------------------
(***************************************************************************)
(* The lifecycle rules of other tools.                                     *)
(***************************************************************************)
PlainRequest ==
    [family : {"s3"}, key : Buckets, action : {"update", "create", "blocked", "no-op"},
     check : ToSet(PostureChecks) \cup {"policy", "bucket.exists", "bucket.posture"}]
\* The requests of a plan that was made from these rules.
Made(rules) ==
    PlainRequest
        \cup UNION {{LifecycleOperation(b, prefix, rules[b]) : prefix \in ToSet(Temporary[b])} : b \in Buckets}

RulesTyped ==
    /\ stage = [f \in Families |-> stage[f]]
    /\ reviewed = [f \in Families |-> reviewed[f]]
    /\ todo = [f \in Families |-> todo[f]]
    /\ buckets = [b \in Buckets |-> buckets[b]] /\ \A b \in Buckets : IsBucket(buckets[b])

\* The S3 plan and what is left of it were made from one reading, and a rule of
\* another tool that is there was in that reading or came after it.
ReadBefore(rules) ==
    /\ reviewed["s3"] \in Seq(Made(rules)) /\ todo["s3"] \in Seq(Made(rules))
    /\ \A b \in Buckets : \A rule \in StrangerRules :
        Has(buckets[b].rules, rule) => Has(rules[b], rule) \/ <<b, AsRead(rule)>> \in unseen

RulesInv ==
    /\ RulesTyped
    /\ stage["s3"] # "applying" => todo["s3"] = <<>>
    /\ \E rules : ReadBefore(rules)

LEMMA PostureMade ==
    ASSUME NEW b \in Buckets, NEW inventory, NEW rules PROVE PostureUpdates(b, inventory) \in Seq(Made(rules))
<1> DEFINE unmet(check) == check \notin inventory.meets /\ (check = "cors" => b \in WithCors)
           update(check) == IF unmet(check) THEN <<Operation("s3", b, "update", check)>> ELSE <<>>
           updates == [i \in DOMAIN PostureChecks |-> update(PostureChecks[i])]
<1>1. DOMAIN PostureChecks = 1 .. 5
  BY DEF PostureChecks
<1>2. ASSUME NEW check \in ToSet(PostureChecks) PROVE update(check) \in Seq(Made(rules))
  <2>1. Operation("s3", b, "update", check) \in Made(rules)
    BY <1>2 DEF Operation, Made, PlainRequest
  <2> HIDE DEF unmet
  <2> QED
    BY <2>1
<1>3. updates \in [1 .. 5 -> Seq(Made(rules))]
  <2> HIDE DEF update
  <2> QED
    BY <1>1, <1>2 DEF ToSet
<1> QED
  <2> HIDE DEF update
  <2>1. FlattenSeq(updates) \in Seq(Made(rules))
    BY <1>3, FlattenTyped
  <2> QED
    BY <2>1 DEF PostureUpdates, update

LEMMA LifecycleMade ==
    ASSUME NEW b \in Buckets, NEW inventory, NEW rules, rules[b] = inventory.rules
    PROVE  LifecycleUpdates(b, inventory) \in Seq(Made(rules))
<1> DEFINE update(prefix) == IF Covered(prefix, inventory.rules) THEN <<>> ELSE <<LifecycleOperation(b, prefix, inventory.rules)>>
           updates == [i \in DOMAIN Temporary[b] |-> update(Temporary[b][i])]
<1>1. PICK n \in Nat : DOMAIN Temporary[b] = 1 .. n
  BY S3Assumption
<1>2. ASSUME NEW prefix \in ToSet(Temporary[b]) PROVE update(prefix) \in Seq(Made(rules))
  <2>1. LifecycleOperation(b, prefix, inventory.rules) \in Made(rules)
    BY <1>2 DEF Made
  <2> QED
    BY <2>1
<1>3. updates \in [1 .. n -> Seq(Made(rules))]
  <2> HIDE DEF update
  <2> QED
    BY <1>1, <1>2 DEF ToSet
<1> QED
  <2> HIDE DEF update
  <2>1. FlattenSeq(updates) \in Seq(Made(rules))
    BY <1>3, FlattenTyped
  <2> QED
    BY <2>1 DEF LifecycleUpdates, update

\* A plan is made from the rules it has read.
LEMMA PlanMade ==
    ASSUME NEW inventory, NEW rules, \A b \in Buckets : rules[b] = inventory[b].rules
    PROVE  S3Plan(inventory) \in Seq(Made(rules))
<1> DEFINE plans == [i \in DOMAIN BucketOrder |-> BucketPlan(BucketOrder[i], inventory[BucketOrder[i]])]
<1>1. PICK n \in Nat : BucketOrder \in [1 .. n -> Buckets]
  BY S3Assumption
<1>2. ASSUME NEW b \in Buckets PROVE BucketPlan(b, inventory[b]) \in Seq(Made(rules))
  <2>1. \A action \in {"create", "blocked", "no-op"} : \A check \in {"policy", "bucket.exists", "bucket.posture"} :
            <<Operation("s3", b, action, check)>> \in Seq(Made(rules))
    <3>1. \A action \in {"create", "blocked", "no-op"} : \A check \in {"policy", "bucket.exists", "bucket.posture"} :
              Operation("s3", b, action, check) \in Made(rules)
      BY DEF Operation, Made, PlainRequest
    <3> QED
      BY <3>1
  <2>2. PostureUpdates(b, inventory[b]) \o LifecycleUpdates(b, inventory[b]) \in Seq(Made(rules))
    BY PostureMade, LifecycleMade
  <2> QED
    BY <2>1, <2>2 DEF BucketPlan, OrElse
<1>3. plans \in [1 .. n -> Seq(Made(rules))]
  BY <1>1, <1>2
<1>4. FlattenSeq(plans) \in Seq(Made(rules))
  <2> HIDE DEF plans
  <2> QED
    BY <1>3, FlattenTyped
<1> QED
  BY <1>4 DEF S3Plan

LEMMA RequestsMade ==
    ASSUME NEW rules, NEW operations \in Seq(Made(rules))
    PROVE  FlattenSeq([i \in DOMAIN operations |-> Requests(operations[i])]) \in Seq(Made(rules))
<1>1. ASSUME NEW op \in Made(rules) PROVE Requests(op) \in Seq(Made(rules))
  <2>1. op.family = "s3"
    BY DEF Made, PlainRequest, LifecycleOperation
  <2>2. Requests(op) = <<>> \/ Requests(op) = <<op>>
    BY <2>1 DEF Requests
  <2>3. <<op>> \in Seq(Made(rules)) /\ <<>> \in Seq(Made(rules))
    OBVIOUS
  <2> QED
    BY <2>2, <2>3
<1>2. PICK n \in Nat : operations \in [1 .. n -> Made(rules)]
  OBVIOUS
<1>3. [i \in DOMAIN operations |-> Requests(operations[i])] \in [1 .. n -> Seq(Made(rules))]
  BY <1>1, <1>2
<1> QED
  BY <1>3, FlattenTyped

\* What a request of the plan makes of the rules of other tools.
LEMMA EnactKeeps ==
    ASSUME RulesTyped, NEW rules, NEW op \in Made(rules), NEW after \in EnactS3(buckets, op)
    PROVE  /\ after = [b \in Buckets |-> after[b]] /\ \A b \in Buckets : IsBucket(after[b])
           /\ \A b \in Buckets : \A rule \in StrangerRules :
                /\ Has(after[b].rules, rule) => Has(rules[b], rule) \/ Has(buckets[b].rules, rule)
                /\ Has(buckets[b].rules, rule) /\ ~Has(after[b].rules, rule) => ~Has(rules[b], rule)
<1>1. /\ buckets = [b \in Buckets |-> buckets[b]] /\ op.key \in Buckets
      /\ \A b \in Buckets : IsBucket(buckets[b])
  BY DEF RulesTyped, Made, PlainRequest, LifecycleOperation
<1>2. PICK k \in Buckets : k = op.key
  BY <1>1
<1>3. PICK old : old = buckets[k] /\ old = [exists |-> old.exists, meets |-> old.meets, rules |-> old.rules]
                 /\ (old.exists \/ old.rules = {})
  BY <1>1 DEF IsBucket
<1>4. ASSUME NEW new, after = [buckets EXCEPT ![k] = new], IsBucket(new),
             \A rule \in StrangerRules :
                /\ Has(new.rules, rule) => Has(rules[k], rule) \/ Has(old.rules, rule)
                /\ Has(old.rules, rule) /\ ~Has(new.rules, rule) => ~Has(rules[k], rule)
      PROVE  /\ after = [b \in Buckets |-> after[b]] /\ \A b \in Buckets : IsBucket(after[b])
             /\ \A b \in Buckets : \A rule \in StrangerRules :
                  /\ Has(after[b].rules, rule) => Has(rules[b], rule) \/ Has(buckets[b].rules, rule)
                  /\ Has(buckets[b].rules, rule) /\ ~Has(after[b].rules, rule) => ~Has(rules[b], rule)
  <2>1. after = [b \in Buckets |-> after[b]] /\ after[k] = new /\ \A b \in Buckets \ {k} : after[b] = buckets[b]
    BY <1>1, <1>4
  <2> QED
    BY <1>1, <1>3, <1>4, <2>1
<1>5. CASE op.check = "bucket.exists"
  <2>1. after = [buckets EXCEPT ![k] = EmptyBucket] /\ ~old.exists
    BY <1>2, <1>3, <1>5 DEF EnactS3
  <2>2. IsBucket(EmptyBucket) /\ \A rule : ~Has(EmptyBucket.rules, rule) /\ ~Has(old.rules, rule)
    BY <1>3, <2>1 DEF IsBucket, EmptyBucket, Has
  <2> QED
    BY <1>4, <2>1, <2>2
<1>6. CASE op.check = "lifecycle.temporary-prefix"
  <2>1. op.check \notin ToSet(PostureChecks) \cup {"policy", "bucket.exists", "bucket.posture"}
    BY <1>6 DEF ToSet, PostureChecks
  <2>2. op \notin PlainRequest
    BY <2>1 DEF PlainRequest
  <2>3. PICK prefix \in ToSet(Temporary[k]) : op = LifecycleOperation(k, prefix, rules[k])
    BY <1>2, <2>2 DEF Made, LifecycleOperation
  <2> DEFINE kept == {AsRead(rule) : rule \in rules[k]} \cup {OwnRule(prefix)}
             new == [exists |-> old.exists, meets |-> old.meets, rules |-> kept]
  <2>4. Amended(op) = kept
    BY <2>3 DEF LifecycleOperation, Amended
  <2>5. after = [buckets EXCEPT ![k].rules = kept] /\ old.exists
    <3> HIDE DEF kept
    <3> QED
      BY <1>2, <1>3, <1>6, <2>4 DEF EnactS3
  <2>6. after = [buckets EXCEPT ![k] = new]
    <3> HIDE DEF kept
    <3>1. [old EXCEPT !.rules = kept] = new
      BY <1>3
    <3> QED
      BY <1>3, <2>5, <3>1
  <2>7. IsBucket(new) /\ new.rules = kept
    BY <2>5 DEF IsBucket
  <2>8. \A rule \in StrangerRules : Has(kept, rule) <=> Has(rules[k], rule)
    <3>1. \A rule : AsRead(AsRead(rule)) = AsRead(rule)
      BY DEF AsRead, Rule
    <3>2. AsRead(OwnRule(prefix)) = OwnRule(prefix)
      BY DEF AsRead, OwnRule, Rule
    <3>3. \A rule \in StrangerRules : AsRead(rule) # OwnRule(prefix)
      BY <2>3, RolloutAssumption
    <3> QED
      BY <3>1, <3>2, <3>3 DEF Has
  <2> HIDE DEF new, kept
  <2> QED
    BY <1>4, <2>6, <2>7, <2>8
<1>7. CASE op.check \notin {"bucket.exists", "lifecycle.temporary-prefix"}
  <2>1. after = [buckets EXCEPT ![k].meets = @ \cup {op.check}]
    BY <1>2, <1>7 DEF EnactS3
  <2> DEFINE new == [exists |-> old.exists, meets |-> old.meets \cup {op.check}, rules |-> old.rules]
  <2>2. after = [buckets EXCEPT ![k] = new]
    <3>1. [old EXCEPT !.meets = @ \cup {op.check}] = new
      BY <1>3
    <3> QED
      BY <1>3, <2>1, <3>1
  <2>3. IsBucket(new) /\ new.rules = old.rules
    BY <1>3 DEF IsBucket
  <2> HIDE DEF new
  <2> QED
    BY <1>4, <2>2, <2>3
<1> QED
  BY <1>5, <1>6, <1>7

LEMMA RulesInit == AwsInit => RulesInv
<1> SUFFICES ASSUME AwsInit PROVE RulesInv
  OBVIOUS
<1>1. RulesTyped
  BY RolloutAssumption DEF AwsInit, RulesTyped
<1>2. reviewed["s3"] = <<>> /\ todo["s3"] = <<>>
  BY DEF AwsInit, Families
<1>3. ReadBefore([b \in Buckets |-> buckets[b].rules])
  BY <1>2 DEF ReadBefore
<1> QED
  BY <1>1, <1>2, <1>3 DEF RulesInv

\* The steps of the S3 family that leave the buckets as they are.
LEMMA PlanStep ==
    ASSUME RulesInv, NEW f \in Families, MakePlan(f) \/ RepeatPlan(f) PROVE RulesInv'
<1>1. RulesTyped /\ buckets' = buckets /\ todo' = todo /\ stage[f] = "idle" /\ MoveTo(f, "planned")
  BY DEF RulesInv, MakePlan, RepeatPlan, ComesUp, account
<1>2. stage' = [g \in Families |-> stage'[g]] /\ \A g \in Families \ {f} : stage'[g] = stage[g]
  BY <1>1 DEF RulesTyped, MoveTo
<1>3. "s3" \in Families
  BY DEF Families
<1>4. CASE f = "s3" /\ MakePlan(f)
  <2>1. reviewed' = [reviewed EXCEPT !["s3"] = S3Plan(buckets)] /\ todo["s3"] = <<>>
    BY <1>1, <1>4 DEF MakePlan, PlanOf, RulesInv
  <2>2. reviewed' = [g \in Families |-> reviewed'[g]] /\ reviewed'["s3"] = S3Plan(buckets)
    BY <1>1, <1>3, <2>1 DEF RulesTyped
  <2> DEFINE rules == [b \in Buckets |-> buckets[b].rules]
  <2>3. S3Plan(buckets) \in Seq(Made(rules))
    BY PlanMade
  <2>4. ReadBefore(rules)'
    BY <1>1, <2>1, <2>2, <2>3 DEF ReadBefore, Made
  <2>5. RulesTyped'
    BY <1>1, <1>2, <2>2 DEF RulesTyped
  <2> QED
    BY <1>1, <2>1, <2>4, <2>5 DEF RulesInv
<1>5. CASE ~(f = "s3" /\ MakePlan(f))
  <2>1. reviewed' = [g \in Families |-> reviewed'[g]] /\ reviewed'["s3"] = reviewed["s3"] /\ unseen' = unseen
    BY <1>1, <1>3, <1>5 DEF MakePlan, RepeatPlan, RulesTyped
  <2>2. PICK rules : ReadBefore(rules)
    BY DEF RulesInv
  <2>3. ReadBefore(rules)'
    BY <1>1, <2>1, <2>2 DEF ReadBefore
  <2>4. stage'["s3"] # "applying" => todo'["s3"] = <<>>
    BY <1>1, <1>2, <1>3 DEF RulesInv, MoveTo
  <2> QED
    BY <1>1, <1>2, <2>1, <2>3, <2>4 DEF RulesInv, RulesTyped
<1> QED
  BY <1>4, <1>5

LEMMA StartStep == ASSUME RulesInv, NEW f \in Families, StartOperations(f) PROVE RulesInv'
<1>1. /\ RulesTyped /\ buckets' = buckets /\ reviewed' = reviewed /\ unseen' = unseen /\ "s3" \in Families
      /\ stage[f] = "planned"
  BY DEF RulesInv, StartOperations, account, Families
<1>2. PICK rules : ReadBefore(rules)
  BY DEF RulesInv
<1>3. CASE MoveTo(f, "idle") /\ UNCHANGED todo
  <2>1. stage' = [g \in Families |-> stage'[g]] /\ (stage'["s3"] # "applying" => todo'["s3"] = <<>>)
    BY <1>1, <1>3 DEF RulesTyped, MoveTo, RulesInv
  <2>2. ReadBefore(rules)'
    BY <1>1, <1>2, <1>3 DEF ReadBefore
  <2> QED
    BY <1>1, <1>3, <2>1, <2>2 DEF RulesInv, RulesTyped
<1>4. CASE /\ MoveTo(f, "applying")
           /\ todo' = [todo EXCEPT ![f] = FlattenSeq([i \in DOMAIN reviewed[f] |-> Requests(reviewed[f][i])])]
  <2>1. stage' = [g \in Families |-> stage'[g]] /\ stage'[f] = "applying" /\ \A g \in Families \ {f} : stage'[g] = stage[g]
    BY <1>1, <1>4 DEF RulesTyped, MoveTo
  <2>2. /\ todo' = [g \in Families |-> todo'[g]] /\ \A g \in Families \ {f} : todo'[g] = todo[g]
        /\ todo'[f] = FlattenSeq([i \in DOMAIN reviewed[f] |-> Requests(reviewed[f][i])])
    BY <1>1, <1>4 DEF RulesTyped
  <2>3. todo'["s3"] \in Seq(Made(rules))
    BY <1>1, <1>2, <2>2, RequestsMade DEF ReadBefore
  <2>4. ReadBefore(rules)'
    BY <1>1, <1>2, <2>3 DEF ReadBefore
  <2> QED
    BY <1>1, <2>1, <2>2, <2>4 DEF RulesInv, RulesTyped
<1> QED
  BY <1>3, <1>4 DEF StartOperations

\* Every rule of another tool that a step takes away is one that the plan was made without.
OnlyUnseenLost ==
    \A b \in Buckets : \A rule \in StrangerRules :
        Has(buckets[b].rules, rule) /\ ~Has(buckets'[b].rules, rule) => <<b, AsRead(rule)>> \in unseen

LEMMA RequestStep ==
    ASSUME RulesInv, NEW f \in Families, todo[f] # <<>>, stage[f] = "applying",
           UNCHANGED <<stage, reviewed, unseen>>,
           todo' = [todo EXCEPT ![f] = Tail(todo[f])] \/ todo' = [todo EXCEPT ![f] = <<>>],
           \/ UNCHANGED buckets
           \/ \E after \in Enact(f, Head(todo[f])) : TakesEffect(f, Head(todo[f]), after)
    PROVE  RulesInv' /\ OnlyUnseenLost
<1>1. RulesTyped /\ "s3" \in Families
  BY DEF RulesInv, Families
<1>2. PICK rules : ReadBefore(rules)
  BY DEF RulesInv
<1>3. /\ todo' = [g \in Families |-> todo'[g]] /\ \A g \in Families \ {f} : todo'[g] = todo[g]
      /\ todo'[f] \in {Tail(todo[f]), <<>>}
  BY <1>1 DEF RulesTyped
<1>4. todo'["s3"] \in Seq(Made(rules)) /\ (stage'["s3"] # "applying" => todo'["s3"] = <<>>)
  <2>1. CASE f = "s3"
    <3>1. Tail(todo["s3"]) \in Seq(Made(rules)) /\ <<>> \in Seq(Made(rules))
      BY <1>2, <2>1 DEF ReadBefore
    <3> QED
      BY <1>3, <2>1, <3>1
  <2>2. CASE f # "s3"
    BY <1>1, <1>2, <1>3, <2>2 DEF ReadBefore, RulesInv
  <2> QED
    BY <2>1, <2>2
<1>5. CASE UNCHANGED buckets
  <2>1. ReadBefore(rules)'
    BY <1>2, <1>4, <1>5 DEF ReadBefore
  <2> QED
    BY <1>1, <1>3, <1>4, <1>5, <2>1 DEF RulesInv, RulesTyped, OnlyUnseenLost
<1>6. CASE f = "s3" /\ ~UNCHANGED buckets
  <2>1. PICK op \in Made(rules) : op = Head(todo["s3"])
    BY <1>2, <1>6 DEF ReadBefore
  <2>2. PICK after \in EnactS3(buckets, op) : buckets' = after
    BY <1>6, <2>1 DEF Enact, TakesEffect
  <2>3. /\ buckets' = [b \in Buckets |-> buckets'[b]] /\ \A b \in Buckets : IsBucket(buckets'[b])
        /\ \A b \in Buckets : \A rule \in StrangerRules :
             /\ Has(buckets'[b].rules, rule) => Has(rules[b], rule) \/ Has(buckets[b].rules, rule)
             /\ Has(buckets[b].rules, rule) /\ ~Has(buckets'[b].rules, rule) => ~Has(rules[b], rule)
    BY <1>1, <2>2, EnactKeeps
  <2>4. ReadBefore(rules)' /\ OnlyUnseenLost
    BY <1>2, <1>4, <2>3 DEF ReadBefore, OnlyUnseenLost
  <2> QED
    BY <1>1, <1>3, <1>4, <2>3, <2>4 DEF RulesInv, RulesTyped
<1> QED
  BY <1>5, <1>6 DEF TakesEffect

LEMMA RulesStep == RulesInv /\ [AwsNext]_awsVars => RulesInv' /\ OnlyUnseenLost
<1> SUFFICES ASSUME RulesInv, [AwsNext]_awsVars PROVE RulesInv' /\ OnlyUnseenLost
  OBVIOUS
<1>1. RulesTyped /\ "s3" \in Families
  BY DEF RulesInv, Families
<1>2. ASSUME UNCHANGED <<buckets, stage, reviewed, todo, unseen>> PROVE RulesInv' /\ OnlyUnseenLost
  <2>1. PICK rules : ReadBefore(rules)
    BY DEF RulesInv
  <2>2. ReadBefore(rules)'
    BY <1>2, <2>1 DEF ReadBefore
  <2> QED
    BY <1>1, <1>2, <2>2 DEF RulesInv, RulesTyped, OnlyUnseenLost
<1>3. ASSUME NEW f \in Families, MakePlan(f) \/ RepeatPlan(f) \/ StartOperations(f) PROVE RulesInv' /\ OnlyUnseenLost
  <2>1. buckets' = buckets
    BY <1>3 DEF MakePlan, RepeatPlan, StartOperations, account
  <2> QED
    BY <1>3, <2>1, PlanStep, StartStep DEF OnlyUnseenLost
<1>4. ASSUME NEW f \in Families, Request(f) \/ Setback(f) PROVE RulesInv' /\ OnlyUnseenLost
  BY <1>4, RequestStep DEF Request, Setback, account
<1>5. ASSUME NEW f \in Families, FinishOperations(f) \/ DieApplying(f) PROVE RulesInv' /\ OnlyUnseenLost
  <2>1. UNCHANGED <<buckets, reviewed, unseen>> /\ MoveTo(f, "idle")
        /\ ((todo' = todo /\ todo[f] = <<>>) \/ todo' = [todo EXCEPT ![f] = <<>>])
    BY <1>5 DEF FinishOperations, DieApplying, account
  <2>2. /\ stage' = [g \in Families |-> stage'[g]] /\ \A g \in Families \ {f} : stage'[g] = stage[g]
        /\ todo' = [g \in Families |-> todo'[g]] /\ \A g \in Families \ {f} : todo'[g] = todo[g]
        /\ todo'[f] = <<>>
    BY <1>1, <2>1 DEF RulesTyped, MoveTo
  <2>3. stage'["s3"] # "applying" => todo'["s3"] = <<>>
    BY <1>1, <2>2 DEF RulesInv
  <2>4. PICK rules : ReadBefore(rules)
    BY DEF RulesInv
  <2>5. todo'["s3"] \in Seq(Made(rules))
    <3>1. <<>> \in Seq(Made(rules))
      OBVIOUS
    <3> QED
      BY <1>1, <2>2, <2>4, <3>1 DEF ReadBefore
  <2>6. ReadBefore(rules)'
    BY <2>1, <2>4, <2>5 DEF ReadBefore
  <2> QED
    BY <1>1, <2>1, <2>2, <2>3, <2>6 DEF RulesInv, RulesTyped, OnlyUnseenLost
<1>6. ASSUME NEW b \in Buckets, NEW rule \in StrangerRules, AddRule(b, rule) PROVE RulesInv' /\ OnlyUnseenLost
  <2>1. PICK old : old = buckets[b] /\ old = [exists |-> old.exists, meets |-> old.meets, rules |-> old.rules]
    BY <1>1 DEF RulesTyped, IsBucket
  <2> DEFINE new == [exists |-> old.exists, meets |-> old.meets, rules |-> old.rules \cup {rule}]
  <2>2. buckets' = [buckets EXCEPT ![b] = new]
    <3>1. [old EXCEPT !.rules = old.rules \cup {rule}] = new
      BY <2>1
    <3> QED
      BY <1>6, <2>1, <3>1 DEF AddRule
  <2>3. IsBucket(new) /\ new.rules = old.rules \cup {rule}
    BY <1>6, <2>1 DEF IsBucket, AddRule
  <2> HIDE DEF new
  <2>4. buckets' = [d \in Buckets |-> buckets'[d]] /\ buckets'[b] = new /\ \A d \in Buckets \ {b} : buckets'[d] = buckets[d]
    BY <1>1, <2>2 DEF RulesTyped
  <2>5. UNCHANGED <<stage, reviewed, todo>> /\ unseen' = unseen \cup {<<b, AsRead(rule)>>}
    BY <1>6 DEF AddRule
  <2>6. PICK rules : ReadBefore(rules)
    BY DEF RulesInv
  <2>7. ReadBefore(rules)' /\ OnlyUnseenLost
    <3>1. \A other : Has(new.rules, other) <=> Has(old.rules, other) \/ AsRead(other) = AsRead(rule)
      BY <2>3 DEF Has
    <3> QED
      BY <2>1, <2>4, <2>5, <2>6, <3>1 DEF ReadBefore, OnlyUnseenLost
  <2>8. RulesTyped'
    BY <1>1, <2>3, <2>4, <2>5 DEF RulesTyped
  <2> QED
    BY <2>5, <2>7, <2>8 DEF RulesInv
<1>7. ASSUME NEW f \in Families, RemoveLock(f) PROVE RulesInv' /\ OnlyUnseenLost
  BY <1>2, <1>7 DEF RemoveLock, account
<1>10. CASE PlanAmiss
  <2>1. /\ UNCHANGED <<buckets, todo, unseen>> /\ MoveTo("domains", "planned")
        /\ \E plan : reviewed' = [reviewed EXCEPT !["domains"] = plan]
    BY <1>10 DEF PlanAmiss, ComesUp, account
  <2>2. /\ stage' = [g \in Families |-> stage'[g]] /\ stage'["s3"] = stage["s3"]
        /\ reviewed' = [g \in Families |-> reviewed'[g]] /\ reviewed'["s3"] = reviewed["s3"]
    BY <1>1, <2>1 DEF RulesTyped, MoveTo
  <2>3. PICK rules : ReadBefore(rules)
    BY DEF RulesInv
  <2>4. ReadBefore(rules)'
    BY <2>1, <2>2, <2>3 DEF ReadBefore
  <2> QED
    BY <1>1, <2>1, <2>2, <2>4 DEF RulesInv, RulesTyped, OnlyUnseenLost
<1>8. CASE Prerequisite \/ Progress
  BY <1>2, <1>8 DEF Prerequisite, Progress, IssueCertificate, VerifyIdentity, ConfirmSubscription, CreateZone,
                    PublishDmarc, GrantAccess, Names
<1>9. CASE UNCHANGED awsVars
  BY <1>2, <1>9 DEF awsVars, account
<1> QED
  BY <1>3, <1>4, <1>5, <1>6, <1>7, <1>8, <1>9, <1>10 DEF AwsNext, Applies

\* An apply of an S3 plan takes away a lifecycle rule of another tool, or changes its
\* prefix, status or expiration, only when the rule came after the plan was made,
\* whatever fails and however often a plan is applied (a lifecycle request puts the
\* rules that the plan has read, and of each rule what the reading tells).
THEOREM StrangerRulesAreKept == AwsSpec => StrangerRulesKept
<1>1. RulesInv /\ [AwsNext]_awsVars
        => [\A b \in Buckets : \A rule \in StrangerRules :
                Has(buckets[b].rules, rule) /\ ~Has(buckets'[b].rules, rule) => <<b, AsRead(rule)>> \in unseen]_awsVars
  BY RulesStep DEF OnlyUnseenLost
<1>2. RulesInv /\ [AwsNext]_awsVars => RulesInv'
  BY RulesStep
<1> QED
  BY <1>1, <1>2, RulesInit, PTL DEF AwsSpec, StrangerRulesKept

-----------------------------------------------------------------------------
(***************************************************************************)
(* The edits of people in a workspace.                                     *)
(***************************************************************************)
LEMMA FiniteImage == ASSUME NEW S, IsFiniteSet(S), NEW f, NEW T, f \in [S -> T] PROVE IsFiniteSet({f[x] : x \in S})
<1>1. f \in Surjection(S, {f[x] : x \in S})
  BY DEF Surjection
<1> QED
  BY <1>1, FS_Surjection

\* A finite set of numbers has a greatest one.
LEMMA Greatest ==
    ASSUME NEW S, S \subseteq Nat, S # {}, IsFiniteSet(S) PROVE Max(S) \in S /\ \A y \in S : Max(S) >= y
<1> DEFINE Topped(U) == \E x \in U : \A y \in U : x >= y
           Bare == {U \in FiniteSubsetsOf(Nat) : U # {} /\ ~Topped(U)}
<1>1. ASSUME Bare # {} PROVE FALSE
  <2>1. PICK U \in Bare : \A V \in Bare : <<V, U>> \notin StrictSubsetOrdering(Nat)
    <3>1. Bare \subseteq FiniteSubsetsOf(Nat)
      OBVIOUS
    <3> HIDE DEF Bare
    <3> QED
      BY <1>1, <3>1, FS_StrictSubsetOrderingWellFounded, WFMin
  <2>2. U \in SUBSET Nat /\ IsFiniteSet(U) /\ U # {} /\ ~Topped(U)
    BY DEF FiniteSubsetsOf
  <2>3. PICK u \in U : TRUE
    BY <2>2
  <2>4. U \ {u} \in SUBSET Nat /\ IsFiniteSet(U \ {u}) /\ <<U \ {u}, U>> \in StrictSubsetOrdering(Nat)
    BY <2>2, <2>3, FS_RemoveElement DEF StrictSubsetOrdering
  <2>5. CASE U \ {u} = {}
    <3>1. U = {u} /\ u \in Nat
      BY <2>2, <2>3, <2>5
    <3> QED
      BY <2>2, <3>1
  <2>6. CASE U \ {u} # {}
    <3>1. Topped(U \ {u})
      <4>1. U \ {u} \notin Bare
        BY <2>1, <2>4
      <4> QED
        BY <2>4, <2>6, <4>1 DEF FiniteSubsetsOf
    <3>2. PICK x \in U \ {u} : \A y \in U \ {u} : x >= y
      BY <3>1
    <3>3. x \in Nat /\ u \in Nat /\ \A y \in U : y \in Nat
      BY <2>2, <2>3, <3>2
    <3>4. CASE x >= u
      BY <2>2, <3>2, <3>4
    <3>5. CASE u > x
      <4>1. \A y \in U : u >= y
        BY <3>2, <3>3, <3>5
      <4> QED
        BY <2>2, <2>3, <4>1
    <3> QED
      BY <3>3, <3>4, <3>5
  <2> QED
    BY <2>5, <2>6
<1>2. Topped(S)
  BY <1>1 DEF FiniteSubsetsOf
<1> QED
  BY <1>2 DEF Max

LEMMA ListedTyped == ASSUME NEW S, NEW T, T \subseteq S, IsFiniteSet(T) PROVE SetToSeq(T) \in Seq(S)
<1>1. Cardinality(T) \in Nat /\ ExistsBijection(1 .. Cardinality(T), T)
  BY FS_CardinalityType
<1>2. PICK f \in [1 .. Cardinality(T) -> T] : IsInjective(f)
  BY <1>1 DEF ExistsBijection, Bijection, Injection, IsInjective
<1>3. SetToSeq(T) \in [1 .. Cardinality(T) -> T]
  BY <1>2 DEF SetToSeq
<1> QED
  BY <1>1, <1>3

\* The writes that may follow from a reading: all but a new resource are for one
\* that it shows.
WriteOf(r) ==
    [type : {"update_resource"} \cup (IF r.kind = "tag" THEN {"pause_tag"} ELSE {}),
     slug : {s \in ToSet(SlugOrder) \cup {r.slug} : KindOf[s] = r.kind}, id : {r.id}, print : {r.print}]
Grounded(resources) == [type : {"create_resource"}, slug : ToSet(SlugOrder)] \cup UNION {WriteOf(r) : r \in resources}

LEMMA ManifestTyped == Manifest \in Seq(ToSet(SlugOrder))
<1>1. PICK n \in Nat : SlugOrder \in [1 .. n -> ToSet(SlugOrder)]
  BY SyncAssumption
<1>2. ASSUME NEW kind PROVE OfKind(kind) \in Seq(ToSet(SlugOrder))
  <2> DEFINE one(s) == IF KindOf[s] = kind THEN <<s>> ELSE <<>>
             ones == [i \in DOMAIN SlugOrder |-> one(SlugOrder[i])]
  <2>1. ASSUME NEW s \in ToSet(SlugOrder) PROVE one(s) \in Seq(ToSet(SlugOrder))
    OBVIOUS
  <2>2. ones \in [1 .. n -> Seq(ToSet(SlugOrder))]
    <3> HIDE DEF one
    <3> QED
      BY <1>1, <2>1
  <2>3. FlattenSeq(ones) \in Seq(ToSet(SlugOrder))
    <3> HIDE DEF ones
    <3> QED
      BY <2>2, FlattenTyped
  <2> QED
    BY <2>3 DEF OfKind
<1> DEFINE kinds == [i \in DOMAIN KindOrder |-> OfKind(KindOrder[i])]
<1>3. kinds \in [1 .. 5 -> Seq(ToSet(SlugOrder))]
  BY <1>2 DEF KindOrder
<1>4. FlattenSeq(kinds) \in Seq(ToSet(SlugOrder))
  <2> HIDE DEF kinds
  <2> QED
    BY <1>3, FlattenTyped
<1> QED
  BY <1>4 DEF Manifest

\* A normalized resource is one that was read.
LEMMA ReadOnce ==
    ASSUME NEW resources, NEW o \in Normalized(resources)
    PROVE  \E r \in resources :
                /\ o.kind = r.kind /\ o.id = r.id /\ o.print = r.print /\ o.managed = ManagedResource(r)
                /\ o.slug = IF r.slug = Other THEN r.id ELSE r.slug
  BY DEF Normalized

LEMMA ChangesGrounded ==
    ASSUME NEW resources, NEW s \in ToSet(SlugOrder)
    PROVE  ChangesFor(s, Normalized(resources)) \in Seq(Grounded(resources))
<1> DEFINE M == Matches(s, Normalized(resources))
           o == CHOOSE o \in M : TRUE
<1>1. CASE M = {}
  <2>1. [type |-> "create_resource", slug |-> s] \in Grounded(resources)
    BY DEF Grounded
  <2> QED
    BY <1>1, <2>1 DEF ChangesFor
<1>2. CASE M # {}
  <2>1. o \in Normalized(resources) /\ o.kind = KindOf[s]
    BY <1>2 DEF Matches
  <2> DEFINE op == [type |-> "update_resource", slug |-> s, id |-> o.id, print |-> o.print]
  <2>2. ChangesFor(s, Normalized(resources)) \in {<<>>, <<op>>}
    BY <1>2 DEF ChangesFor
  <2> HIDE DEF o
  <2>3. PICK r \in resources : o.kind = r.kind /\ o.id = r.id /\ o.print = r.print
    BY <2>1, ReadOnce
  <2>4. op \in WriteOf(r)
    BY <2>1, <2>3 DEF WriteOf
  <2>5. op \in Grounded(resources)
    BY <2>4 DEF Grounded
  <2> HIDE DEF op
  <2>6. <<op>> \in Seq(Grounded(resources)) /\ <<>> \in Seq(Grounded(resources))
    BY <2>5
  <2> QED
    BY <2>2, <2>6
<1> QED
  BY <1>1, <1>2

LEMMA PausesGrounded ==
    ASSUME NEW resources, IsFiniteSet(resources), \A r \in resources : IsResource(r)
    PROVE  Pauses(Normalized(resources)) \in Seq(Grounded(resources))
<1> DEFINE surplus(o) == o.slug \notin ToSet(SlugOrder) /\ o.managed /\ o.kind = "tag" /\ ~o.payload.paused
           T == {[type |-> "pause_tag", slug |-> o.slug, id |-> o.id, print |-> o.print] :
                    o \in {o \in Normalized(resources) : surplus(o)}}
           named(r) == IF r.slug = Other THEN r.id ELSE r.slug
           paused == [r \in resources |-> [type |-> "pause_tag", slug |-> named(r), id |-> r.id, print |-> r.print]]
           Paused == {paused[r] : r \in resources}
<1>1. IsFiniteSet(Paused)
  <2>1. paused \in [resources -> Paused]
    OBVIOUS
  <2> HIDE DEF paused
  <2> QED
    BY <2>1, FiniteImage
<1>2. ASSUME NEW op \in T PROVE op \in Paused /\ op \in Grounded(resources)
  <2>1. PICK o \in Normalized(resources) :
            op = [type |-> "pause_tag", slug |-> o.slug, id |-> o.id, print |-> o.print] /\ o.managed /\ o.kind = "tag"
    OBVIOUS
  <2>2. PICK r \in resources :
            /\ o.kind = r.kind /\ o.id = r.id /\ o.print = r.print /\ o.managed = ManagedResource(r)
            /\ o.slug = IF r.slug = Other THEN r.id ELSE r.slug
    BY ReadOnce
  <2>3. op = paused[r]
    BY <2>1, <2>2
  <2>4. o.slug = r.slug /\ r.kind = "tag" /\ KindOf[r.slug] = r.kind
    BY <2>1, <2>2 DEF ManagedResource, IsResource
  <2>5. op \in WriteOf(r)
    BY <2>1, <2>2, <2>4 DEF WriteOf
  <2> QED
    BY <2>3, <2>5 DEF Grounded
<1>3. IsFiniteSet(T) /\ T \subseteq Grounded(resources)
  <2> HIDE DEF T, Paused
  <2>1. T \in SUBSET Paused
    BY <1>2
  <2> QED
    BY <1>1, <1>2, <2>1, FS_Subset
<1>4. SetToSeq(T) \in Seq(Grounded(resources))
  <2> HIDE DEF T
  <2> QED
    BY <1>3, ListedTyped
<1> QED
  BY <1>4 DEF Pauses

LEMMA OperationsGrounded ==
    ASSUME NEW resources, IsFiniteSet(resources), \A r \in resources : IsResource(r)
    PROVE  SyncOperations(Normalized(resources)) \in Seq(Grounded(resources))
<1> DEFINE changes == [i \in DOMAIN Manifest |-> ChangesFor(Manifest[i], Normalized(resources))]
<1>1. PICK n \in Nat : Manifest \in [1 .. n -> ToSet(SlugOrder)]
  BY ManifestTyped
<1>2. changes \in [1 .. n -> Seq(Grounded(resources))]
  BY <1>1, ChangesGrounded
<1>3. FlattenSeq(changes) \in Seq(Grounded(resources))
  <2> HIDE DEF changes
  <2> QED
    BY <1>2, FlattenTyped
<1>4. FlattenSeq(changes) \o Pauses(Normalized(resources)) \in Seq(Grounded(resources))
  <2> HIDE DEF changes
  <2> QED
    BY <1>3, PausesGrounded
<1> QED
  BY <1>4 DEF SyncOperations

SameId(r, q) == r.kind = q.kind /\ r.id = q.id

\* The prints of a resource tell its versions: what was read is there unchanged,
\* or there with a later print, or gone.
Aged(read) ==
    \A r \in read : \A q \in workspace : SameId(r, q) => r.print <= q.print /\ (r.print = q.print => r = q)

ReadOf(resources) == IsFiniteSet(resources) /\ Distinct(resources) /\ \A r \in resources : IsResource(r)

SyncInv ==
    /\ ReadOf(workspace) /\ ReadOf(listed) /\ ReadOf(shown)
    /\ Aged(listed) /\ Aged(shown)
    /\ listing \in Nat \ {0} /\ \A r \in listed : \E k \in 1 .. 5 : k < listing /\ r.kind = KindOrder[k]
    /\ writes \in Seq(Grounded(shown))
    /\ syncStage # "writing" => writes = <<>>

Fields(r, slug, exact, content, paused, print) ==
    [id |-> r.id, kind |-> r.kind, slug |-> slug, exact |-> exact, content |-> content,
     folder |-> r.folder, fires |-> r.fires, paused |-> paused, print |-> print]

\* The next version of a resource.
Follows(new, old) == IsResource(new) /\ SameId(new, old) /\ new.print = old.print + 1

\* A resource that is rewritten, or taken away, leaves the reading as true as it was.
LEMMA Rewritten ==
    ASSUME ReadOf(workspace), NEW read, Aged(read), \A r \in read : IsResource(r), NEW old \in workspace, NEW new,
           Follows(new, old), workspace' = (workspace \ {old}) \cup {new}
    PROVE  ReadOf(workspace)' /\ (\A r \in read : \A q \in workspace' :
                SameId(r, q) => r.print <= q.print /\ (r.print = q.print => r = q))
<1>1. IsFiniteSet(workspace')
  <2>1. IsFiniteSet(workspace \ {old})
    BY FS_RemoveElement DEF ReadOf
  <2> QED
    BY <2>1, FS_AddElement
<1>2. Distinct(workspace') /\ \A r \in workspace' : IsResource(r)
  BY DEF ReadOf, Distinct, Follows, SameId
<1>3. ASSUME NEW r \in read, NEW q \in workspace', SameId(r, q) PROVE r.print <= q.print /\ (r.print = q.print => r = q)
  <2>1. CASE q = new
    <3>1. SameId(r, old) /\ r.print \in Nat /\ old.print \in Nat
      BY <1>3, <2>1 DEF Follows, SameId, ReadOf, IsResource
    <3>2. r.print <= old.print
      BY <3>1 DEF Aged
    <3> QED
      BY <2>1, <3>1, <3>2 DEF Follows
  <2>2. CASE q # new
    BY <1>3, <2>2 DEF Aged
  <2> QED
    BY <2>1, <2>2
<1> QED
  BY <1>1, <1>2, <1>3 DEF ReadOf

\* So does a resource with an id that nothing had.
LEMMA Added ==
    ASSUME ReadOf(workspace), NEW read, Aged(read), NEW new, IsResource(new), \A r \in workspace \cup read : r.id # new.id,
           workspace' = workspace \cup {new}
    PROVE  ReadOf(workspace)' /\ (\A r \in read : \A q \in workspace' :
                SameId(r, q) => r.print <= q.print /\ (r.print = q.print => r = q))
  BY FS_AddElement DEF ReadOf, Distinct, Aged, SameId

LEMMA Removed ==
    ASSUME ReadOf(workspace), NEW read, Aged(read), workspace' \subseteq workspace
    PROVE  ReadOf(workspace)' /\ (\A r \in read : \A q \in workspace' :
                SameId(r, q) => r.print <= q.print /\ (r.print = q.print => r = q))
  BY FS_Subset DEF ReadOf, Distinct, Aged

LEMMA Fresh == ASSUME SyncInv PROVE FreshId \in Nat /\ \A r \in workspace \cup listed \cup shown : r.id # FreshId
<1> DEFINE Known == workspace \cup listed \cup shown
           idOf == [r \in Known |-> r.id]
           Ids == {r.id : r \in Known}
<1>1. IsFiniteSet(Known) /\ \A r \in Known : r.id \in Nat
  BY FS_Union DEF SyncInv, ReadOf, IsResource
<1>2. IsFiniteSet(Ids)
  <2>1. idOf \in [Known -> Nat] /\ Ids = {idOf[r] : r \in Known}
    BY <1>1
  <2> HIDE DEF idOf, Ids, Known
  <2> QED
    BY <1>1, <2>1, FiniteImage
<1>3. Ids \cup {0} \subseteq Nat /\ IsFiniteSet(Ids \cup {0})
  <2>1. IsFiniteSet(Ids \cup {0})
    BY <1>2, FS_AddElement
  <2> QED
    BY <1>1, <2>1
<1>4. Max(Ids \cup {0}) \in Ids \cup {0} /\ \A y \in Ids \cup {0} : Max(Ids \cup {0}) >= y
  <2> HIDE DEF Ids
  <2> QED
    BY <1>3, Greatest
<1>5. FreshId = Max(Ids \cup {0}) + 1
  BY DEF FreshId
<1>6. ASSUME NEW r \in Known PROVE r.id # FreshId
  <2>1. r.id \in Ids /\ r.id \in Nat
    BY <1>1
  <2>2. PICK m \in Nat : m = Max(Ids \cup {0})
    <3> HIDE DEF Ids
    <3> QED
      BY <1>3, <1>4
  <2>3. m >= r.id
    <3> HIDE DEF Ids
    <3> QED
      BY <1>4, <2>1, <2>2
  <2>4. FreshId = m + 1
    BY <1>5, <2>2
  <2> QED
    BY <2>1, <2>3, <2>4
<1>7. Max(Ids \cup {0}) \in Nat
  <2> HIDE DEF Ids
  <2> QED
    BY <1>3, <1>4
<1> QED
  BY <1>5, <1>6, <1>7

LEMMA NextVersions ==
    ASSUME NEW r, IsResource(r)
    PROVE  /\ Follows([r EXCEPT !.content = "edited", !.print = @ + 1], r)
           /\ Follows([r EXCEPT !.slug = Other, !.exact = FALSE, !.print = @ + 1], r)
           /\ Follows([r EXCEPT !.paused = ~@, !.print = @ + 1], r)
           /\ Follows([r EXCEPT !.paused = TRUE, !.print = @ + 1], r)
<1>1. r.print \in Nat /\ r.print + 1 \in Nat /\ r = Fields(r, r.slug, r.exact, r.content, r.paused, r.print)
  BY DEF IsResource, Fields
<1>2. \A s, e, c, p : (s # Other => KindOf[s] = r.kind) => Follows(Fields(r, s, e, c, p, r.print + 1), r)
  BY <1>1 DEF Follows, IsResource, SameId, Fields
<1>3. [r EXCEPT !.content = "edited", !.print = @ + 1] = Fields(r, r.slug, r.exact, "edited", r.paused, r.print + 1)
  <2>1. [r EXCEPT !.content = "edited"] = Fields(r, r.slug, r.exact, "edited", r.paused, r.print)
    BY <1>1 DEF Fields
  <2>2. [Fields(r, r.slug, r.exact, "edited", r.paused, r.print) EXCEPT !.print = r.print + 1] = Fields(r, r.slug, r.exact, "edited", r.paused, r.print + 1)
    BY DEF Fields
  <2> QED
    BY <2>1, <2>2
<1>4. [r EXCEPT !.slug = Other, !.exact = FALSE, !.print = @ + 1] = Fields(r, Other, FALSE, r.content, r.paused, r.print + 1)
  <2>1. [r EXCEPT !.slug = Other] = Fields(r, Other, r.exact, r.content, r.paused, r.print)
    BY <1>1 DEF Fields
  <2>2. ASSUME NEW w PROVE [Fields(r, Other, r.exact, r.content, r.paused, r.print) EXCEPT !.exact = w]
                            = Fields(r, Other, w, r.content, r.paused, r.print)
    BY DEF Fields
  <2>3. ASSUME NEW w PROVE [Fields(r, Other, w, r.content, r.paused, r.print) EXCEPT !.print = r.print + 1]
                            = Fields(r, Other, w, r.content, r.paused, r.print + 1)
    BY DEF Fields
  <2>4. [Fields(r, Other, r.exact, r.content, r.paused, r.print) EXCEPT !.exact = FALSE]
            = Fields(r, Other, FALSE, r.content, r.paused, r.print)
    BY <2>2, Zenon
  <2>5. [Fields(r, Other, FALSE, r.content, r.paused, r.print) EXCEPT !.print = r.print + 1]
            = Fields(r, Other, FALSE, r.content, r.paused, r.print + 1)
    BY <2>3, Zenon
  <2> QED
    BY <2>1, <2>4, <2>5
<1>5. ASSUME NEW v PROVE [r EXCEPT !.paused = v, !.print = @ + 1] = Fields(r, r.slug, r.exact, r.content, v, r.print + 1)
  <2>1. [r EXCEPT !.paused = v] = Fields(r, r.slug, r.exact, r.content, v, r.print)
    BY <1>1 DEF Fields
  <2>2. [Fields(r, r.slug, r.exact, r.content, v, r.print) EXCEPT !.print = r.print + 1] = Fields(r, r.slug, r.exact, r.content, v, r.print + 1)
    BY DEF Fields
  <2> QED
    BY <2>1, <2>2
<1>6. Follows([r EXCEPT !.content = "edited", !.print = @ + 1], r)
  BY <1>2, <1>3 DEF IsResource
<1>7. Follows([r EXCEPT !.slug = Other, !.exact = FALSE, !.print = @ + 1], r)
  BY <1>2, <1>4
<1>8. ASSUME NEW v PROVE Follows([r EXCEPT !.paused = v, !.print = @ + 1], r)
  <2>1. Follows(Fields(r, r.slug, r.exact, r.content, v, r.print + 1), r)
    BY <1>2 DEF IsResource
  <2>2. [r EXCEPT !.paused = v, !.print = @ + 1] = Fields(r, r.slug, r.exact, r.content, v, r.print + 1)
    BY <1>5, Zenon
  <2> QED
    BY <2>1, <2>2, Zenon
<1> QED
  BY <1>6, <1>7, <1>8, Zenon

\* A write puts a new resource, or the next version of one that the review showed.
LEMMA EffectSound ==
    ASSUME SyncInv, NEW op \in Grounded(shown), NEW effect \in Effect(op)
    PROVE  \/ effect.old = {} /\ IsResource(effect.new) /\ effect.new.id = FreshId
           \/ \E t \in workspace \cap shown : effect.old = {t} /\ Follows(effect.new, t)
<1>1. ReadOf(workspace) /\ ReadOf(shown) /\ Aged(shown) /\ FreshId \in Nat
  BY Fresh DEF SyncInv
<1>2. ASSUME NEW s, NEW id \in Nat, NEW n \in Nat
      PROVE  IsResource(Lowered(s, id, n)) /\ Lowered(s, id, n).id = id /\ Lowered(s, id, n).print = n
             /\ Lowered(s, id, n).kind = KindOf[s]
  BY DEF IsResource, Lowered
<1>3. CASE op \in [type : {"create_resource"}, slug : ToSet(SlugOrder)]
  <2>1. effect = [old |-> {}, new |-> Lowered(op.slug, FreshId, 1)]
    BY <1>3 DEF Effect
  <2>2. IsResource(Lowered(op.slug, FreshId, 1)) /\ Lowered(op.slug, FreshId, 1).id = FreshId
    <3>1. PICK id \in Nat : id = FreshId
      BY <1>1
    <3>2. PICK s : s = op.slug
      OBVIOUS
    <3>3. IsResource(Lowered(s, id, 1)) /\ Lowered(s, id, 1).id = id
      BY <1>2
    <3> QED
      BY <3>1, <3>2, <3>3
  <2> QED
    BY <2>1, <2>2
<1>4. ASSUME NEW r0 \in shown, op \in WriteOf(r0)
      PROVE  \E t \in workspace \cap shown : effect.old = {t} /\ Follows(effect.new, t)
  <2>1. KindOf[op.slug] = r0.kind /\ op.id = r0.id /\ op.print = r0.print
        /\ (op.type = "update_resource" \/ (op.type = "pause_tag" /\ r0.kind = "tag"))
    BY <1>4 DEF WriteOf
  <2>2. ASSUME NEW t \in Target(op) PROVE t = r0 /\ t \in workspace \cap shown
    BY <1>1, <2>1, <2>2 DEF Target, AnyTarget, Aged, SameId
  <2>3. CASE op.type = "update_resource"
    <3>1. PICK r \in Target(op) : effect = [old |-> {r}, new |-> Lowered(op.slug, r.id, r.print + 1)]
      BY <2>3 DEF Effect
    <3>2. r = r0 /\ r \in workspace \cap shown
      BY <2>2
    <3>3. r.id \in Nat /\ r.print \in Nat
      BY <1>1, <3>2 DEF ReadOf, IsResource
    <3>4. Follows(Lowered(op.slug, r.id, r.print + 1), r)
      BY <1>2, <2>1, <3>2, <3>3 DEF Follows, SameId
    <3> QED
      BY <3>1, <3>2, <3>4
  <2>4. CASE op.type = "pause_tag"
    <3>1. PICK r \in shown :
            /\ effect = [old |-> Target(op), new |-> [r EXCEPT !.paused = TRUE, !.print = @ + 1]]
            /\ Target(op) # {} /\ r.kind = "tag" /\ r.id = op.id
      BY <2>4 DEF Effect
    <3>2. r = r0
      BY <1>1, <2>1, <2>4, <3>1 DEF ReadOf, Distinct
    <3>3. Target(op) = {r} /\ r \in workspace \cap shown
      BY <2>2, <3>1, <3>2
    <3>4. Follows([r EXCEPT !.paused = TRUE, !.print = @ + 1], r)
      BY <1>1, <3>2, NextVersions DEF ReadOf
    <3> QED
      BY <3>1, <3>3, <3>4
  <2> QED
    BY <2>1, <2>3, <2>4
<1> QED
  BY <1>3, <1>4 DEF Grounded

\* The effect of a write keeps the readings true and takes away nothing but what they show.
LEMMA ChangedKeeps ==
    ASSUME SyncInv, NEW op \in Grounded(shown), NEW effect \in Effect(op), Changed(effect)
    PROVE  /\ ReadOf(workspace)' /\ workspace \ workspace' \subseteq shown
           /\ \A r \in listed \cup shown : \A q \in workspace' : SameId(r, q) => r.print <= q.print /\ (r.print = q.print => r = q)
<1>1. ReadOf(workspace) /\ Aged(listed \cup shown) /\ \A r \in listed \cup shown : IsResource(r)
  BY DEF SyncInv, ReadOf, Aged
<1>2. CASE effect.old = {} /\ IsResource(effect.new) /\ effect.new.id = FreshId
  <2>1. workspace' = workspace \cup {effect.new}
    BY <1>2 DEF Changed
  <2>2. \A r \in workspace \cup (listed \cup shown) : r.id # effect.new.id
    BY <1>2, Fresh
  <2> QED
    BY <1>1, <1>2, <2>1, <2>2, Added
<1>3. ASSUME NEW t \in workspace \cap shown, effect.old = {t}, Follows(effect.new, t)
      PROVE  /\ ReadOf(workspace)' /\ workspace \ workspace' \subseteq shown
             /\ \A r \in listed \cup shown : \A q \in workspace' : SameId(r, q) => r.print <= q.print /\ (r.print = q.print => r = q)
  <2>1. workspace' = (workspace \ {t}) \cup {effect.new}
    BY <1>3 DEF Changed
  <2> QED
    BY <1>1, <1>3, <2>1, Rewritten
<1> QED
  BY <1>2, <1>3, EffectSound

LEMMA SyncInitInv == SyncInit => SyncInv
<1> SUFFICES ASSUME SyncInit PROVE SyncInv
  OBVIOUS
<1>1. ReadOf(workspace)
  BY SyncAssumption DEF SyncInit, ReadOf
<1>2. ReadOf({})
  BY FS_EmptySet DEF ReadOf, Distinct
<1> QED
  BY <1>1, <1>2 DEF SyncInit, SyncInv, Aged

LEMMA EndInv == ASSUME EndSync, ReadOf(workspace)' PROVE SyncInv'
<1>1. ReadOf({})
  BY FS_EmptySet DEF ReadOf, Distinct
<1>2. listed' = {} /\ shown' = {} /\ writes' = <<>> /\ listing' = 1
  BY DEF EndSync, Read
<1>3. ReadOf(listed)' /\ ReadOf(shown)'
  BY <1>1, <1>2 DEF ReadOf, Distinct
<1> QED
  BY <1>2, <1>3 DEF SyncInv, Aged

\* Another reading begins: what is kept of the one before stays as it was.
LEMMA ReadInv ==
    ASSUME SyncInv, NEW s, Read(s), UNCHANGED workspace, ReadOf(shown'), Aged(shown'), writes' \in Seq(Grounded(shown')),
           s # "writing" => writes' = <<>>
    PROVE  SyncInv'
<1>1. ReadOf({})
  BY FS_EmptySet DEF ReadOf, Distinct
<1>2. listed' = {} /\ listing' = 1 /\ syncStage' = s
  BY DEF Read
<1>3. ReadOf(workspace)' /\ ReadOf(listed)' /\ ReadOf(shown)' /\ Aged(listed)' /\ Aged(shown)'
  BY <1>1, <1>2 DEF SyncInv, ReadOf, Distinct, Aged
<1> QED
  BY <1>2, <1>3 DEF SyncInv, Grounded, WriteOf

LEMMA ListInv == ASSUME SyncInv, ListResources PROVE SyncInv'
<1> DEFINE part == {r \in workspace : r.kind = KindOrder[listing]}
<1>1. listed' = listed \cup part /\ listing' = listing + 1 /\ listing \in 1 .. 5
      /\ UNCHANGED <<workspace, syncStage, shown, writes>>
  BY DEF ListResources, KindOrder
<1>2. IsFiniteSet(listed')
  <2>1. IsFiniteSet(part)
    BY FS_Subset DEF SyncInv, ReadOf
  <2> QED
    BY <1>1, <2>1, FS_Union DEF SyncInv, ReadOf
<1>3. \A r \in listed : r.kind # KindOrder[listing]
  <2>1. \A i, j \in 1 .. 5 : i < j => KindOrder[i] # KindOrder[j]
    BY DEF KindOrder
  <2> QED
    BY <1>1, <2>1 DEF SyncInv
<1>4. Distinct(listed') /\ \A r \in listed' : IsResource(r)
  BY <1>1, <1>3 DEF SyncInv, ReadOf, Distinct
<1>5. Aged(listed')
  <2>1. \A r \in workspace : r.print \in Nat
    BY DEF SyncInv, ReadOf, IsResource
  <2> QED
    BY <1>1, <2>1 DEF SyncInv, ReadOf, Distinct, Aged, SameId
<1>6. listing' \in Nat \ {0} /\ \A r \in listed' : \E k \in 1 .. 5 : k < listing' /\ r.kind = KindOrder[k]
  <2>1. \A r \in listed : \E k \in 1 .. 5 : k < listing' /\ r.kind = KindOrder[k]
    BY <1>1 DEF SyncInv
  <2>2. \A r \in part : \E k \in 1 .. 5 : k < listing' /\ r.kind = KindOrder[k]
    BY <1>1
  <2> QED
    BY <1>1, <2>1, <2>2
<1>7. ReadOf(workspace)' /\ ReadOf(listed)' /\ ReadOf(shown)' /\ Aged(listed)' /\ Aged(shown)'
  BY <1>1, <1>2, <1>4, <1>5 DEF SyncInv, ReadOf, Distinct, Aged
<1> QED
  BY <1>1, <1>6, <1>7 DEF SyncInv, Grounded, WriteOf

LEMMA ReviewInv == ASSUME SyncInv, ReviewWorkspace \/ CheckReview PROVE SyncInv'
<1>1. UNCHANGED workspace /\ ReadOf(workspace)' /\ writes = <<>>
  BY DEF SyncInv, ReviewWorkspace, CheckReview, ReadCompletely, ReadOf, Distinct
<1>2. CASE EndSync
  BY <1>1, <1>2, EndInv
<1>3. CASE Read("checking") /\ shown' = listed /\ UNCHANGED writes
  <2>1. ReadOf(shown') /\ Aged(shown') /\ writes' \in Seq(Grounded(shown'))
    BY <1>1, <1>3 DEF SyncInv
  <2> QED
    BY <1>1, <1>3, <2>1, ReadInv
<1>4. CASE Read("inspecting") /\ UNCHANGED <<shown, writes>>
  <2>1. ReadOf(shown') /\ Aged(shown') /\ writes' \in Seq(Grounded(shown'))
    BY <1>1, <1>4 DEF SyncInv
  <2> QED
    BY <1>1, <1>4, <2>1, ReadInv
<1> QED
  BY <1>2, <1>3, <1>4 DEF ReviewWorkspace, CheckReview

LEMMA InspectInv == ASSUME SyncInv, InspectWorkspace PROVE SyncInv'
<1>1. UNCHANGED workspace /\ ReadOf(workspace)'
  BY DEF SyncInv, InspectWorkspace, ReadOf, Distinct
<1>2. CASE EndSync
  BY <1>1, <1>2, EndInv
<1>3. CASE SameReview /\ Read("writing") /\ writes' = SyncOperations(Normalized(listed)) /\ UNCHANGED shown
  <2>1. writes' = SyncOperations(Normalized(shown))
    BY <1>3 DEF SameReview
  <2>2. SyncOperations(Normalized(shown)) \in Seq(Grounded(shown))
    BY OperationsGrounded DEF SyncInv, ReadOf
  <2>3. ReadOf(shown') /\ Aged(shown') /\ writes' \in Seq(Grounded(shown'))
    BY <1>3, <2>1, <2>2 DEF SyncInv
  <2> QED
    BY <1>1, <1>3, <2>3, ReadInv
<1> QED
  BY <1>2, <1>3 DEF InspectWorkspace

\* A write leaves the readings behind it true.
LEMMA WriteInv ==
    ASSUME SyncInv, syncStage = "writing", writes # <<>>, NEW effect \in Effect(Head(writes)), Changed(effect)
    PROVE  /\ ReadOf(workspace)' /\ workspace \ workspace' \subseteq shown
           /\ UNCHANGED <<syncStage, listing, listed, shown>> /\ writes' = Tail(writes) => SyncInv'
<1>1. Head(writes) \in Grounded(shown) /\ Tail(writes) \in Seq(Grounded(shown))
  BY DEF SyncInv
<1>2. /\ ReadOf(workspace)' /\ workspace \ workspace' \subseteq shown
      /\ \A r \in listed \cup shown : \A q \in workspace' : SameId(r, q) => r.print <= q.print /\ (r.print = q.print => r = q)
  BY <1>1, ChangedKeeps
<1>3. ASSUME UNCHANGED <<syncStage, listing, listed, shown>> /\ writes' = Tail(writes) PROVE SyncInv'
  <2>1. ReadOf(listed)' /\ ReadOf(shown)' /\ Aged(listed)' /\ Aged(shown)'
    BY <1>2, <1>3 DEF SyncInv, ReadOf, Distinct, Aged
  <2> QED
    BY <1>1, <1>2, <1>3, <2>1 DEF SyncInv, Grounded, WriteOf
<1> QED
  BY <1>2, <1>3

\* Somebody rewrites a resource, or deletes some.
LEMMA EditInv ==
    ASSUME SyncInv, UNCHANGED <<syncStage, listing, listed, shown, writes>>,
           \/ workspace' \subseteq workspace
           \/ \E old \in workspace : \E new : Follows(new, old) /\ workspace' = (workspace \ {old}) \cup {new}
    PROVE  SyncInv'
<1>1. ReadOf(workspace) /\ Aged(listed \cup shown) /\ \A r \in listed \cup shown : IsResource(r)
  BY DEF SyncInv, ReadOf, Aged
<1>2. /\ ReadOf(workspace)'
      /\ \A r \in listed \cup shown : \A q \in workspace' : SameId(r, q) => r.print <= q.print /\ (r.print = q.print => r = q)
  <2>1. CASE workspace' \subseteq workspace
    BY <1>1, <2>1, Removed
  <2>2. ASSUME NEW old \in workspace, NEW new, Follows(new, old), workspace' = (workspace \ {old}) \cup {new}
        PROVE  /\ ReadOf(workspace)'
               /\ \A r \in listed \cup shown : \A q \in workspace' : SameId(r, q) => r.print <= q.print /\ (r.print = q.print => r = q)
    BY <1>1, <2>2, Rewritten
  <2> QED
    BY <2>1, <2>2
<1>3. ReadOf(listed)' /\ ReadOf(shown)' /\ Aged(listed)' /\ Aged(shown)'
  BY <1>2 DEF SyncInv, ReadOf, Distinct, Aged
<1> QED
  BY <1>2, <1>3 DEF SyncInv, Grounded, WriteOf

\* People rewrite one resource, or delete one.
LEMMA PeopleInv == ASSUME SyncInv, Edit \/ Investigate PROVE SyncInv'
<1>1. UNCHANGED <<syncStage, listing, listed, shown, writes>>
  BY DEF Edit, Investigate, EditBy
<1>2. \/ workspace' \subseteq workspace
      \/ \E old \in workspace : \E new : Follows(new, old) /\ workspace' = (workspace \ {old}) \cup {new}
  <2>1. CASE Investigate
    BY <2>1 DEF Investigate, EditBy
  <2>2. CASE Edit
    <3>1. PICK r \in workspace :
            \/ workspace' \subseteq workspace
            \/ workspace' = (workspace \ {r}) \cup {[r EXCEPT !.content = "edited", !.print = @ + 1]}
            \/ workspace' = (workspace \ {r}) \cup {[r EXCEPT !.slug = Other, !.exact = FALSE, !.print = @ + 1]}
            \/ workspace' = (workspace \ {r}) \cup {[r EXCEPT !.paused = ~@, !.print = @ + 1]}
      BY <2>2, Zenon DEF Edit, EditBy
    <3>2. IsResource(r)
      BY DEF SyncInv, ReadOf
    <3> QED
      BY <3>1, <3>2, NextVersions, Zenon
  <2> QED
    BY <2>1, <2>2
<1> QED
  BY <1>1, <1>2, EditInv

\* A step keeps the invariant, and a write takes away only what the review showed.
LEMMA SyncStepInv ==
    SyncInv /\ [SyncNext]_syncVars
        => SyncInv' /\ (writes' # writes /\ writes # <<>> => workspace \ workspace' \subseteq shown)
<1> SUFFICES ASSUME SyncInv, [SyncNext]_syncVars
             PROVE  SyncInv' /\ (writes' # writes /\ writes # <<>> => workspace \ workspace' \subseteq shown)
  OBVIOUS
<1>1. UNCHANGED workspace => ReadOf(workspace)'
  BY DEF SyncInv, ReadOf, Distinct
<1>2. CASE StartPlanning
  <2>1. ReadOf(shown') /\ Aged(shown') /\ writes' \in Seq(Grounded(shown')) /\ writes' = <<>> /\ Read("planning")
        /\ UNCHANGED <<workspace, writes>>
    BY <1>2 DEF StartPlanning, SyncInv
  <2> QED
    BY <2>1, ReadInv
<1>3. CASE ListResources
  BY <1>3, ListInv DEF ListResources
<1>4. CASE ReviewWorkspace \/ CheckReview
  <2>1. UNCHANGED workspace
    BY <1>4 DEF ReviewWorkspace, CheckReview
  <2> QED
    BY <1>4, <2>1, ReviewInv
<1>5. CASE InspectWorkspace
  <2>1. UNCHANGED workspace
    BY <1>5 DEF InspectWorkspace
  <2> QED
    BY <1>5, <2>1, InspectInv
<1>6. CASE WriteResource
  <2>1. syncStage = "writing" /\ writes # <<>>
    BY <1>6 DEF WriteResource
  <2>2. CASE EndSync /\ UNCHANGED workspace
    BY <1>1, <2>2, EndInv
  <2>3. ASSUME NEW effect \in Effect(Head(writes)), Changed(effect), writes' = Tail(writes),
               UNCHANGED <<syncStage, listing, listed, shown>>
        PROVE  SyncInv' /\ workspace \ workspace' \subseteq shown
    BY <2>1, <2>3, WriteInv
  <2>4. \/ EndSync /\ UNCHANGED workspace
        \/ /\ \E effect \in Effect(Head(writes)) : Changed(effect)
           /\ writes' = Tail(writes) /\ UNCHANGED <<syncStage, listing, listed, shown>>
    BY <1>6 DEF WriteResource
  <2> QED
    BY <2>2, <2>3, <2>4
<1>7. CASE CompleteSync
  BY <1>1, <1>7, EndInv DEF CompleteSync
<1>8. CASE FailSync
  <2>1. EndSync
    BY <1>8 DEF FailSync
  <2>2. CASE UNCHANGED workspace
    BY <1>1, <2>1, <2>2, EndInv
  <2>3. ASSUME syncStage = "writing", writes # <<>>, NEW effect \in Effect(Head(writes)), Changed(effect)
        PROVE  SyncInv' /\ workspace \ workspace' \subseteq shown
    BY <2>1, <2>3, WriteInv, EndInv
  <2>4. \/ UNCHANGED workspace
        \/ syncStage = "writing" /\ writes # <<>> /\ \E effect \in Effect(Head(writes)) : Changed(effect)
    BY <1>8 DEF FailSync
  <2> QED
    BY <2>2, <2>3, <2>4
<1>9. CASE Edit \/ Investigate
  <2>1. UNCHANGED writes
    BY <1>9 DEF Edit, Investigate, EditBy
  <2> QED
    BY <1>9, <2>1, PeopleInv
<1>10. CASE UNCHANGED syncVars
  <2>1. UNCHANGED <<syncStage, listing, listed, shown, writes>> /\ workspace' \subseteq workspace
    BY <1>10 DEF syncVars
  <2> QED
    BY <2>1, EditInv
<1> QED
  BY <1>2, <1>3, <1>4, <1>5, <1>6, <1>7, <1>8, <1>9, <1>10 DEF SyncNext, SyncStep

\* A write of an apply takes away nothing that the review did not show, for any
\* manifest, workspace and edits of people, whenever these come: the fingerprint
\* the write is conditional on is the one the review has read, and a resource
\* that changes has a later one (applyGtmWorkspaceOperation of the adapter).
THEOREM EditsAreKept == SyncSpec => EditsNotOverwritten
<1>1. SyncInv /\ [SyncNext]_syncVars
        => [writes' # writes /\ writes # <<>> => workspace \ workspace' \subseteq shown]_syncVars
  BY SyncStepInv
<1>2. SyncInv /\ [SyncNext]_syncVars => SyncInv'
  BY SyncStepInv
<1> QED
  BY <1>1, <1>2, SyncInitInv, PTL DEF SyncSpec, EditsNotOverwritten

-----------------------------------------------------------------------------
(***************************************************************************)
(* The DNS records of a Cloudflare zone.                                   *)
(***************************************************************************)
ConfiguredNames == {EntryName[e] : e \in ToSet(EntryOrder)}
ConfiguredValues == UNION {ToSet(EntryValues[e]) : e \in ToSet(EntryOrder)}
StartRecords == UNION {ToSet(start.remote.records) : start \in Starts}
ConfiguredRecords == [name : ConfiguredNames, value : ConfiguredValues]
KnownRecords == StartRecords \cup StrangeRecords \cup ConfiguredRecords

\* It was the only record of its name when the plan was made, hence it is the first.
Replaceable(records, op) ==
    /\ \E e \in ToSet(EntryOrder) : op.name = EntryName[e] /\ Len(EntryValues[e]) = 1 /\ op.value = EntryValues[e][1]
    /\ records[op.id].name = op.name
    /\ \A k \in 1 .. op.id - 1 : records[k].name # op.name

Rewrites(records) == [action : {"update"}, name : ConfiguredNames, value : ConfiguredValues, id : DOMAIN records]
RecordOps(records) ==
    [action : {"no-op", "create"}, name : ConfiguredNames, value : ConfiguredValues, id : {0}]
        \cup {op \in Rewrites(records) : Replaceable(records, op)}

QueueOps == [action : {"no-op", "create"}, queue : ToSet(QueueOrder)]

Subjects ==
    ToSet(WorkerOrder) \cup [pattern : Patterns, known : BOOLEAN]
        \cup UNION {Bound(w) \cup ToSet(Consumers[w]) \cup {Crons[w]} : w \in ToSet(WorkerOrder)}
WorkerKinds == {"script", "route", "consumer", "binding", "secret", "cron"}
WorkerOps ==
    [action : {"planned", "no-op", "blocked"}, kind : WorkerKinds, worker : ToSet(WorkerOrder), of : Subjects]

OpsOf(f, records) ==
    IF f = "dns" THEN RecordOps(records) ELSE IF f = "queues" THEN QueueOps ELSE WorkerOps

Shaped(r) ==
    r = [records |-> r.records, queues |-> r.queues, scripts |-> r.scripts, routes |-> r.routes,
         consumers |-> r.consumers, bindings |-> r.bindings, crons |-> r.crons]

FlareInv ==
    /\ managed \subseteq Focuses
    /\ Shaped(remote) /\ remote.records \in Seq(KnownRecords)
    /\ flarePlan = [f \in Focuses |-> flarePlan[f]] /\ flareTodo = [f \in Focuses |-> flareTodo[f]]
    /\ \A f \in Focuses :
        flarePlan[f] \in Seq(OpsOf(f, remote.records)) /\ flareTodo[f] \in Seq(OpsOf(f, remote.records))

LEMMA KnownParts ==
    StartRecords \subseteq KnownRecords /\ StrangeRecords \subseteq KnownRecords /\ ConfiguredRecords \subseteq KnownRecords
  BY DEF KnownRecords

LEMMA Listed == ASSUME NEW s, IsList(s) PROVE s \in [1 .. Len(s) -> ToSet(s)] /\ Len(s) \in Nat
  BY DEF IsList

LEMMA Orders ==
    /\ IsList(EntryOrder) /\ IsList(QueueOrder) /\ IsList(WorkerOrder)
    /\ \A e \in ToSet(EntryOrder) : IsList(EntryValues[e])
    /\ \A w \in ToSet(WorkerOrder) :
        /\ IsList(Routes[w]) /\ IsList(Producers[w]) /\ IsList(Consumers[w])
        /\ IsList(Variables[w]) /\ IsList(Secrets[w])
  BY FlareAssumption

LEMMA Enumerated == ASSUME NEW s, IsList(s) PROVE \E n \in Nat : s \in [1 .. n -> ToSet(s)]
  BY Listed

LEMMA DnsPlanned == ASSUME FlareInv PROVE DnsPlan \in Seq(RecordOps(remote.records))
<1> DEFINE valuesOf(e) == [i \in DOMAIN EntryValues[e] |-> DnsValue(e, EntryValues[e][i])]
           all == [i \in DOMAIN EntryOrder |-> valuesOf(EntryOrder[i])]
<1>1. ASSUME NEW e \in ToSet(EntryOrder), NEW value \in ToSet(EntryValues[e])
      PROVE  DnsValue(e, value) \in RecordOps(remote.records)
  <2>1. EntryName[e] \in ConfiguredNames /\ value \in ConfiguredValues
    BY DEF ConfiguredNames, ConfiguredValues
  <2>2. CASE Observed(e, value) \/ ~Updates(e)
    <3>1. DnsValue(e, value) \in {DnsOperation("no-op", e, value, 0), DnsOperation("create", e, value, 0)}
      BY <2>2 DEF DnsValue
    <3> QED
      BY <2>1, <3>1 DEF DnsOperation, RecordOps
  <2>3. CASE ~Observed(e, value) /\ Updates(e)
    <3>0. remote.records \in Seq(KnownRecords)
      BY DEF FlareInv
    <3>1. PICK n \in Nat : DOMAIN remote.records = 1 .. n
      BY <3>0
    <3>2. IsFiniteSet(Matching(e))
      <4>1. IsFiniteSet(1 .. n) /\ Matching(e) \in SUBSET (1 .. n)
        BY <3>1, FS_Interval DEF Matching
      <4> QED
        BY <4>1, FS_Subset
    <3>3. PICK r : Matching(e) = {r}
      BY <2>3, <3>2, FS_Singleton DEF Updates
    <3>4. r \in 1 .. n /\ remote.records[r].name = EntryName[e]
      BY <3>1, <3>3 DEF Matching
    <3>5. \A k \in 1 .. r - 1 : remote.records[k].name # EntryName[e]
      BY <3>1, <3>3, <3>4 DEF Matching
    <3>6. DnsValue(e, value) = DnsOperation("update", e, value, r)
      BY <2>3, <3>3 DEF DnsValue
    <3>7. Len(EntryValues[e]) = 1 /\ value = EntryValues[e][1]
      <4>1. Len(EntryValues[e]) = 1 /\ EntryValues[e] \in [1 .. Len(EntryValues[e]) -> ToSet(EntryValues[e])]
        BY <1>1, <2>3, Orders, Listed DEF Updates
      <4> QED
        BY <4>1 DEF ToSet
    <3> DEFINE op == DnsOperation("update", e, value, r)
    <3>8. op \in Rewrites(remote.records)
      BY <2>1, <3>1, <3>4 DEF DnsOperation, Rewrites
    <3>9. Replaceable(remote.records, op)
      BY <3>4, <3>5, <3>7 DEF DnsOperation, Replaceable
    <3> QED
      BY <3>6, <3>8, <3>9 DEF RecordOps
  <2> QED
    BY <2>2, <2>3
<1>2. ASSUME NEW e \in ToSet(EntryOrder) PROVE valuesOf(e) \in Seq(RecordOps(remote.records))
  <2>1. PICK n \in Nat : EntryValues[e] \in [1 .. n -> ToSet(EntryValues[e])]
    BY <1>2, Orders, Enumerated
  <2>2. valuesOf(e) \in [1 .. n -> RecordOps(remote.records)]
    BY <1>1, <2>1
  <2> QED
    BY <2>2
<1>3. PICK n \in Nat : EntryOrder \in [1 .. n -> ToSet(EntryOrder)]
  BY Orders, Enumerated
<1>4. all \in [1 .. n -> Seq(RecordOps(remote.records))]
  <2> HIDE DEF valuesOf
  <2> QED
    BY <1>2, <1>3
<1>5. FlattenSeq(all) \in Seq(RecordOps(remote.records))
  <2> HIDE DEF all
  <2> QED
    BY <1>4, FlattenTyped
<1>6. DnsPlan = FlattenSeq(all)
  BY DEF DnsPlan, Each
<1> QED
  BY <1>5, <1>6

LEMMA QueuePlanned == QueuePlan \in Seq(QueueOps)
<1>1. PICK n \in Nat : QueueOrder \in [1 .. n -> ToSet(QueueOrder)]
  BY Orders, Enumerated
<1>2. QueuePlan \in [1 .. n -> QueueOps]
  BY <1>1 DEF QueuePlan, QueueOps
<1> QED
  BY <1>2

LEMMA WorkerTyped ==
    ASSUME NEW w \in ToSet(WorkerOrder), NEW action \in {"planned", "no-op", "blocked"}, NEW kind \in WorkerKinds, NEW of \in Subjects
    PROVE  WorkerOperation(w, action, kind, of) \in WorkerOps
  BY DEF WorkerOperation, WorkerOps

LEMMA CronTyped == ASSUME NEW w \in ToSet(WorkerOrder) PROVE CronOperation(w) \in WorkerOps
<1>1. Crons[w] \in Subjects
  BY DEF Subjects
<1>2. "cron" \in WorkerKinds
  BY DEF WorkerKinds
<1> QED
  BY <1>1, <1>2, WorkerTyped DEF CronOperation

LEMMA CronPlanned == CronPlan \in Seq(WorkerOps)
<1>1. PICK n \in Nat : WorkerOrder \in [1 .. n -> ToSet(WorkerOrder)]
  BY Orders, Enumerated
<1>2. CronPlan \in [1 .. n -> WorkerOps]
  BY <1>1, CronTyped DEF CronPlan
<1> QED
  BY <1>2

LEMMA PlannedTyped ==
    ASSUME NEW w \in ToSet(WorkerOrder), NEW kind \in WorkerKinds, NEW order, IsList(order), ToSet(order) \subseteq Subjects
    PROVE  Planned(w, kind, order) \in Seq(WorkerOps)
<1>1. PICK n \in Nat : order \in [1 .. n -> ToSet(order)]
  BY Enumerated
<1>2. Planned(w, kind, order) \in [1 .. n -> WorkerOps]
  BY <1>1, WorkerTyped DEF Planned
<1> QED
  BY <1>2

LEMMA WorkerPlanned == WorkerPlan \in Seq(WorkerOps)
<1> DEFINE script(w) == <<ScriptOperation(w)>>
           routes(w) == [i \in DOMAIN Routes[w] |-> RouteOperation(w, Routes[w][i])]
           consumers(w) == [i \in DOMAIN Consumers[w] |-> ConsumerOperation(w, Consumers[w][i])]
           part(w) == script(w) \o routes(w) \o Planned(w, "binding", Producers[w]) \o consumers(w)
                        \o Planned(w, "binding", Variables[w]) \o Planned(w, "secret", Secrets[w]) \o <<CronOperation(w)>>
           all == [i \in DOMAIN WorkerOrder |-> part(WorkerOrder[i])]
<1>0. WorkerKinds = {"script", "route", "consumer", "binding", "secret", "cron"}
  BY DEF WorkerKinds
<1>1. ASSUME NEW w \in ToSet(WorkerOrder) PROVE part(w) \in Seq(WorkerOps)
  <2>0. IsList(Routes[w]) /\ IsList(Producers[w]) /\ IsList(Consumers[w]) /\ IsList(Variables[w]) /\ IsList(Secrets[w])
    BY Orders
  <2>1. script(w) \in Seq(WorkerOps)
    <3>1. ScriptOperation(w) \in WorkerOps
      BY <1>0, WorkerTyped DEF ScriptOperation, Subjects
    <3> QED
      BY <3>1
  <2>2. routes(w) \in Seq(WorkerOps)
    <3>0. ToSet(Routes[w]) \subseteq Patterns
      BY DEF Patterns
    <3>1. PICK n \in Nat : Routes[w] \in [1 .. n -> ToSet(Routes[w])]
      BY <2>0, Enumerated
    <3>2. ASSUME NEW pattern \in Patterns PROVE RouteOperation(w, pattern) \in WorkerOps
      <4>1. [pattern |-> pattern, known |-> remote.routes[pattern] # Free] \in Subjects
        BY DEF Subjects
      <4> QED
        BY <1>0, <4>1, WorkerTyped DEF RouteOperation
    <3>3. routes(w) \in [1 .. n -> WorkerOps]
      BY <3>0, <3>1, <3>2
    <3> QED
      BY <3>3
  <2>3. consumers(w) \in Seq(WorkerOps)
    <3>0. ToSet(Consumers[w]) \subseteq Subjects
      BY DEF Subjects
    <3>1. PICK n \in Nat : Consumers[w] \in [1 .. n -> ToSet(Consumers[w])]
      BY <2>0, Enumerated
    <3>2. ASSUME NEW q \in Subjects PROVE ConsumerOperation(w, q) \in WorkerOps
      BY <1>0, WorkerTyped DEF ConsumerOperation
    <3>3. consumers(w) \in [1 .. n -> WorkerOps]
      BY <3>0, <3>1, <3>2
    <3> QED
      BY <3>3
  <2>4. Planned(w, "binding", Producers[w]) \in Seq(WorkerOps) /\ Planned(w, "binding", Variables[w]) \in Seq(WorkerOps)
        /\ Planned(w, "secret", Secrets[w]) \in Seq(WorkerOps)
    <3>1. ToSet(Producers[w]) \subseteq Subjects /\ ToSet(Variables[w]) \subseteq Subjects /\ ToSet(Secrets[w]) \subseteq Subjects
      BY DEF Subjects, Bound
    <3> QED
      BY <1>0, <2>0, <3>1, PlannedTyped
  <2>5. <<CronOperation(w)>> \in Seq(WorkerOps)
    BY CronTyped
  <2> HIDE DEF script, routes, consumers
  <2> QED
    BY <2>1, <2>2, <2>3, <2>4, <2>5
<1>2. PICK n \in Nat : WorkerOrder \in [1 .. n -> ToSet(WorkerOrder)]
  BY Orders, Enumerated
<1>3. all \in [1 .. n -> Seq(WorkerOps)]
  <2> HIDE DEF part
  <2> QED
    BY <1>1, <1>2
<1>4. FlattenSeq(all) \in Seq(WorkerOps)
  <2> HIDE DEF all
  <2> QED
    BY <1>3, FlattenTyped
<1>5. WorkerPlan = FlattenSeq(all)
  BY DEF WorkerPlan, Each
<1> QED
  BY <1>4, <1>5

\* No record goes, none gets another name.
Grown(old, new) == \A id \in DOMAIN old : id \in DOMAIN new /\ new[id].name = old[id].name

\* What a plan asks for stays sound while records come and values change.
LEMMA OpsGrow ==
    ASSUME NEW old \in Seq(KnownRecords), NEW new, Grown(old, new), NEW f, NEW s, s \in Seq(OpsOf(f, old))
    PROVE  s \in Seq(OpsOf(f, new))
<1>1. PICK n \in Nat : DOMAIN old = 1 .. n
  OBVIOUS
<1>2. ASSUME NEW op \in Rewrites(old), Replaceable(old, op) PROVE op \in Rewrites(new) /\ Replaceable(new, op)
  <2>1. op.id \in 1 .. n /\ op \in Rewrites(new)
    BY <1>1 DEF Rewrites, Grown
  <2>2. \A k \in 1 .. op.id - 1 : k \in DOMAIN old
    BY <1>1, <2>1
  <2> QED
    BY <1>1, <1>2, <2>1, <2>2 DEF Replaceable, Grown
<1>3. RecordOps(old) \subseteq RecordOps(new)
  BY <1>2 DEF RecordOps
<1>4. OpsOf(f, old) \subseteq OpsOf(f, new)
  BY <1>3 DEF OpsOf
<1> QED
  BY <1>4

LEMMA WithRecords ==
    ASSUME Shaped(remote), NEW rs
    PROVE  Shaped([remote EXCEPT !.records = rs]) /\ [remote EXCEPT !.records = rs].records = rs
<1>1. [remote EXCEPT !.records = rs]
        = [records |-> rs, queues |-> remote.queues, scripts |-> remote.scripts, routes |-> remote.routes,
           consumers |-> remote.consumers, bindings |-> remote.bindings, crons |-> remote.crons]
  BY DEF Shaped
<1> QED
  BY <1>1 DEF Shaped

\* What an operation on DNS records makes of them.
LEMMA DnsEnacted ==
    ASSUME FlareInv, NEW op \in RecordOps(remote.records), NEW after \in EnactDns(op)
    PROVE  /\ Shaped(after) /\ after.records \in Seq(KnownRecords) /\ Grown(remote.records, after.records)
           /\ \A id \in DOMAIN remote.records : after.records[id] # remote.records[id] =>
                id = op.id /\ Replaceable(remote.records, op) /\ after.records[id] = [name |-> op.name, value |-> op.value]
<1> DEFINE record == [name |-> op.name, value |-> op.value]
<1>1. PICK rs \in Seq(KnownRecords) : rs = remote.records
  BY DEF FlareInv
<1>2. PICK n \in Nat : DOMAIN rs = 1 .. n /\ n = Len(rs)
  OBVIOUS
<1>3. record \in KnownRecords
  <2>1. op.name \in ConfiguredNames /\ op.value \in ConfiguredValues
    BY DEF RecordOps, Rewrites
  <2>2. record \in [name : ConfiguredNames, value : ConfiguredValues]
    BY <2>1
  <2> HIDE DEF record
  <2> QED
    BY <2>2, KnownParts DEF ConfiguredRecords
<1>4. CASE op.action = "update"
  <2>1. op \in Rewrites(rs) /\ Replaceable(rs, op)
    BY <1>1, <1>4 DEF RecordOps
  <2>2. op.id \in 1 .. n
    BY <1>2, <2>1 DEF Rewrites
  <2> DEFINE new == [rs EXCEPT ![op.id] = record]
  <2>3. after = [remote EXCEPT !.records = new]
    BY <1>1, <1>4 DEF EnactDns
  <2> HIDE DEF record
  <2>4. new \in Seq(KnownRecords) /\ DOMAIN new = 1 .. n /\ new[op.id] = record /\ \A id \in 1 .. n : id # op.id => new[id] = rs[id]
    BY <1>2, <1>3, <2>2
  <2> HIDE DEF new
  <2>5. Shaped(after) /\ after.records = new
    BY <2>3, WithRecords DEF FlareInv
  <2>6. record.name = rs[op.id].name
    BY <2>1 DEF Replaceable, record
  <2>7. Grown(rs, new)
    BY <1>2, <2>4, <2>6 DEF Grown
  <2> QED
    BY <1>1, <1>2, <2>1, <2>4, <2>5, <2>7 DEF record
<1>5. CASE op.action # "update"
  <2> DEFINE new == Append(rs, record)
  <2>1. after = [remote EXCEPT !.records = new]
    BY <1>1, <1>5 DEF EnactDns
  <2> HIDE DEF record
  <2>2. new \in Seq(KnownRecords) /\ DOMAIN new = 1 .. n + 1 /\ \A id \in 1 .. n : new[id] = rs[id]
    BY <1>2, <1>3
  <2> HIDE DEF new
  <2>3. Shaped(after) /\ after.records = new
    BY <2>1, WithRecords DEF FlareInv
  <2>4. Grown(rs, new)
    BY <1>2, <2>2 DEF Grown
  <2> QED
    BY <1>1, <1>2, <2>2, <2>3, <2>4
<1> QED
  BY <1>4, <1>5

LEMMA OthersEnacted ==
    ASSUME Shaped(remote), NEW f \in Focuses, f # "dns", NEW op \in OpsOf(f, remote.records), NEW after \in EnactFlare(f, op)
    PROVE  Shaped(after) /\ after.records = remote.records
<1>1. PICK rs, qs, ss, ts, cs, bs, ks :
        remote = [records |-> rs, queues |-> qs, scripts |-> ss, routes |-> ts, consumers |-> cs, bindings |-> bs, crons |-> ks]
  BY DEF Shaped
<1>2. ASSUME NEW x PROVE /\ Shaped([remote EXCEPT !.queues = x]) /\ [remote EXCEPT !.queues = x].records = remote.records
                         /\ Shaped([remote EXCEPT !.scripts = x]) /\ [remote EXCEPT !.scripts = x].records = remote.records
                         /\ Shaped([remote EXCEPT !.routes = x]) /\ [remote EXCEPT !.routes = x].records = remote.records
                         /\ Shaped([remote EXCEPT !.consumers = x]) /\ [remote EXCEPT !.consumers = x].records = remote.records
                         /\ Shaped([remote EXCEPT !.bindings = x]) /\ [remote EXCEPT !.bindings = x].records = remote.records
                         /\ Shaped([remote EXCEPT !.crons = x]) /\ [remote EXCEPT !.crons = x].records = remote.records
  BY <1>1 DEF Shaped
<1>3. CASE f = "queues"
  BY <1>2, <1>3 DEF EnactFlare, EnactQueue
<1>4. CASE f # "queues"
  <2>1. op.kind \in WorkerKinds /\ after \in EnactWorker(op)
    BY <1>4 DEF OpsOf, WorkerOps, EnactFlare
  <2>2. CASE op.kind = "script"
    <3>1. PICK kept : after = [remote EXCEPT !.scripts = @ \cup {op.worker}, !.bindings[op.worker] = kept]
      BY <2>1, <2>2 DEF EnactWorker, Upload
    <3>2. after = [records |-> rs, queues |-> qs, scripts |-> ss \cup {op.worker}, routes |-> ts, consumers |-> cs,
                   bindings |-> [bs EXCEPT ![op.worker] = kept], crons |-> ks]
      BY <1>1, <3>1
    <3> QED
      BY <1>1, <3>2 DEF Shaped
  <2>3. CASE op.kind = "route"
    BY <1>2, <2>1, <2>3 DEF EnactWorker, Route
  <2>4. CASE op.kind = "consumer"
    BY <1>2, <2>1, <2>4 DEF EnactWorker, Consume
  <2>5. CASE op.kind \in {"binding", "secret"}
    BY <1>2, <2>1, <2>5 DEF EnactWorker
  <2>6. CASE op.kind = "cron"
    BY <1>2, <2>1, <2>6 DEF EnactWorker
  <2> QED
    BY <2>1, <2>2, <2>3, <2>4, <2>5, <2>6 DEF WorkerKinds
<1> QED
  BY <1>3, <1>4

LEMMA FlareEnacted ==
    ASSUME FlareInv, NEW f \in Focuses, NEW op \in OpsOf(f, remote.records), NEW after, after = remote \/ after \in EnactFlare(f, op)
    PROVE  /\ Shaped(after) /\ after.records \in Seq(KnownRecords) /\ Grown(remote.records, after.records)
           /\ RecordsStay(after)
<1>1. CASE after.records = remote.records /\ Shaped(after)
  BY <1>1 DEF FlareInv, Grown, RecordsStay
<1>2. CASE after \in EnactFlare(f, op) /\ f = "dns"
  <2>1. op \in RecordOps(remote.records) /\ after \in EnactDns(op)
    BY <1>2 DEF OpsOf, EnactFlare
  <2>2. /\ Shaped(after) /\ after.records \in Seq(KnownRecords) /\ Grown(remote.records, after.records)
        /\ \A id \in DOMAIN remote.records : after.records[id] # remote.records[id] =>
                id = op.id /\ Replaceable(remote.records, op) /\ after.records[id] = [name |-> op.name, value |-> op.value]
    BY <2>1, DnsEnacted
  <2>3. RecordsStay(after)
    BY <2>2 DEF RecordsStay, Replaceable, Grown
  <2> QED
    BY <2>2, <2>3
<1> QED
  BY <1>1, <1>2, OthersEnacted DEF FlareInv

LEMMA FlareInitInv == RolloutInit => FlareInv
<1> SUFFICES ASSUME RolloutInit PROVE FlareInv
  OBVIOUS
<1>1. PICK start \in Starts : managed = start.managed /\ remote = start.remote
  BY DEF RolloutInit
<1>2. IsAccount(start.remote) /\ start.managed \subseteq Focuses
  BY FlareAssumption
<1>3. ToSet(start.remote.records) \subseteq KnownRecords
  BY KnownParts DEF StartRecords
<1>4. remote.records \in Seq(KnownRecords)
  BY <1>1, <1>2, <1>3 DEF IsAccount, IsList
<1>5. \A f \in Focuses : flarePlan[f] = <<>> /\ flareTodo[f] = <<>>
  BY DEF RolloutInit
<1> QED
  BY <1>1, <1>2, <1>4, <1>5 DEF RolloutInit, FlareInv, IsAccount, Shaped

\* A step of a focus that leaves the account alone.
LEMMA QuietStep ==
    ASSUME FlareInv, UNCHANGED <<managed, remote>>, NEW f \in Focuses, NEW p \in Seq(OpsOf(f, remote.records)),
           NEW s \in Seq(OpsOf(f, remote.records)), flarePlan' = [flarePlan EXCEPT ![f] = p], flareTodo' = [flareTodo EXCEPT ![f] = s]
    PROVE  FlareInv'
  BY DEF FlareInv, Shaped

\* A step of a focus that may change the account.
LEMMA AccountStep ==
    ASSUME FlareInv, UNCHANGED <<managed, flarePlan>>, Shaped(remote'), remote'.records \in Seq(KnownRecords),
           Grown(remote.records, remote'.records), NEW f \in Focuses, NEW s \in Seq(OpsOf(f, remote.records)),
           flareTodo' = [flareTodo EXCEPT ![f] = s]
    PROVE  FlareInv'
<1>1. ASSUME NEW g \in Focuses
      PROVE  flarePlan'[g] \in Seq(OpsOf(g, remote'.records)) /\ flareTodo'[g] \in Seq(OpsOf(g, remote'.records))
  <2>1. remote.records \in Seq(KnownRecords) /\ flarePlan[g] \in Seq(OpsOf(g, remote.records))
        /\ flareTodo'[g] \in Seq(OpsOf(g, remote.records))
    BY DEF FlareInv
  <2> QED
    BY <2>1, OpsGrow
<1> QED
  BY <1>1 DEF FlareInv, Shaped

LEMMA PlanOfTyped == ASSUME FlareInv, NEW f \in Focuses PROVE FlarePlanOf(f) \in Seq(OpsOf(f, remote.records))
  BY DnsPlanned, QueuePlanned, WorkerPlanned, CronPlanned DEF FlarePlanOf, OpsOf, Focuses

LEMMA EffectsTyped ==
    ASSUME NEW S, NEW s \in Seq(S) PROVE Each(s, LAMBDA op : IF op.action = "no-op" THEN <<>> ELSE <<op>>) \in Seq(S)
<1> DEFINE ss == [i \in DOMAIN s |-> IF s[i].action = "no-op" THEN <<>> ELSE <<s[i]>>]
<1>1. PICK n \in Nat : s \in [1 .. n -> S]
  OBVIOUS
<1>2. ASSUME NEW op \in S PROVE <<op>> \in Seq(S) /\ <<>> \in Seq(S)
  OBVIOUS
<1>3. ss \in [1 .. n -> Seq(S)]
  BY <1>1, <1>2
<1>4. FlattenSeq(ss) \in Seq(S)
  <2> HIDE DEF ss
  <2> QED
    BY <1>3, FlattenTyped
<1> QED
  BY <1>4 DEF Each

LEMMA FlareStepInv == FlareInv /\ [RolloutNext]_flareVars => FlareInv' /\ RecordsStay(remote')
<1> SUFFICES ASSUME FlareInv, [RolloutNext]_flareVars PROVE FlareInv' /\ RecordsStay(remote')
  OBVIOUS
<1>0. UNCHANGED remote => RecordsStay(remote')
  BY DEF RecordsStay
<1>1. ASSUME NEW f \in Focuses
      PROVE  /\ flarePlan = [flarePlan EXCEPT ![f] = flarePlan[f]] /\ flareTodo = [flareTodo EXCEPT ![f] = flareTodo[f]]
             /\ flarePlan[f] \in Seq(OpsOf(f, remote.records)) /\ flareTodo[f] \in Seq(OpsOf(f, remote.records))
  BY DEF FlareInv
<1>2. ASSUME NEW f \in managed, PlanFocus(f) PROVE FlareInv' /\ RecordsStay(remote')
  <2>1. f \in Focuses /\ UNCHANGED <<managed, remote, flareTodo>> /\ flarePlan' = [flarePlan EXCEPT ![f] = FlarePlanOf(f)]
    BY <1>2 DEF PlanFocus, FlareInv
  <2> QED
    BY <1>0, <1>1, <2>1, PlanOfTyped, QuietStep
<1>3. ASSUME NEW f \in managed, ApplyFocus(f) PROVE FlareInv' /\ RecordsStay(remote')
  <2>1. f \in Focuses /\ UNCHANGED <<managed, remote, flarePlan>>
    BY <1>3 DEF ApplyFocus, FlareInv
  <2>2. CASE UNCHANGED flareTodo
    BY <1>0, <1>1, <2>1, <2>2, QuietStep
  <2>3. ASSUME NEW s, s = Each(flarePlan[f], LAMBDA op : IF op.action = "no-op" THEN <<>> ELSE <<op>>),
               flareTodo' = [flareTodo EXCEPT ![f] = s]
        PROVE  FlareInv' /\ RecordsStay(remote')
    <3>1. s \in Seq(OpsOf(f, remote.records))
      BY <1>1, <2>1, <2>3, EffectsTyped
    <3> QED
      BY <1>0, <1>1, <2>1, <2>3, <3>1, QuietStep
  <2> QED
    BY <1>3, <2>2, <2>3 DEF ApplyFocus
<1>4. ASSUME NEW f \in managed, flareTodo[f] # <<>>, remote' \in {remote} \cup EnactFlare(f, Head(flareTodo[f])),
             UNCHANGED <<managed, flarePlan>>, NEW s \in {Tail(flareTodo[f]), <<>>}, flareTodo' = [flareTodo EXCEPT ![f] = s]
      PROVE  FlareInv' /\ RecordsStay(remote')
  <2>1. f \in Focuses /\ flareTodo[f] \in Seq(OpsOf(f, remote.records))
    BY <1>1 DEF FlareInv
  <2>2. Head(flareTodo[f]) \in OpsOf(f, remote.records) /\ s \in Seq(OpsOf(f, remote.records))
    <3>1. ASSUME NEW S, NEW list \in Seq(S), list # <<>> PROVE Head(list) \in S /\ Tail(list) \in Seq(S) /\ <<>> \in Seq(S)
      BY <3>1
    <3> QED
      BY <1>4, <2>1, <3>1
  <2>3. PICK op \in OpsOf(f, remote.records) : op = Head(flareTodo[f])
    BY <2>2
  <2>4. /\ Shaped(remote') /\ remote'.records \in Seq(KnownRecords) /\ Grown(remote.records, remote'.records)
        /\ RecordsStay(remote')
    BY <1>4, <2>1, <2>3, FlareEnacted
  <2> QED
    BY <1>4, <2>1, <2>2, <2>4, AccountStep
<1>5. ASSUME NEW f \in managed, ApplyOperation(f) PROVE FlareInv' /\ RecordsStay(remote')
  BY <1>4, <1>5 DEF ApplyOperation
<1>6. ASSUME NEW f \in managed, FailOperation(f) PROVE FlareInv' /\ RecordsStay(remote')
  BY <1>4, <1>6 DEF FailOperation
<1>7. ASSUME NEW f \in managed, CompleteFocus(f) PROVE FlareInv' /\ RecordsStay(remote')
  <2>1. f \in Focuses /\ UNCHANGED <<managed, remote, flarePlan, flareTodo>>
    BY <1>7 DEF CompleteFocus, FlareInv
  <2> QED
    BY <1>0, <1>1, <2>1, QuietStep
<1>8. ASSUME NEW record \in StrangeRecords, AddRecord(record), "dns" \in managed PROVE FlareInv' /\ RecordsStay(remote')
  <2> DEFINE new == Append(remote.records, record)
  <2>0. record \in KnownRecords
    BY KnownParts
  <2>1. remote.records \in Seq(KnownRecords) /\ record \in KnownRecords
    BY <2>0 DEF FlareInv
  <2>2. new \in Seq(KnownRecords) /\ \A id \in DOMAIN remote.records : id \in DOMAIN new /\ new[id] = remote.records[id]
    BY <2>1
  <2>3. remote' = [remote EXCEPT !.records = new] /\ UNCHANGED <<managed, flarePlan, flareTodo>>
    BY <1>8 DEF AddRecord, flareWork
  <2> HIDE DEF new
  <2>4. Shaped(remote') /\ remote'.records = new
    BY <2>3, WithRecords DEF FlareInv
  <2>5. Grown(remote.records, remote'.records) /\ RecordsStay(remote')
    BY <2>2, <2>4 DEF Grown, RecordsStay
  <2>6. "dns" \in Focuses
    BY DEF Focuses
  <2> QED
    BY <1>1, <2>2, <2>3, <2>4, <2>5, <2>6, AccountStep
<1>9. CASE UNCHANGED flareVars
  <2>1. UNCHANGED <<managed, remote, flarePlan, flareTodo>> /\ "dns" \in Focuses
    BY <1>9 DEF flareVars, flareWork, Focuses
  <2> QED
    BY <1>0, <1>1, <2>1, QuietStep
<1> QED
  BY <1>2, <1>3, <1>5, <1>6, <1>7, <1>8, <1>9 DEF RolloutNext, FocusStep

\* A rollout of DNS takes no record away and overwrites one only with the single
\* value configured for its name, and only the first of that name, whatever other
\* tools add between plan and apply and whatever fails (applyCloudDnsPlan).
THEOREM RecordsAreKept == RolloutSpec => RecordsKept
<1>1. ASSUME FlareInv, [RolloutNext]_flareVars PROVE RecordsStay(remote')
  BY <1>1, FlareStepInv
<1>2. FlareInv /\ [RolloutNext]_flareVars => FlareInv'
  BY FlareStepInv
<1>3. FlareInv /\ [RolloutNext]_flareVars => [RecordsStay(remote')]_flareVars
  BY <1>1
<1> QED
  BY <1>2, <1>3, FlareInitInv, PTL DEF RolloutSpec, RecordsKept
=============================================================================
