--------------------------- MODULE MarketingProofs ---------------------------
(***************************************************************************)
(* Proofs about the delivery of conversions, the launch of advertisements  *)
(* and the media of advertisements, for any events, strategies, assets and *)
(* numbers of calls, deaths and commands.                                  *)
(***************************************************************************)
EXTENDS ConversionDelivery, AdsLaunch, AdsAssets, TLAPS

-----------------------------------------------------------------------------
(***************************************************************************)
(* The delivery of conversions: the types of its variables, and that no    *)
(* event its provider has taken is denied by its receipts.                 *)
(*                                                                         *)
(* The invariant is a predicate of one event.  It is stronger than the     *)
(* property while an attempt runs: then the number of the attempt is not   *)
(* missing yet, so that for an event that was taken before there is a      *)
(* receipt or another number that is missing, and the outcome about to be  *)
(* recorded for one that was taken now does not deny it.                   *)
(***************************************************************************)
Outcomes == {"accepted", "rejected", "suppressed", "unknown"}
Receipt == [attempt : Nat, outcome : Outcomes]

\* A receipt in r that does not deny the event, and a number up to a, other than
\* that of an attempt that runs, that no receipt in r has.
Telling(r) == \E i \in DOMAIN r : r[i].outcome \in {"accepted", "unknown"}
Missing(o, a, r) ==
    \E n \in 1 .. a :
        /\ o = "claimed" => n # a
        /\ \A i \in DOMAIN r : r[i].attempt # n

\* An event with the place o in the outbox, the attempt a, which is at d and about
\* to record v, and the receipts r.
Sound(o, a, d, v, r) ==
    /\ o \in {"absent", "pending", "claimed", "delivered"} /\ a \in Nat
    /\ d \in {"nothing", "checking", "sending", "recording"} /\ v \in Outcomes \cup {"none"}
    /\ r \in Seq(Receipt)
    /\ o = "claimed" <=> d # "nothing"
    /\ d = "recording" <=> v # "none"
    /\ \A i \in DOMAIN r : r[i].attempt <= a
    /\ o = "claimed" => a > 0 /\ \A i \in DOMAIN r : r[i].attempt # a

\* What holds of an event that was taken.
NotDenied(o, a, d, v, r) == Telling(r) \/ Missing(o, a, r) \/ (d = "recording" /\ v \in {"accepted", "unknown"})

SoundEvent(e) ==
    /\ Sound(outbox[e], attempt[e], doing[e], verdict[e], receipts[e])
    /\ e \in counted => NotDenied(outbox[e], attempt[e], doing[e], verdict[e], receipts[e])

ConversionFunctions ==
    /\ outbox = [e \in Events |-> outbox[e]]
    /\ attempt = [e \in Events |-> attempt[e]]
    /\ doing = [e \in Events |-> doing[e]]
    /\ verdict = [e \in Events |-> verdict[e]]
    /\ receipts = [e \in Events |-> receipts[e]]
    /\ counted \subseteq Events

ConversionIndInv == ConversionFunctions /\ \A e \in Events : SoundEvent(e)

-----------------------------------------------------------------------------
LEMMA ConversionInitInv == ConversionInit => ConversionIndInv
<1> SUFFICES ASSUME ConversionInit PROVE ConversionIndInv
  OBVIOUS
<1>1. ConversionFunctions
  BY DEF ConversionInit, ConversionFunctions
<1>2. ASSUME NEW e \in Events PROVE SoundEvent(e)
  BY DEF ConversionInit, SoundEvent, Sound, Outcomes, Receipt
<1> QED
  BY <1>1, <1>2 DEF ConversionIndInv

\* What Append does to the receipts of an event.
LEMMA ReceiptAppended ==
    ASSUME NEW s \in Seq(Receipt), NEW r \in Receipt
    PROVE  /\ Append(s, r) \in Seq(Receipt)
           /\ DOMAIN Append(s, r) = DOMAIN s \cup {Len(s) + 1}
           /\ Append(s, r)[Len(s) + 1] = r
           /\ \A i \in DOMAIN s : Append(s, r)[i] = s[i]
           /\ Len(s) + 1 \notin DOMAIN s
  OBVIOUS

\* A refusal is of an event the provider has not taken.
LEMMA TakenIsNotRejected ==
    ASSUME NEW e \in Events, NEW answer \in ProviderAnswers(e), TRUE \in Taken(e, answer)
    PROVE  OutcomeOf(FailureKind(e, answer)) \in {"accepted", "unknown"}
  BY DEF ProviderAnswers, Taken, OutcomeOf, FailureKind

LEMMA OutcomesTyped ==
    ASSUME NEW e \in Events, NEW answer \in ProviderAnswers(e)
    PROVE  OutcomeOf(FailureKind(e, answer)) \in Outcomes
  BY DEF ProviderAnswers, OutcomeOf, FailureKind, Outcomes

-----------------------------------------------------------------------------
\* The ways in which a step changes one event.
LEMMA AttemptStarts ==
    ASSUME NEW a, NEW r, Sound("pending", a, "nothing", "none", r)
    PROVE  /\ Sound("claimed", a + 1, "checking", "none", r)
           /\ NotDenied("pending", a, "nothing", "none", r) => NotDenied("claimed", a + 1, "checking", "none", r)
<1>1. a \in Nat /\ r \in Seq(Receipt) /\ \A i \in DOMAIN r : r[i].attempt <= a
  BY DEF Sound
<1>2. \A i \in DOMAIN r : r[i] \in Receipt
  BY <1>1
<1>3. \A i \in DOMAIN r : r[i].attempt \in Nat
  BY <1>2 DEF Receipt
<1>4. \A i \in DOMAIN r : r[i].attempt <= a + 1 /\ r[i].attempt # a + 1
  BY <1>1, <1>3
<1>5. Sound("claimed", a + 1, "checking", "none", r)
  BY <1>1, <1>4 DEF Sound
<1>6. Missing("pending", a, r) => Missing("claimed", a + 1, r)
  BY <1>1 DEF Missing
<1> QED
  BY <1>5, <1>6 DEF NotDenied

LEMMA AttemptGoesOn ==
    ASSUME NEW a, NEW d, NEW v, NEW r, Sound("claimed", a, d, v, r), d # "recording",
           NEW d1 \in {"sending", "recording"}, NEW v1 \in Outcomes \cup {"none"}, d1 = "recording" <=> v1 # "none"
    PROVE  /\ Sound("claimed", a, d1, v1, r)
           /\ NotDenied("claimed", a, d, v, r) => NotDenied("claimed", a, d1, v1, r)
  BY DEF Sound, NotDenied

LEMMA AttemptIsRecorded ==
    ASSUME NEW a, NEW v, NEW r, Sound("claimed", a, "recording", v, r), NEW o \in {"pending", "delivered"}
    PROVE  LET s == Append(r, [attempt |-> a, outcome |-> v]) IN
           /\ Sound(o, a, "nothing", "none", s)
           /\ NotDenied("claimed", a, "recording", v, r) => NotDenied(o, a, "nothing", "none", s)
<1> DEFINE new == [attempt |-> a, outcome |-> v]
<1>1. a \in Nat /\ v \in Outcomes /\ r \in Seq(Receipt) /\ new \in Receipt
  BY DEF Sound, Receipt
<1>2. /\ Append(r, new) \in Seq(Receipt)
      /\ DOMAIN Append(r, new) = DOMAIN r \cup {Len(r) + 1}
      /\ Append(r, new)[Len(r) + 1] = new
      /\ \A i \in DOMAIN r : Append(r, new)[i] = r[i]
  BY <1>1, ReceiptAppended
<1>3. new.attempt = a /\ new.outcome = v
  OBVIOUS
<1> HIDE DEF new
<1> DEFINE s == Append(r, new)
<1> HIDE DEF s
<1>4. s \in Seq(Receipt) /\ \A i \in DOMAIN s : s[i].attempt <= a
  BY <1>1, <1>2, <1>3 DEF Sound, s
<1>5. Telling(r) => Telling(s)
  BY <1>2 DEF Telling, s
<1>6. v \in {"accepted", "unknown"} => Telling(s)
  BY <1>2, <1>3 DEF Telling, s
<1>7. Missing("claimed", a, r) => Missing(o, a, s)
  BY <1>1, <1>2, <1>3 DEF Missing, s
<1>8. Sound(o, a, "nothing", "none", s)
  BY <1>1, <1>4 DEF Sound
<1>9. NotDenied("claimed", a, "recording", v, r) => NotDenied(o, a, "nothing", "none", s)
  BY <1>5, <1>6, <1>7 DEF NotDenied
<1> QED
  BY <1>8, <1>9 DEF s, new

LEMMA AttemptIsForgotten ==
    ASSUME NEW a, NEW d, NEW v, NEW r, Sound("claimed", a, d, v, r)
    PROVE  Sound("pending", a, "nothing", "none", r) /\ NotDenied("pending", a, "nothing", "none", r)
  BY DEF Sound, NotDenied, Missing

\* A step that changes the state of one event only.
LEMMA OneEvent ==
    ASSUME ConversionIndInv, NEW e \in Events, ConversionFunctions', SoundEvent(e)',
           \A x \in Events \ {e} :
                /\ outbox'[x] = outbox[x] /\ attempt'[x] = attempt[x] /\ doing'[x] = doing[x]
                /\ verdict'[x] = verdict[x] /\ receipts'[x] = receipts[x] /\ (x \in counted') = (x \in counted)
    PROVE  ConversionIndInv'
  BY DEF ConversionIndInv, SoundEvent

-----------------------------------------------------------------------------
\* Each step keeps the invariant.
LEMMA ConversionStepInv == ConversionIndInv /\ [ConversionNext]_conversionVars => ConversionIndInv'
<1> SUFFICES ASSUME ConversionIndInv, [ConversionNext]_conversionVars PROVE ConversionIndInv'
  OBVIOUS
<1> DEFINE Others(e) ==
              \A x \in Events \ {e} :
                /\ outbox'[x] = outbox[x] /\ attempt'[x] = attempt[x] /\ doing'[x] = doing[x]
                /\ verdict'[x] = verdict[x] /\ receipts'[x] = receipts[x] /\ (x \in counted') = (x \in counted)
<1>0. ConversionFunctions /\ \A e \in Events : SoundEvent(e)
  BY DEF ConversionIndInv
<1>1. CASE UNCHANGED conversionVars
  BY <1>1 DEF conversionVars, ConversionIndInv, ConversionFunctions, SoundEvent
<1>2. ASSUME NEW e \in Events, PublishConversion(e) PROVE ConversionIndInv'
  <2>1. ConversionFunctions' /\ Others(e)
    BY <1>0, <1>2 DEF ConversionFunctions, PublishConversion
  <2>2. SoundEvent(e)'
    BY <1>0, <1>2 DEF ConversionFunctions, PublishConversion, SoundEvent, Sound, NotDenied, Missing
  <2> QED
    BY <2>1, <2>2, OneEvent
<1>3. ASSUME NEW e \in Events, StartAttempt(e) PROVE ConversionIndInv'
  <2>1. ConversionFunctions' /\ Others(e)
    BY <1>0, <1>3 DEF ConversionFunctions, StartAttempt, Do
  <2>2. SoundEvent(e)'
    <3>1. Sound("pending", attempt[e], "nothing", "none", receipts[e])
          /\ doing[e] = "nothing" /\ verdict[e] = "none" /\ outbox[e] = "pending"
      BY <1>0, <1>3 DEF StartAttempt, SoundEvent, Sound
    <3>2. outbox'[e] = "claimed" /\ attempt'[e] = attempt[e] + 1 /\ doing'[e] = "checking" /\ verdict'[e] = "none"
          /\ receipts' = receipts /\ counted' = counted
      BY <1>0, <1>3 DEF ConversionFunctions, StartAttempt, Do
    <3> QED
      BY <1>0, <3>1, <3>2, AttemptStarts DEF SoundEvent
  <2> QED
    BY <2>1, <2>2, OneEvent
<1>4. ASSUME NEW e \in Events, CheckDelivery(e) PROVE ConversionIndInv'
  <2>1. ConversionFunctions' /\ Others(e)
    BY <1>0, <1>4 DEF ConversionFunctions, CheckDelivery, Do
  <2>2. SoundEvent(e)'
    <3>1. outbox[e] = "claimed" /\ doing[e] = "checking"
      BY <1>0, <1>4 DEF CheckDelivery, SoundEvent, Sound
    <3>2. PICK d \in {"sending", "recording"}, v \in Outcomes \cup {"none"} :
             Do(e, d, v) /\ (d = "recording" <=> v # "none")
      BY <1>4 DEF CheckDelivery, Outcomes
    <3>3. outbox' = outbox /\ attempt' = attempt /\ receipts' = receipts /\ counted' = counted
          /\ doing'[e] = d /\ verdict'[e] = v
      BY <1>0, <1>4, <3>2 DEF CheckDelivery, Do, ConversionFunctions
    <3> QED
      BY <1>0, <3>1, <3>2, <3>3, AttemptGoesOn DEF SoundEvent
  <2> QED
    BY <2>1, <2>2, OneEvent
<1>5. ASSUME NEW e \in Events, SendConversion(e) PROVE ConversionIndInv'
  <2>1. ConversionFunctions' /\ Others(e)
    <3>1. counted' \in {counted, counted \cup {e}}
          /\ UNCHANGED <<outbox, attempt, receipts>> /\ \E v : Do(e, "recording", v)
      BY <1>5 DEF SendConversion
    <3>2. PICK v : Do(e, "recording", v)
      BY <3>1
    <3>3. ConversionFunctions'
      BY <1>0, <3>1, <3>2 DEF ConversionFunctions, Do
    <3>4. ASSUME NEW x \in Events \ {e} PROVE doing'[x] = doing[x] /\ verdict'[x] = verdict[x]
      BY <1>0, <3>2 DEF ConversionFunctions, Do
    <3>5. ASSUME NEW x \in Events \ {e} PROVE (x \in counted') = (x \in counted)
      BY <3>1
    <3> QED
      BY <3>1, <3>3, <3>4, <3>5
  <2>2. SoundEvent(e)'
    <3>1. outbox[e] = "claimed" /\ doing[e] = "sending"
      BY <1>0, <1>5 DEF SendConversion, SoundEvent, Sound
    <3>2. PICK answer \in ProviderAnswers(e) : \E taken \in Taken(e, answer) :
             /\ Do(e, "recording", OutcomeOf(FailureKind(e, answer)))
             /\ counted' = IF taken THEN counted \cup {e} ELSE counted
      BY <1>5 DEF SendConversion
    <3> DEFINE v == OutcomeOf(FailureKind(e, answer))
    <3>3. v \in Outcomes /\ v # "none"
      BY OutcomesTyped DEF Outcomes
    <3>4. e \in counted' => e \in counted \/ v \in {"accepted", "unknown"}
      <4>1. PICK taken \in Taken(e, answer) : counted' = IF taken THEN counted \cup {e} ELSE counted
        BY <3>2
      <4>2. CASE TRUE \in Taken(e, answer)
        BY <4>2, TakenIsNotRejected
      <4>3. CASE Taken(e, answer) = {FALSE}
        BY <4>1, <4>3
      <4> QED
        BY <4>2, <4>3 DEF Taken
    <3>5. outbox' = outbox /\ attempt' = attempt /\ receipts' = receipts /\ doing'[e] = "recording" /\ verdict'[e] = v
      BY <1>0, <1>5, <3>2 DEF SendConversion, Do, ConversionFunctions
    <3> HIDE DEF v
    <3>6. /\ Sound("claimed", attempt[e], "recording", v, receipts[e])
          /\ NotDenied("claimed", attempt[e], doing[e], verdict[e], receipts[e])
                => NotDenied("claimed", attempt[e], "recording", v, receipts[e])
      BY <1>0, <3>1, <3>3, AttemptGoesOn DEF SoundEvent
    <3> QED
      BY <1>0, <3>1, <3>4, <3>5, <3>6 DEF SoundEvent, NotDenied
  <2> QED
    BY <2>1, <2>2, OneEvent
<1>6. ASSUME NEW e \in Events, RecordConversion(e) PROVE ConversionIndInv'
  <2>1. ConversionFunctions' /\ Others(e)
    BY <1>0, <1>6 DEF ConversionFunctions, RecordConversion, Do
  <2>2. SoundEvent(e)'
    <3>1. outbox[e] = "claimed" /\ doing[e] = "recording"
      BY <1>0, <1>6 DEF RecordConversion, SoundEvent, Sound
    <3>2. attempt' = attempt /\ counted' = counted /\ doing'[e] = "nothing" /\ verdict'[e] = "none"
      BY <1>0, <1>6 DEF RecordConversion, Do, ConversionFunctions
    <3>3. CASE receipts' = [receipts EXCEPT ![e] = Append(@, [attempt |-> attempt[e], outcome |-> verdict[e]])]
                 /\ outbox' = [outbox EXCEPT ![e] = Acked(verdict[e])]
      <4>1. receipts'[e] = Append(receipts[e], [attempt |-> attempt[e], outcome |-> verdict[e]])
        BY <1>0, <3>3 DEF ConversionFunctions
      <4>2. outbox'[e] \in {"pending", "delivered"}
        BY <1>0, <3>3 DEF ConversionFunctions, Acked
      <4> QED
        BY <1>0, <3>1, <3>2, <4>1, <4>2, AttemptIsRecorded DEF SoundEvent
    <3>4. CASE receipts' = receipts /\ outbox' = [outbox EXCEPT ![e] = "pending"]
      <4>1. outbox'[e] = "pending"
        BY <1>0, <3>4 DEF ConversionFunctions
      <4> QED
        BY <1>0, <3>1, <3>2, <3>4, <4>1, AttemptIsForgotten DEF SoundEvent
    <3> QED
      BY <1>6, <3>3, <3>4 DEF RecordConversion
  <2> QED
    BY <2>1, <2>2, OneEvent
<1>7. ASSUME NEW e \in Events, DieDelivering(e) \/ TurnBack(e) PROVE ConversionIndInv'
  <2>1. ConversionFunctions' /\ Others(e)
    BY <1>0, <1>7 DEF ConversionFunctions, DieDelivering, TurnBack, Do
  <2>2. SoundEvent(e)'
    <3>1. outbox[e] = "claimed" /\ outbox'[e] = "pending" /\ doing'[e] = "nothing" /\ verdict'[e] = "none"
          /\ attempt' = attempt /\ receipts' = receipts
      BY <1>0, <1>7 DEF DieDelivering, TurnBack, Do, ConversionFunctions, SoundEvent, Sound
    <3> QED
      BY <1>0, <3>1, AttemptIsForgotten DEF SoundEvent
  <2> QED
    BY <2>1, <2>2, OneEvent
<1>8. ASSUME NEW e \in Events, Withdraw(e) \/ Age(e) \/ CorrectWiring(e) PROVE ConversionIndInv'
  BY <1>8 DEF Withdraw, Age, CorrectWiring, ConversionIndInv, ConversionFunctions, SoundEvent
<1> QED
  BY <1>1, <1>2, <1>3, <1>4, <1>5, <1>6, <1>7, <1>8 DEF ConversionNext, DeliverConversion

\* The state of the delivery stays well formed: an event is claimed exactly
\* while an attempt of it runs, has an outcome exactly while it is recorded, and
\* no receipt is of an attempt that has not been made.
THEOREM ConversionTypeCorrect == ConversionSpec => []ConversionTypeOK
<1>1. ConversionIndInv => ConversionTypeOK
  BY DEF ConversionIndInv, SoundEvent, Sound, ConversionTypeOK
<1> QED
  BY <1>1, ConversionInitInv, ConversionStepInv, PTL DEF ConversionSpec

\* Whatever answers are lost, receipts not stored and processes dead, no event
\* its provider has taken is denied by its receipts once its attempt is over,
\* for any events, providers and number of troubles.
THEOREM TakenNotDenied == ConversionSpec => []ReceiptsDoNotDeny
<1>1. ConversionIndInv => ReceiptsDoNotDeny
  <2> SUFFICES ASSUME ConversionIndInv, NEW e \in counted, outbox[e] \in {"pending", "delivered"}
               PROVE  Recorded(e, {"accepted", "unknown"}) \/ Unrecorded(e)
    BY DEF ReceiptsDoNotDeny
  <2>1. e \in Events /\ SoundEvent(e)
    BY DEF ConversionIndInv, ConversionFunctions
  <2>2. Telling(receipts[e]) \/ Missing(outbox[e], attempt[e], receipts[e])
    BY <2>1 DEF SoundEvent, Sound, NotDenied
  <2> QED
    BY <2>2 DEF Telling, Missing, Recorded, Unrecorded
<1> QED
  BY <1>1, ConversionInitInv, ConversionStepInv, PTL DEF ConversionSpec

-----------------------------------------------------------------------------
(***************************************************************************)
(* The launch of advertisements.  What makes LaunchesAccounted inductive   *)
(* is that a call that launches or writes a preview holds the lock and     *)
(* that, from the moment an operation has started, the plan the call has   *)
(* read is the one its receipt was for.                                    *)
(***************************************************************************)
Candidate == [provider : {"googleAds", "metaAds"}, object : Objects, known : Knowledge]
AdsPlan == [status : {"absent", "draft", "reviewed"}, candidates : SUBSET Candidate]
Phases == {"new", "previewing", "previewed", "resolving", "checked", "executing",
           "refused", "ended", "recorded", "unrecorded", "dead"}
Call == [phase : Phases, plan : AdsPlan, hashed : AdsPlan, ready : BOOLEAN, google : BOOLEAN]

\* The types of the variables.
LaunchTypeOK ==
    /\ adsPlan \in AdsPlan
    /\ adsReceipts \subseteq [ready : BOOLEAN, plan : AdsPlan]
    /\ adsLock \in AdsCalls \cup {0}
    /\ adsCall \in [AdsCalls -> Call]
    /\ launchResults \in [AdsCalls -> [Launches -> {"none", "under way", "blocked", "sent", "failed"}]]
    /\ built \in [AdsCalls -> [Launches -> Nat]]
    /\ namedGroups \in [AdsCalls -> [Launches -> Nat]]

HoldersLock == \A c \in AdsCalls : adsCall[c].phase \in {"previewed", "executing"} => adsLock = c

CheckedReceipt ==
    \A c \in AdsCalls :
        adsCall[c].phase = "checked" => [ready |-> adsCall[c].ready, plan |-> adsCall[c].hashed] \in adsReceipts

Justified(c, l) ==
    /\ l[1] = "googleAds" /\ adsCall[c].plan.status = "reviewed"
    /\ [ready |-> TRUE, plan |-> adsCall[c].plan] \in adsReceipts

SoundLaunch(c, l) ==
    /\ launchResults[c][l] = "under way" => adsCall[c].phase \in {"executing", "dead"}
    /\ launchResults[c][l] # "none" => adsCall[c].phase \in {"executing", "recorded", "unrecorded", "dead"}
    /\ built[c][l] > 0 => launchResults[c][l] \in {"under way", "sent", "failed"}
    /\ launchResults[c][l] \in {"under way", "sent", "failed"} => Justified(c, l)
    /\ launchResults[c][l] = "sent" => built[c][l] = Len(BuildSteps(l, namedGroups[c][l]))

LaunchIndInv ==
    /\ LaunchTypeOK /\ HoldersLock /\ CheckedReceipt
    /\ \A c \in AdsCalls, l \in Launches : SoundLaunch(c, l)

-----------------------------------------------------------------------------
LEMMA CallsAreNumbered == AdsCalls \subseteq Nat \ {0}
  BY LaunchAssumption DEF AdsCalls

LEMMA LaunchInitInv == LaunchInit => LaunchIndInv
<1> SUFFICES ASSUME LaunchInit PROVE LaunchIndInv
  OBVIOUS
<1>1. LaunchTypeOK
  BY DEF LaunchInit, LaunchTypeOK, NewCall, NoAdsPlan, Call, AdsPlan, Phases
<1>2. HoldersLock /\ CheckedReceipt
  BY DEF LaunchInit, HoldersLock, CheckedReceipt, NewCall
<1>3. ASSUME NEW c \in AdsCalls, NEW l \in Launches PROVE SoundLaunch(c, l)
  BY DEF LaunchInit, SoundLaunch
<1> QED
  BY <1>1, <1>2, <1>3 DEF LaunchIndInv

\* A step that changes what one call is at.
LEMMA PhaseTyped ==
    ASSUME LaunchTypeOK, NEW c \in AdsCalls, NEW phase \in Phases, Phase(c, phase)
    PROVE  /\ adsCall' \in [AdsCalls -> Call]
           /\ adsCall'[c] = [adsCall[c] EXCEPT !.phase = phase]
           /\ \A d \in AdsCalls \ {c} : adsCall'[d] = adsCall[d]
<1>1. adsCall \in [AdsCalls -> Call] /\ adsCall[c] \in Call
  BY DEF LaunchTypeOK
<1>2. [adsCall[c] EXCEPT !.phase = phase] \in Call
  BY <1>1 DEF Call
<1>3. adsCall' = [adsCall EXCEPT ![c] = [adsCall[c] EXCEPT !.phase = phase]]
  BY DEF Phase
<1> QED
  BY <1>1, <1>2, <1>3

\* A step whose answer names some of the ad groups of one launch.
LEMMA NamedTyped ==
    ASSUME LaunchTypeOK, NEW c \in AdsCalls, NEW l \in Launches, NEW named \in Nat,
           namedGroups' = [namedGroups EXCEPT ![c][l] = named]
    PROVE  /\ namedGroups' \in [AdsCalls -> [Launches -> Nat]]
           /\ namedGroups'[c][l] = named
           /\ \A k \in Launches \ {l} : namedGroups'[c][k] = namedGroups[c][k]
           /\ \A d \in AdsCalls \ {c} : namedGroups'[d] = namedGroups[d]
<1>1. namedGroups \in [AdsCalls -> [Launches -> Nat]] /\ namedGroups[c] \in [Launches -> Nat]
  BY DEF LaunchTypeOK
<1>2. [namedGroups[c] EXCEPT ![l] = named] \in [Launches -> Nat]
  BY <1>1
<1>3. namedGroups' = [namedGroups EXCEPT ![c] = [namedGroups[c] EXCEPT ![l] = named]]
  OBVIOUS
<1> QED
  BY <1>1, <1>2, <1>3

\* A step that builds for one launch.
LEMMA BuiltTyped ==
    ASSUME LaunchTypeOK, NEW c \in AdsCalls, NEW l \in Launches, built' = [built EXCEPT ![c][l] = @ + 1]
    PROVE  /\ built' \in [AdsCalls -> [Launches -> Nat]]
           /\ built'[c][l] = built[c][l] + 1
           /\ \A k \in Launches \ {l} : built'[c][k] = built[c][k]
           /\ \A d \in AdsCalls \ {c} : built'[d] = built[d]
<1>1. built \in [AdsCalls -> [Launches -> Nat]] /\ built[c] \in [Launches -> Nat]
  BY DEF LaunchTypeOK
<1>2. [built[c] EXCEPT ![l] = @ + 1] \in [Launches -> Nat]
  BY <1>1
<1>3. built' = [built EXCEPT ![c] = [built[c] EXCEPT ![l] = @ + 1]]
  OBVIOUS
<1> QED
  BY <1>1, <1>2, <1>3

Results == {"none", "under way", "blocked", "sent", "failed"}

\* A step that changes the result of one launch.
LEMMA ResultTyped ==
    ASSUME LaunchTypeOK, NEW c \in AdsCalls, NEW l \in Launches, NEW result \in Results,
           launchResults' = [launchResults EXCEPT ![c][l] = result]
    PROVE  /\ launchResults' \in [AdsCalls -> [Launches -> Results]]
           /\ launchResults'[c][l] = result
           /\ \A k \in Launches \ {l} : launchResults'[c][k] = launchResults[c][k]
           /\ \A d \in AdsCalls \ {c} : launchResults'[d] = launchResults[d]
<1>1. launchResults \in [AdsCalls -> [Launches -> Results]] /\ launchResults[c] \in [Launches -> Results]
  BY DEF LaunchTypeOK, Results
<1>2. [launchResults[c] EXCEPT ![l] = result] \in [Launches -> Results]
  BY <1>1
<1>3. launchResults' = [launchResults EXCEPT ![c] = [launchResults[c] EXCEPT ![l] = result]]
  OBVIOUS
<1> QED
  BY <1>1, <1>2, <1>3

-----------------------------------------------------------------------------
\* A launch that a step does not touch, and one that has not started.
LEMMA UntouchedLaunch ==
    ASSUME NEW c \in AdsCalls, NEW l \in Launches, SoundLaunch(c, l), adsReceipts \subseteq adsReceipts',
           launchResults'[c][l] = launchResults[c][l], built'[c][l] = built[c][l],
           namedGroups'[c][l] = namedGroups[c][l],
           adsCall'[c].phase = adsCall[c].phase, adsCall'[c].plan = adsCall[c].plan
    PROVE  SoundLaunch(c, l)'
  BY DEF SoundLaunch, Justified, BuildSteps

LEMMA NotStarted ==
    ASSUME NEW c \in AdsCalls, NEW l \in Launches, SoundLaunch(c, l), built' = built, namedGroups' = namedGroups,
           adsCall[c].phase \notin {"executing", "recorded", "unrecorded", "dead"}, launchResults' = launchResults
    PROVE  SoundLaunch(c, l)'
  BY DEF SoundLaunch

\* A step of a call that has not started to launch: only its own record changes,
\* and the lock stays with its holder.
LEMMA BeforeLaunch ==
    ASSUME LaunchIndInv, NEW c \in AdsCalls, NEW call \in Call, adsCall' = [adsCall EXCEPT ![c] = call],
           adsCall[c].phase \notin {"executing", "recorded", "unrecorded", "dead"},
           call.phase # "executing", call.phase = "previewed" => adsLock' = c,
           call.phase = "checked" => [ready |-> call.ready, plan |-> call.hashed] \in adsReceipts',
           adsReceipts \subseteq adsReceipts', adsReceipts' \subseteq [ready : BOOLEAN, plan : AdsPlan],
           adsLock' = adsLock \/ (adsLock' = c /\ adsLock = 0) \/ (adsLock' = 0 /\ adsLock = c),
           UNCHANGED <<adsPlan, launchResults, built, namedGroups>>
    PROVE  LaunchIndInv'
<1> USE DEF LaunchIndInv
<1>1. /\ adsCall' \in [AdsCalls -> Call] /\ adsCall'[c] = call
      /\ \A d \in AdsCalls \ {c} : adsCall'[d] = adsCall[d]
  BY DEF LaunchTypeOK
<1>2. LaunchTypeOK'
  BY <1>1 DEF LaunchTypeOK
<1>3. HoldersLock'
  BY <1>1, CallsAreNumbered DEF HoldersLock
<1>4. CheckedReceipt'
  BY <1>1 DEF CheckedReceipt
<1>5. ASSUME NEW d \in AdsCalls, NEW k \in Launches PROVE SoundLaunch(d, k)'
  <2>1. CASE d = c
    BY <2>1, NotStarted
  <2>2. CASE d # c
    BY <1>1, <2>2, UntouchedLaunch
  <2> QED
    BY <2>1, <2>2
<1> QED
  BY <1>2, <1>3, <1>4, <1>5

\* A step that changes no call and no lock, and adds at most receipts.
LEMMA BesideLaunch ==
    ASSUME LaunchIndInv, adsPlan' \in AdsPlan, UNCHANGED <<adsReceipts, adsCall, launchResults, built, namedGroups>>,
           adsLock' = adsLock \/ (adsLock' = 0 /\ adsLock # 0 /\ adsCall[adsLock].phase = "dead")
    PROVE  LaunchIndInv'
<1> USE DEF LaunchIndInv
<1>1. LaunchTypeOK'
  BY DEF LaunchTypeOK
<1>2. HoldersLock' /\ CheckedReceipt'
  BY DEF HoldersLock, CheckedReceipt
<1>3. ASSUME NEW d \in AdsCalls, NEW k \in Launches PROVE SoundLaunch(d, k)'
  BY UntouchedLaunch
<1> QED
  BY <1>1, <1>2, <1>3

-----------------------------------------------------------------------------
\* The steps before the launch.
LEMMA EarlySteps ==
    ASSUME LaunchIndInv, NEW c \in AdsCalls,
           \/ StartPreview(c) \/ LockPreview(c) \/ WritePreview(c) \/ StartLive(c)
           \/ \E receipt \in adsReceipts : ReadForLaunch(c, receipt)
    PROVE  LaunchIndInv'
<1>1. adsCall \in [AdsCalls -> Call] /\ adsCall[c] \in Call /\ adsPlan \in AdsPlan
      /\ adsReceipts \subseteq [ready : BOOLEAN, plan : AdsPlan]
  BY DEF LaunchIndInv, LaunchTypeOK
<1>2. CASE StartPreview(c)
  <2> DEFINE call == [adsCall[c] EXCEPT !.phase = "previewing", !.plan = adsPlan]
  <2>1. call \in Call /\ call.phase = "previewing" /\ adsCall' = [adsCall EXCEPT ![c] = call]
    BY <1>1, <1>2 DEF StartPreview, Call, Phases
  <2> HIDE DEF call
  <2> QED
    BY <1>1, <1>2, <2>1, BeforeLaunch DEF StartPreview, NextCall
<1>3. CASE LockPreview(c)
  <2>1. CASE adsLock = 0
    <3> DEFINE call == [adsCall[c] EXCEPT !.hashed = adsPlan, !.phase = "previewed"]
    <3>1. call \in Call /\ call.phase = "previewed" /\ adsCall' = [adsCall EXCEPT ![c] = call]
      BY <1>1, <1>3, <2>1 DEF LockPreview, TakeLock, Call, Phases
    <3> HIDE DEF call
    <3> QED
      BY <1>1, <1>3, <2>1, <3>1, BeforeLaunch DEF LockPreview, TakeLock
  <2>2. CASE adsLock # 0
    <3> DEFINE call == [adsCall[c] EXCEPT !.phase = "refused"]
    <3>1. call \in Call /\ call.phase = "refused" /\ adsCall' = [adsCall EXCEPT ![c] = call]
      BY <1>1, <1>3, <2>2 DEF LockPreview, TakeLock, Phase, Call, Phases
    <3> HIDE DEF call
    <3> QED
      BY <1>1, <1>3, <2>2, <3>1, BeforeLaunch DEF LockPreview, TakeLock
  <2> QED
    BY <2>1, <2>2
<1>4. CASE WritePreview(c)
  <2> DEFINE call == [adsCall[c] EXCEPT !.phase = "ended"]
  <2>1. call \in Call /\ call.phase = "ended" /\ adsCall' = [adsCall EXCEPT ![c] = call]
    BY <1>1, <1>4 DEF WritePreview, Phase, Call, Phases
  <2>2. adsLock = c
    BY <1>4 DEF WritePreview, LaunchIndInv, HoldersLock
  <2>3. PreviewReady(adsCall[c].plan) \in BOOLEAN
    BY DEF PreviewReady
  <2>4. [ready |-> PreviewReady(adsCall[c].plan), plan |-> adsCall[c].hashed] \in [ready : BOOLEAN, plan : AdsPlan]
    BY <1>1, <2>3 DEF Call
  <2>5. adsReceipts \subseteq adsReceipts' /\ adsReceipts' \subseteq [ready : BOOLEAN, plan : AdsPlan]
    BY <1>1, <1>4, <2>4 DEF WritePreview
  <2> HIDE DEF call
  <2> QED
    BY <1>1, <1>4, <2>1, <2>2, <2>5, BeforeLaunch DEF WritePreview
<1>5. CASE StartLive(c)
  <2> DEFINE call == [adsCall[c] EXCEPT !.phase = "resolving", !.google = adsPlan.candidates # {}]
  <2>1. call \in Call /\ call.phase = "resolving" /\ adsCall' = [adsCall EXCEPT ![c] = call]
    BY <1>1, <1>5 DEF StartLive, Call, Phases
  <2> HIDE DEF call
  <2> QED
    BY <1>1, <1>5, <2>1, BeforeLaunch DEF StartLive, NextCall
<1>6. ASSUME NEW receipt \in adsReceipts, ReadForLaunch(c, receipt) PROVE LaunchIndInv'
  <2> DEFINE call == [adsCall[c] EXCEPT !.phase = "checked", !.plan = adsPlan, !.ready = receipt.ready, !.hashed = receipt.plan]
  <2>1. call \in Call /\ call.phase = "checked" /\ call.ready = receipt.ready /\ call.hashed = receipt.plan
        /\ adsCall' = [adsCall EXCEPT ![c] = call]
    BY <1>1, <1>6 DEF ReadForLaunch, Call, Phases
  <2>2. [ready |-> receipt.ready, plan |-> receipt.plan] \in adsReceipts
    BY <1>1
  <2> HIDE DEF call
  <2> QED
    BY <1>1, <1>6, <2>1, <2>2, BeforeLaunch DEF ReadForLaunch
<1> QED
  BY <1>2, <1>3, <1>4, <1>5, <1>6

\* The operations start.
LEMMA LaunchStarts ==
    ASSUME LaunchIndInv, NEW c \in AdsCalls, LockLaunch(c)
    PROVE  LaunchIndInv'
<1> USE DEF LaunchIndInv
<1>1. adsCall \in [AdsCalls -> Call] /\ adsCall[c] \in Call
  BY DEF LaunchTypeOK
<1>2. CASE adsLock # 0
  <2> DEFINE call == [adsCall[c] EXCEPT !.phase = "refused"]
  <2>1. call \in Call /\ call.phase = "refused" /\ adsCall' = [adsCall EXCEPT ![c] = call]
    BY <1>1, <1>2 DEF LockLaunch, TakeLock, Phase, Call, Phases
  <2>2. launchResults' = launchResults
    <3>1. launchResults' = [launchResults EXCEPT ![c] = launchResults[c]]
      BY <1>2 DEF LockLaunch
    <3> QED
      BY <3>1 DEF LaunchTypeOK
  <2>3. adsReceipts \subseteq [ready : BOOLEAN, plan : AdsPlan]
    BY DEF LaunchTypeOK
  <2> HIDE DEF call
  <2> QED
    BY <1>1, <1>2, <2>1, <2>2, <2>3, BeforeLaunch DEF LockLaunch, TakeLock
<1>3. CASE adsLock = 0
  <2> DEFINE call == [adsCall[c] EXCEPT !.phase = "executing"]
  <2>1. call \in Call /\ call.phase = "executing" /\ call.plan = adsCall[c].plan /\ adsCall' = [adsCall EXCEPT ![c] = call]
    BY <1>1, <1>3 DEF LockLaunch, TakeLock, Call, Phases
  <2> HIDE DEF call
  <2>2. /\ adsCall' \in [AdsCalls -> Call] /\ adsCall'[c] = call
        /\ \A d \in AdsCalls \ {c} : adsCall'[d] = adsCall[d]
    BY <1>1, <2>1
  <2>3. Started(c) \in [Launches -> Results]
    BY DEF Started, Results
  <2>4. /\ launchResults' \in [AdsCalls -> [Launches -> Results]] /\ launchResults'[c] = Started(c)
        /\ \A d \in AdsCalls \ {c} : launchResults'[d] = launchResults[d]
    BY <1>3, <2>3 DEF LockLaunch, LaunchTypeOK, Results
  <2>5. adsLock' = c /\ UNCHANGED <<adsPlan, adsReceipts, built, namedGroups>>
    BY <1>3 DEF LockLaunch, TakeLock
  <2>6. LaunchTypeOK'
    BY <2>2, <2>4, <2>5 DEF LaunchTypeOK, Results
  <2>7. HoldersLock' /\ CheckedReceipt'
    BY <1>3, <2>1, <2>2, <2>5, CallsAreNumbered DEF HoldersLock, CheckedReceipt
  <2>8. ASSUME NEW k \in Launches PROVE SoundLaunch(c, k)'
    <3>1. adsCall[c].phase = "checked" /\ SoundLaunch(c, k)
      BY DEF LockLaunch
    <3>2. launchResults[c][k] = "none" /\ ~(built[c][k] > 0)
      BY <3>1 DEF SoundLaunch
    <3>3. Started(c)[k] \in {"none", "blocked", "under way"}
      BY DEF Started
    <3>4. Started(c)[k] = "under way" => LiveReady(c) /\ k[1] = "googleAds"
      BY DEF Started
    <3>5. LiveReady(c) => /\ adsCall[c].plan.status = "reviewed"
                          /\ [ready |-> TRUE, plan |-> adsCall[c].plan] \in adsReceipts
      <4>1. [ready |-> adsCall[c].ready, plan |-> adsCall[c].hashed] \in adsReceipts /\ adsCall[c].ready \in BOOLEAN
        BY <1>1, <3>1 DEF CheckedReceipt, Call
      <4> QED
        BY <4>1 DEF LiveReady
    <3> QED
      BY <2>1, <2>2, <2>4, <2>5, <3>2, <3>3, <3>4, <3>5 DEF SoundLaunch, Justified
  <2>9. ASSUME NEW d \in AdsCalls \ {c}, NEW k \in Launches PROVE SoundLaunch(d, k)'
    BY <2>2, <2>4, <2>5, UntouchedLaunch
  <2> QED
    BY <2>6, <2>7, <2>8, <2>9
<1> QED
  BY <1>2, <1>3

\* A step of a call that launches, for which one launch has a result and what was
\* built.
LEMMA LaunchGoesOn ==
    ASSUME LaunchIndInv, NEW c \in AdsCalls, NEW l \in Launches, UnderWay(c, l), UNCHANGED <<adsPlan, adsReceipts, adsLock>>,
           NEW result \in Results, result # "none", result # "blocked",
           launchResults' = [launchResults EXCEPT ![c][l] = result],
           built' = built \/ built' = [built EXCEPT ![c][l] = @ + 1],
           NEW named \in Nat, namedGroups' = [namedGroups EXCEPT ![c][l] = named],
           result = "sent" => built'[c][l] = Len(BuildSteps(l, named)), UNCHANGED adsCall
    PROVE  LaunchIndInv'
<1> USE DEF LaunchIndInv
<1>1. /\ launchResults' \in [AdsCalls -> [Launches -> Results]] /\ launchResults'[c][l] = result
      /\ \A k \in Launches \ {l} : launchResults'[c][k] = launchResults[c][k]
      /\ \A d \in AdsCalls \ {c} : launchResults'[d] = launchResults[d]
  BY ResultTyped
<1>2. /\ built' \in [AdsCalls -> [Launches -> Nat]]
      /\ \A k \in Launches \ {l} : built'[c][k] = built[c][k]
      /\ \A d \in AdsCalls \ {c} : built'[d] = built[d]
  BY BuiltTyped DEF LaunchTypeOK
<1>6. /\ namedGroups' \in [AdsCalls -> [Launches -> Nat]] /\ namedGroups'[c][l] = named
      /\ \A k \in Launches \ {l} : namedGroups'[c][k] = namedGroups[c][k]
      /\ \A d \in AdsCalls \ {c} : namedGroups'[d] = namedGroups[d]
  BY NamedTyped
<1>3. LaunchTypeOK' /\ HoldersLock' /\ CheckedReceipt'
  BY <1>1, <1>2, <1>6 DEF LaunchTypeOK, HoldersLock, CheckedReceipt, Results
<1>4. SoundLaunch(c, l)'
  <2>1. adsCall[c].phase = "executing" /\ Justified(c, l)
    BY DEF UnderWay, SoundLaunch
  <2>2. Justified(c, l)'
    BY <2>1 DEF Justified
  <2>3. (launchResults[c][l] = "sent" => built[c][l] = Len(BuildSteps(l, namedGroups[c][l])))'
    BY <1>1, <1>6 DEF BuildSteps
  <2> QED
    BY <1>1, <2>1, <2>2, <2>3 DEF SoundLaunch, Results
<1>5. ASSUME NEW d \in AdsCalls, NEW k \in Launches, d # c \/ k # l PROVE SoundLaunch(d, k)'
  <2>1. CASE d # c
    BY <1>1, <1>2, <1>6, <2>1, UntouchedLaunch
  <2>2. CASE d = c /\ k # l
    <3>1. SoundLaunch(c, k) /\ k \in Launches \ {l}
      BY <2>2
    <3>2. /\ launchResults'[c][k] = launchResults[c][k] /\ built'[c][k] = built[c][k]
          /\ namedGroups'[c][k] = namedGroups[c][k]
      BY <1>1, <1>2, <1>6, <3>1
    <3>3. SoundLaunch(c, k)'
      BY <3>1, <3>2, UntouchedLaunch
    <3> QED
      BY <2>2, <3>3
  <2> QED
    BY <1>5, <2>1, <2>2
<1> QED
  BY <1>3, <1>4, <1>5

LEMMA BuildStepInv ==
    ASSUME LaunchIndInv, NEW c \in AdsCalls, NEW l \in Launches, BuildStep(c, l) \/ FailLaunch(c, l)
    PROVE  LaunchIndInv'
<1>1. built[c][l] \in Nat /\ launchResults[c][l] = "under way"
  BY DEF LaunchIndInv, LaunchTypeOK, BuildStep, FailLaunch, UnderWay
<1>2. CASE BuildStep(c, l)
  <2>1. /\ UnderWay(c, l) /\ UNCHANGED <<adsPlan, adsReceipts, adsLock>> /\ UNCHANGED adsCall
        /\ built' = [built EXCEPT ![c][l] = @ + 1]
    BY <1>2 DEF BuildStep
  <2>2. PICK named \in Nat :
          /\ namedGroups' = [namedGroups EXCEPT ![c][l] = named]
          /\ launchResults' = [launchResults EXCEPT ![c][l] =
                                  IF built[c][l] + 1 = Len(BuildSteps(l, named)) THEN "sent" ELSE @]
    <3>0. l[2] \in Objects
      BY DEF Launches
    <3>1. namedGroups[c][l] \in Nat /\ AdGroups[l[2]] \in Nat
      BY <3>0, LaunchAssumption DEF LaunchIndInv, LaunchTypeOK
    <3>2. 0 .. AdGroups[l[2]] \subseteq Nat
      BY <3>1
    <3> QED
      BY <1>2, <3>1, <3>2 DEF BuildStep
  <2> DEFINE result == IF built[c][l] + 1 = Len(BuildSteps(l, named)) THEN "sent" ELSE "under way"
  <2>3. result \in Results /\ result # "none" /\ result # "blocked"
    BY DEF Results
  <2>4. launchResults' = [launchResults EXCEPT ![c][l] = result]
    <3>1. CASE built[c][l] + 1 = Len(BuildSteps(l, named))
      BY <2>2, <3>1
    <3>2. CASE built[c][l] + 1 # Len(BuildSteps(l, named))
      <4>1. launchResults' = [launchResults EXCEPT ![c][l] = launchResults[c][l]]
        BY <2>2, <3>2
      <4>2. result = launchResults[c][l]
        BY <1>1, <3>2
      <4> QED
        BY <4>1, <4>2
    <3> QED
      BY <3>1, <3>2
  <2>5. built'[c][l] = built[c][l] + 1
    BY <2>1, BuiltTyped DEF LaunchIndInv
  <2>6. result = "sent" => built'[c][l] = Len(BuildSteps(l, named))
    BY <2>5
  <2> HIDE DEF result
  <2> QED
    BY <2>1, <2>2, <2>3, <2>4, <2>6, LaunchGoesOn
<1>3. CASE FailLaunch(c, l)
  <2>1. built' = built \/ built' = [built EXCEPT ![c][l] = @ + 1]
    BY <1>3 DEF FailLaunch
  <2>2. namedGroups[c][l] \in Nat /\ namedGroups' = [namedGroups EXCEPT ![c][l] = namedGroups[c][l]]
    BY <1>3 DEF FailLaunch, LaunchIndInv, LaunchTypeOK
  <2> QED
    BY <1>3, <2>1, <2>2, LaunchGoesOn DEF FailLaunch, Results
<1> QED
  BY <1>2, <1>3

\* A call that holds the lock ends or dies.
LEMMA EndLaunchInv ==
    ASSUME LaunchIndInv, NEW c \in AdsCalls, EndLaunch(c)
    PROVE  LaunchIndInv'
<1> USE DEF LaunchIndInv
<1>1. PICK phase \in {"recorded", "unrecorded"} : Phase(c, phase)
  BY DEF EndLaunch
<1>2. adsCall \in [AdsCalls -> Call] /\ adsCall[c] \in Call /\ adsCall[c].phase = "executing" /\ adsLock = c
  BY DEF LaunchTypeOK, EndLaunch, HoldersLock
<1>3. /\ adsCall' \in [AdsCalls -> Call]
      /\ adsCall'[c] = [adsCall[c] EXCEPT !.phase = phase]
      /\ \A d \in AdsCalls \ {c} : adsCall'[d] = adsCall[d]
  BY <1>1, PhaseTyped DEF Phases
<1>4. adsCall'[c].phase = phase /\ adsCall'[c].plan = adsCall[c].plan
  BY <1>2, <1>3 DEF Call
<1>5. LaunchTypeOK' /\ HoldersLock' /\ CheckedReceipt'
  BY <1>2, <1>3, <1>4 DEF EndLaunch, LaunchTypeOK, HoldersLock, CheckedReceipt
<1>6. ASSUME NEW k \in Launches PROVE SoundLaunch(c, k)'
  <2>1. launchResults[c][k] # "under way" /\ SoundLaunch(c, k)
    BY <1>2 DEF EndLaunch, UnderWay
  <2> QED
    BY <1>4, <2>1 DEF EndLaunch, SoundLaunch, Justified, BuildSteps
<1>7. ASSUME NEW d \in AdsCalls \ {c}, NEW k \in Launches PROVE SoundLaunch(d, k)'
  BY <1>3, UntouchedLaunch DEF EndLaunch
<1> QED
  BY <1>5, <1>6, <1>7

LEMMA DieLaunchingInv ==
    ASSUME LaunchIndInv, NEW c \in AdsCalls, DieLaunching(c)
    PROVE  LaunchIndInv'
<1> USE DEF LaunchIndInv
<1>1. adsCall \in [AdsCalls -> Call] /\ adsCall[c] \in Call /\ adsCall[c].phase \in {"previewed", "executing"}
  BY DEF LaunchTypeOK, DieLaunching
<1>2. /\ adsCall' \in [AdsCalls -> Call]
      /\ adsCall'[c] = [adsCall[c] EXCEPT !.phase = "dead"]
      /\ \A d \in AdsCalls \ {c} : adsCall'[d] = adsCall[d]
  BY PhaseTyped DEF Phases, DieLaunching
<1>3. adsCall'[c].phase = "dead" /\ adsCall'[c].plan = adsCall[c].plan
  BY <1>1, <1>2 DEF Call
<1>4. /\ built' \in [AdsCalls -> [Launches -> Nat]]
      /\ \A k \in Launches : built'[c][k] = built[c][k] \/ launchResults[c][k] = "under way"
      /\ \A d \in AdsCalls \ {c} : built'[d] = built[d]
  <2>1. CASE built' = built
    BY <2>1 DEF LaunchTypeOK
  <2>2. ASSUME NEW l \in Launches, UnderWay(c, l), built' = [built EXCEPT ![c][l] = @ + 1] PROVE <1>4!:
    BY <2>2, BuiltTyped DEF UnderWay
  <2> QED
    BY <2>1, <2>2 DEF DieLaunching
<1>5. LaunchTypeOK' /\ HoldersLock' /\ CheckedReceipt'
  BY <1>2, <1>3, <1>4 DEF DieLaunching, LaunchTypeOK, HoldersLock, CheckedReceipt
<1>6. ASSUME NEW k \in Launches PROVE SoundLaunch(c, k)'
  <2>1. /\ SoundLaunch(c, k) /\ launchResults' = launchResults /\ adsReceipts' = adsReceipts
        /\ namedGroups' = namedGroups
    BY DEF DieLaunching
  <2>2. CASE launchResults[c][k] = "under way"
    BY <1>3, <2>1, <2>2 DEF SoundLaunch, Justified
  <2>3. CASE launchResults[c][k] # "under way"
    <3>1. built'[c][k] = built[c][k]
      BY <1>4, <2>3
    <3>2. Len(BuildSteps(k, namedGroups[c][k]))' = Len(BuildSteps(k, namedGroups[c][k]))
      BY <2>1 DEF BuildSteps
    <3> HIDE DEF LaunchIndInv
    <3> QED
      BY <1>1, <1>3, <2>1, <2>3, <3>1, <3>2 DEF SoundLaunch, Justified
  <2> QED
    BY <2>2, <2>3
<1>7. ASSUME NEW d \in AdsCalls \ {c}, NEW k \in Launches PROVE SoundLaunch(d, k)'
  BY <1>2, <1>4, UntouchedLaunch DEF DieLaunching
<1> QED
  BY <1>5, <1>6, <1>7

-----------------------------------------------------------------------------
\* Each step keeps the invariant.
LEMMA LaunchStepInv == LaunchIndInv /\ [LaunchNext]_launchVars => LaunchIndInv'
<1> SUFFICES ASSUME LaunchIndInv, [LaunchNext]_launchVars PROVE LaunchIndInv'
  OBVIOUS
<1>0. adsPlan \in AdsPlan
  BY DEF LaunchIndInv, LaunchTypeOK
<1>1. CASE UNCHANGED launchVars
  BY <1>0, <1>1, BesideLaunch DEF launchVars
<1>2. ASSUME NEW known \in StrategyMaps, NEW providers \in SUBSET {"googleAds", "metaAds"}, DraftPlan(known, providers)
      PROVE  LaunchIndInv'
  <2>1. known \in [Objects -> Knowledge]
    BY LaunchAssumption
  <2>2. ASSUME NEW k \in providers \X Objects
        PROVE  [provider |-> k[1], object |-> k[2], known |-> known[k[2]]] \in Candidate
    BY <2>1 DEF Candidate
  <2>3. adsPlan' \in AdsPlan
    BY <1>2, <2>2 DEF DraftPlan, AdsPlan
  <2> QED
    BY <1>2, <2>3, BesideLaunch DEF DraftPlan
<1>3. CASE ReviewPlan
  <2>1. adsPlan' \in AdsPlan
    BY <1>0, <1>3 DEF ReviewPlan, AdsPlan
  <2> QED
    BY <1>3, <2>1, BesideLaunch DEF ReviewPlan
<1>4. CASE RemoveAdsLock
  BY <1>0, <1>4, BesideLaunch DEF RemoveAdsLock
<1>5. ASSUME NEW c \in AdsCalls,
             \/ StartPreview(c) \/ LockPreview(c) \/ WritePreview(c) \/ StartLive(c)
             \/ \E receipt \in adsReceipts : ReadForLaunch(c, receipt)
      PROVE  LaunchIndInv'
  BY <1>5, EarlySteps
<1>6. ASSUME NEW c \in AdsCalls, LockLaunch(c) PROVE LaunchIndInv'
  BY <1>6, LaunchStarts
<1>7. ASSUME NEW c \in AdsCalls, NEW l \in Launches, BuildStep(c, l) \/ FailLaunch(c, l) PROVE LaunchIndInv'
  BY <1>7, BuildStepInv
<1>8. ASSUME NEW c \in AdsCalls, EndLaunch(c) \/ DieLaunching(c) PROVE LaunchIndInv'
  BY <1>8, EndLaunchInv, DieLaunchingInv
<1> QED
  BY <1>1, <1>2, <1>3, <1>4, <1>5, <1>6, <1>7, <1>8 DEF LaunchNext

\* Whatever is edited, fails or dies and however calls meet, for any strategy and
\* any number of calls: operations are under way only of the call that has the
\* lock, and what was built is in the receipt of its call, if that has one, and
\* was asked for by a reviewed plan with a ready receipt.
THEOREM LaunchesAreAccounted == LaunchSpec => []LaunchesAccounted
<1>1. LaunchIndInv => LaunchesAccounted
  <2> SUFFICES ASSUME LaunchIndInv, NEW c \in AdsCalls, NEW l \in Launches
               PROVE  /\ UnderWay(c, l) => adsLock = c
                      /\ launchResults[c][l] = "sent" => built[c][l] = Len(BuildSteps(l, namedGroups[c][l]))
                      /\ built[c][l] > 0 =>
                            /\ adsCall[c].phase = "recorded" => launchResults[c][l] \in {"sent", "failed"}
                            /\ adsCall[c].phase \in {"executing", "recorded", "unrecorded", "dead"}
                            /\ l[1] = "googleAds" /\ adsCall[c].plan.status = "reviewed"
                            /\ [ready |-> TRUE, plan |-> adsCall[c].plan] \in adsReceipts
    BY DEF LaunchesAccounted
  <2>1. SoundLaunch(c, l) /\ HoldersLock
    BY DEF LaunchIndInv
  <2> QED
    BY <2>1 DEF SoundLaunch, HoldersLock, UnderWay, Justified
<1> QED
  BY <1>1, LaunchInitInv, LaunchStepInv, PTL DEF LaunchSpec

-----------------------------------------------------------------------------
(***************************************************************************)
(* The media of advertisements: a provider is given approved and previewed *)
(* media only.                                                             *)
(***************************************************************************)
Content == Bytes \cup {NoBytes}
Entry == [status : {"absent", "draft", "approved", "archived"}, hash : Content]
Operation == [asset : Assets, hash : Content]
Plan == [operations : SUBSET Operation, faulty : BOOLEAN]
Upload == [asset : Assets, bytes : Content]
Ref == [id : Nat, hash : Content]
Doings == {"none", "hashing", "hashed", "importing", "approving", "archiving", "planning", "designing",
           "uploading", "sending", "referring"}

DiskTyped ==
    /\ registry \in [Assets -> Entry] /\ source \in [Assets -> Content]
    /\ plans \subseteq Plan /\ previews \subseteq plans
    /\ refs \in [Assets -> Ref] /\ uploaded \in Seq(Upload)

WorkTyped ==
    /\ command \in [Commands -> Doings] /\ snapshot \in [Commands -> [Assets -> Entry]]
    /\ topic \in [Commands -> Assets] /\ digest \in [Commands -> Content]
    /\ granted \in [Commands -> Nat] /\ uploads \in [Commands -> SUBSET Operation]

\* What a registry calls approved was approved with the hash it has there.
VettedOnly(entries) == \A a \in Assets : entries[a].status = "approved" => <<a, entries[a].hash>> \in vetted

\* Operations of approved bytes, one for an asset.
SoundOperations(operations) ==
    /\ \A op \in operations : <<op.asset, op.hash>> \in vetted
    /\ \A op, other \in operations : op.asset = other.asset => op = other

Shown(op) == \E plan \in previews : op \in plan.operations

Given(id, a, b) == id \in DOMAIN uploaded /\ uploaded[id] = [asset |-> a, bytes |-> b]

\* What a command holds in memory.
SoundCommand(c) ==
    /\ VettedOnly(snapshot[c])
    /\ SoundOperations(uploads[c])
    /\ \A op \in uploads[c] : Shown(op)
    /\ command[c] \in {"sending", "referring"} => \A op \in Current(c) : digest[c] = op.hash
    /\ command[c] = "referring" => granted[c] # 0 /\ Given(granted[c], topic[c], digest[c])

\* What is on disk and at the provider.
SoundDisk ==
    /\ VettedOnly(registry)
    /\ \A plan \in plans : SoundOperations(plan.operations)
    /\ \A a \in Assets : refs[a] # NoRef => Given(refs[a].id, a, refs[a].hash)

SoundProvider ==
    /\ \A i \in DOMAIN uploaded :
        <<uploaded[i].asset, uploaded[i].bytes>> \in vetted /\ Shown([asset |-> uploaded[i].asset, hash |-> uploaded[i].bytes])
    /\ \A op \in creatives : Given(op.id, op.asset, op.hash)
    /\ \A link \in links : link[2] \in DOMAIN uploaded /\ uploaded[link[2]].asset = link[1]

AssetsIndInv ==
    /\ DiskTyped /\ WorkTyped
    /\ SoundDisk /\ SoundProvider
    /\ \A c \in Commands : SoundCommand(c)

\* What a command remembers, and what is only ever added to.
Memory(c) == <<command[c], snapshot[c], topic[c], digest[c], granted[c], uploads[c]>>

LEMMA UnregisteredEntry == Unregistered \in Entry /\ NoRef \in Ref
  BY DEF Unregistered, NoRef, Entry, Ref, Content

LEMMA SomeAsset == (CHOOSE a \in Assets : TRUE) \in Assets
  BY AssetsAssumption

LEMMA AssetsInitInv == AssetsInit => AssetsIndInv
<1> SUFFICES ASSUME AssetsInit PROVE AssetsIndInv
  OBVIOUS
<1>1. DiskTyped
  BY UnregisteredEntry DEF AssetsInit, DiskTyped, Content
<1>2. WorkTyped
  <2>1. [a \in Assets |-> Unregistered] \in [Assets -> Entry]
    BY UnregisteredEntry
  <2>2. PICK t \in Assets : t = CHOOSE a \in Assets : TRUE
    BY SomeAsset
  <2>3. topic = [c \in Commands |-> t]
    BY <2>2 DEF AssetsInit
  <2> QED
    BY <2>1, <2>3 DEF AssetsInit, WorkTyped, Content, Doings
<1>3. SoundDisk /\ SoundProvider
  BY DEF AssetsInit, SoundDisk, SoundProvider, VettedOnly, Unregistered
<1>4. ASSUME NEW c \in Commands PROVE SoundCommand(c)
  BY DEF AssetsInit, SoundCommand, VettedOnly, Unregistered, SoundOperations
<1> QED
  BY <1>1, <1>2, <1>3, <1>4 DEF AssetsIndInv

\* Whatever is approved, previewed and uploaded besides, a command that does
\* nothing stays sound.
LEMMA CommandKept ==
    ASSUME NEW c \in Commands, SoundCommand(c), Memory(c)' = Memory(c),
           vetted \subseteq vetted', previews \subseteq previews',
           \A i \in DOMAIN uploaded : i \in DOMAIN uploaded' /\ uploaded'[i] = uploaded[i]
    PROVE  SoundCommand(c)'
<1>1. /\ command'[c] = command[c] /\ snapshot'[c] = snapshot[c] /\ topic'[c] = topic[c]
      /\ digest'[c] = digest[c] /\ granted'[c] = granted[c] /\ uploads'[c] = uploads[c]
  BY DEF Memory
<1>2. VettedOnly(snapshot[c])'
  BY <1>1 DEF SoundCommand, VettedOnly
<1>3. SoundOperations(uploads[c])' /\ \A op \in uploads'[c] : Shown(op)'
  BY <1>1 DEF SoundCommand, SoundOperations, Shown
<1>4. Current(c)' = Current(c)
  BY <1>1 DEF Current
<1>5. Given(granted[c], topic[c], digest[c]) => Given(granted[c], topic[c], digest[c])'
  BY <1>1 DEF Given
<1> QED
  BY <1>1, <1>2, <1>3, <1>4, <1>5 DEF SoundCommand

\* A step of one command that approves, previews and uploads nothing.
LEMMA OneCommand ==
    ASSUME AssetsIndInv, NEW c \in Commands, WorkTyped', SoundCommand(c)',
           \A d \in Commands \ {c} : Memory(d)' = Memory(d),
           source' \in [Assets -> Content],
           UNCHANGED <<registry, plans, previews, refs, uploaded, creatives, links, vetted>>
    PROVE  AssetsIndInv'
<1>1. DiskTyped'
  BY DEF AssetsIndInv, DiskTyped
<1>2. SoundDisk' /\ SoundProvider'
  BY DEF AssetsIndInv, SoundDisk, SoundProvider, VettedOnly, SoundOperations, Given, Shown
<1>3. ASSUME NEW d \in Commands \ {c} PROVE SoundCommand(d)'
  BY CommandKept DEF AssetsIndInv
<1> QED
  BY <1>1, <1>2, <1>3 DEF AssetsIndInv

\* A command that ends remembers nothing.
LEMMA Forgotten ==
    ASSUME WorkTyped, NEW c \in Commands, ForgetCommand(c)
    PROVE  /\ WorkTyped' /\ SoundCommand(c)'
           /\ \A d \in Commands \ {c} : Memory(d)' = Memory(d)
<1>1. [a \in Assets |-> Unregistered] \in [Assets -> Entry] /\ (CHOOSE a \in Assets : TRUE) \in Assets
  BY UnregisteredEntry, SomeAsset
<1>2. WorkTyped'
  <2>1. PICK t \in Assets : t = CHOOSE a \in Assets : TRUE
    BY <1>1
  <2>2. topic' = [topic EXCEPT ![c] = t]
    BY <2>1 DEF ForgetCommand, About
  <2>3. topic' \in [Commands -> Assets]
    BY <2>2 DEF WorkTyped
  <2>4. snapshot' \in [Commands -> [Assets -> Entry]]
    BY <1>1 DEF WorkTyped, ForgetCommand
  <2> QED
    BY <2>3, <2>4 DEF WorkTyped, ForgetCommand, Turns, Content, Doings
<1>3. \A d \in Commands \ {c} : Memory(d)' = Memory(d)
  BY DEF WorkTyped, ForgetCommand, Turns, About, Memory
<1>4. command'[c] = "none" /\ snapshot'[c] = [a \in Assets |-> Unregistered] /\ uploads'[c] = {}
  BY DEF WorkTyped, ForgetCommand, Turns
<1>5. SoundCommand(c)'
  BY <1>4 DEF SoundCommand, VettedOnly, Unregistered, SoundOperations
<1> QED
  BY <1>2, <1>3, <1>5

\* Steps that only look.
LEMMA LookingInv ==
    ASSUME AssetsIndInv, NEW c \in Commands,
           \/ \E a \in Assets, b \in Bytes : CopySource(c, a, b)
           \/ HashSource(c) \/ ReadRegistryFor(c)
           \/ \E what \in {"planning", "designing"} : ReadForPlan(c, what)
    PROVE  AssetsIndInv'
<1>1. WorkTyped /\ DiskTyped /\ SoundCommand(c) /\ VettedOnly(registry)
  BY DEF AssetsIndInv, SoundDisk
<1>2. \/ command'[c] \notin {"sending", "referring"}
  BY <1>1 DEF CopySource, HashSource, ReadRegistryFor, ReadForImport, ReadForUpdate, ReadForPlan, Turns, WorkTyped
<1>3. WorkTyped' /\ \A d \in Commands \ {c} : Memory(d)' = Memory(d)
  <2>1. CASE \E a \in Assets, b \in Bytes : CopySource(c, a, b)
    BY <1>1, <2>1 DEF CopySource, WorkTyped, Memory, Turns, About, Doings
  <2>2. CASE HashSource(c)
    BY <1>1, <2>2 DEF HashSource, WorkTyped, DiskTyped, Memory, Turns, Doings
  <2>3. CASE ReadForImport(c)
    BY <1>1, <2>3 DEF ReadForImport, ReadRegistry, WorkTyped, DiskTyped, Memory, Turns, Doings
  <2>4. ASSUME NEW a \in Assets, NEW what \in {"approving", "archiving"}, ReadForUpdate(c, a, what)
        PROVE  <1>3!:
    BY <1>1, <2>4 DEF ReadForUpdate, ReadRegistry, WorkTyped, DiskTyped, Memory, Turns, About, Doings
  <2>5. ASSUME NEW what \in {"planning", "designing"}, ReadForPlan(c, what)
        PROVE  <1>3!:
    BY <1>1, <2>5 DEF ReadForPlan, ReadRegistry, WorkTyped, DiskTyped, Memory, Turns, Doings
  <2> QED
    BY <2>1, <2>2, <2>3, <2>4, <2>5 DEF ReadRegistryFor
<1>4. /\ source' \in [Assets -> Content]
      /\ UNCHANGED <<registry, plans, previews, refs, uploaded, creatives, links, vetted, uploads>>
  BY <1>1 DEF DiskTyped, Content, CopySource, HashSource, ReadRegistryFor, ReadForImport, ReadForUpdate, ReadForPlan,
              onDisk, atProvider
<1>5. snapshot'[c] \in {snapshot[c], registry}
  BY <1>1 DEF CopySource, HashSource, ReadRegistryFor, ReadForImport, ReadForUpdate, ReadForPlan, ReadRegistry, WorkTyped
<1>6. SoundCommand(c)'
  BY <1>1, <1>2, <1>4, <1>5 DEF SoundCommand, VettedOnly, SoundOperations, Shown
<1> QED
  BY <1>3, <1>4, <1>6, OneCommand

\* The registry is written.
LEMMA WriteRegistryInv ==
    ASSUME AssetsIndInv, NEW c \in Commands, WriteRegistry(c)
    PROVE  AssetsIndInv'
<1> DEFINE entry == NewEntry(c)
<1>1. WorkTyped /\ DiskTyped /\ SoundCommand(c) /\ topic[c] \in Assets /\ snapshot[c] \in [Assets -> Entry] /\ digest[c] \in Content
  BY DEF AssetsIndInv, WorkTyped
<1>2. entry \in Entry /\ (entry.status = "approved" => command[c] = "approving")
  <2>1. snapshot[c][topic[c]] \in Entry /\ command[c] \in {"importing", "approving", "archiving"}
    BY <1>1 DEF WriteRegistry
  <2>2. CASE command[c] = "importing"
    BY <1>1, <2>2 DEF NewEntry, Entry
  <2>3. CASE command[c] = "approving"
    BY <2>1, <2>3 DEF NewEntry, Entry
  <2>4. CASE command[c] = "archiving"
    BY <2>1, <2>4 DEF NewEntry, Entry
  <2> QED
    BY <2>1, <2>2, <2>3, <2>4
<1>3. /\ registry' = [snapshot[c] EXCEPT ![topic[c]] = entry]
      /\ vetted' = vetted \cup (IF command[c] = "approving" THEN {<<topic[c], entry.hash>>} ELSE {})
      /\ ForgetCommand(c)
      /\ UNCHANGED <<source, plans, previews, refs, uploaded, creatives, links>>
  BY DEF WriteRegistry, atProvider
<1> HIDE DEF entry
<1>4. registry' \in [Assets -> Entry] /\ VettedOnly(registry)'
  <2>1. \A a \in Assets \ {topic[c]} : registry'[a] = snapshot[c][a]
    BY <1>1, <1>3
  <2>2. registry'[topic[c]] = entry /\ registry' \in [Assets -> Entry]
    BY <1>1, <1>2, <1>3
  <2>3. entry.status = "approved" => <<topic[c], entry.hash>> \in vetted'
    BY <1>2, <1>3
  <2>4. \A a \in Assets : snapshot[c][a].status = "approved" => <<a, snapshot[c][a].hash>> \in vetted'
    BY <1>1, <1>3 DEF SoundCommand, VettedOnly
  <2> QED
    BY <2>1, <2>2, <2>3, <2>4 DEF VettedOnly
<1>5. DiskTyped' /\ WorkTyped' /\ SoundCommand(c)' /\ \A d \in Commands \ {c} : Memory(d)' = Memory(d)
  BY <1>1, <1>3, <1>4, Forgotten DEF DiskTyped
<1>6. SoundDisk' /\ SoundProvider'
  BY <1>3, <1>4 DEF AssetsIndInv, SoundDisk, SoundProvider, SoundOperations, Given, Shown
<1>7. ASSUME NEW d \in Commands \ {c} PROVE SoundCommand(d)'
  BY <1>3, <1>5, CommandKept DEF AssetsIndInv
<1> QED
  BY <1>5, <1>6, <1>7 DEF AssetsIndInv

\* An upload is planned, and previewed.
LEMMA PlanningInv ==
    ASSUME AssetsIndInv,
           \/ \E c \in Commands : \E chosen \in SUBSET Assets \ {{}} : WriteUploadPlan(c, chosen)
           \/ \E plan \in plans : PreviewUpload(plan)
    PROVE  AssetsIndInv'
<1>1. ASSUME NEW c \in Commands, NEW chosen \in SUBSET Assets, WriteUploadPlan(c, chosen) PROVE AssetsIndInv'
  <2> DEFINE operations == UploadOperations(c, chosen)
             faulty == \E a \in Listed(c) : Erroneous(c, a)
             planned == [operations |-> operations, faulty |-> faulty]
  <2>1. WorkTyped /\ DiskTyped /\ SoundCommand(c) /\ snapshot[c] \in [Assets -> Entry]
    BY DEF AssetsIndInv, WorkTyped
  <2>2. plans' = plans \cup {planned}
    BY <1>1 DEF WriteUploadPlan
  <2>3. /\ ForgetCommand(c)
        /\ UNCHANGED <<registry, source, previews, refs, uploaded, creatives, links, vetted>>
    BY <1>1 DEF WriteUploadPlan, atProvider
  <2>4. ASSUME NEW op \in operations
        PROVE  /\ op \in Operation /\ <<op.asset, op.hash>> \in vetted
               /\ op.hash = snapshot[c][op.asset].hash
    <3>1. PICK a \in Assets : op = [asset |-> a, hash |-> snapshot[c][a].hash] /\ ~Doubtful(c, a)
      BY <2>4 DEF UploadOperations, Listed
    <3>2. snapshot[c][a].hash \in Content
      BY <2>1 DEF Entry
    <3>3. snapshot[c][a].status = "approved"
      BY <3>1 DEF Doubtful
    <3> QED
      BY <2>1, <3>1, <3>2, <3>3 DEF Operation, SoundCommand, VettedOnly
  <2>5. operations \in SUBSET Operation /\ SoundOperations(operations)
    <3>1. \A op, other \in operations : op.asset = other.asset => op = other
      <4> SUFFICES ASSUME NEW op \in operations, NEW other \in operations, op.asset = other.asset PROVE op = other
        OBVIOUS
      <4>1. op.hash = other.hash /\ op \in Operation /\ other \in Operation
        BY <2>4
      <4> QED
        BY <4>1 DEF Operation
    <3> QED
      BY <2>4, <3>1 DEF SoundOperations
  <2> HIDE DEF operations
  <2>6. planned \in Plan /\ planned.operations = operations
    <3>1. faulty \in BOOLEAN
      OBVIOUS
    <3> HIDE DEF faulty
    <3> QED
      BY <2>5, <3>1 DEF Plan
  <2> HIDE DEF planned
  <2>7. DiskTyped' /\ SoundDisk' /\ SoundProvider'
    BY <2>1, <2>2, <2>3, <2>5, <2>6 DEF AssetsIndInv, DiskTyped, SoundDisk, SoundProvider, VettedOnly, SoundOperations, Given, Shown
  <2>8. WorkTyped' /\ SoundCommand(c)' /\ \A d \in Commands \ {c} : Memory(d)' = Memory(d)
    BY <2>1, <2>3, Forgotten
  <2>9. ASSUME NEW d \in Commands \ {c} PROVE SoundCommand(d)'
    BY <2>3, <2>8, CommandKept DEF AssetsIndInv
  <2> QED
    BY <2>7, <2>8, <2>9 DEF AssetsIndInv
<1>2. ASSUME NEW plan \in plans, PreviewUpload(plan) PROVE AssetsIndInv'
  <2>1. /\ previews' = previews \cup {plan}
        /\ UNCHANGED <<registry, source, plans, refs, uploaded, creatives, links, vetted>>
        /\ UNCHANGED <<command, snapshot, topic, digest, granted, uploads>>
    BY <1>2 DEF PreviewUpload, atProvider, atWork
  <2>2. DiskTyped' /\ WorkTyped' /\ SoundDisk' /\ SoundProvider'
    BY <2>1 DEF AssetsIndInv, DiskTyped, WorkTyped, SoundDisk, SoundProvider, VettedOnly, SoundOperations, Given, Shown
  <2>3. ASSUME NEW d \in Commands PROVE SoundCommand(d)'
    BY <2>1, CommandKept DEF AssetsIndInv, Memory
  <2> QED
    BY <2>2, <2>3 DEF AssetsIndInv
<1> QED
  BY <1>1, <1>2

\* An operation of an upload has its result: nothing is at hand any more.
LEMMA Resolved ==
    ASSUME WorkTyped, NEW c \in Commands, NEW op, Resolve(c, op), UNCHANGED snapshot,
           SoundCommand(c), vetted' = vetted, previews' = previews
    PROVE  WorkTyped' /\ SoundCommand(c)' /\ \A d \in Commands \ {c} : Memory(d)' = Memory(d)
<1>1. WorkTyped'
  <2>1. PICK t \in Assets : t = CHOOSE a \in Assets : TRUE
    BY SomeAsset
  <2>2. topic' = [topic EXCEPT ![c] = t]
    BY <2>1 DEF Resolve, About
  <2>3. topic' \in [Commands -> Assets]
    BY <2>2 DEF WorkTyped
  <2> QED
    BY <2>3 DEF WorkTyped, Resolve, Turns, Content, Doings
<1>2. \A d \in Commands \ {c} : Memory(d)' = Memory(d)
  BY DEF WorkTyped, Resolve, Turns, About, Memory
<1>3. command'[c] = "uploading" /\ snapshot'[c] = snapshot[c] /\ uploads'[c] \subseteq uploads[c]
  BY DEF WorkTyped, Resolve, Turns
<1>4. SoundCommand(c)'
  BY <1>3 DEF SoundCommand, VettedOnly, SoundOperations, Shown
<1> QED
  BY <1>1, <1>2, <1>4

\* Steps of an upload that give the provider nothing and write no ref.
LEMMA UploadGoesOn ==
    ASSUME AssetsIndInv, NEW c \in Commands,
           \/ \E plan \in plans : StartUpload(c, plan)
           \/ EndUpload(c) \/ DieCommand(c)
           \/ \E op \in uploads[c] : ReadSource(c, op) \/ ProviderRefuses(c, op)
    PROVE  AssetsIndInv'
<1>1. WorkTyped /\ DiskTyped /\ SoundCommand(c) /\ SoundDisk
  BY DEF AssetsIndInv
<1>2. /\ source' \in [Assets -> Content]
      /\ UNCHANGED <<registry, plans, previews, refs, uploaded, creatives, links, vetted>>
  BY <1>1 DEF DiskTyped, StartUpload, EndUpload, DieCommand, ReadSource, ProviderRefuses, onDisk, atProvider
<1>3. CASE EndUpload(c) \/ DieCommand(c)
  <2>1. ForgetCommand(c)
    BY <1>3 DEF EndUpload, DieCommand
  <2> QED
    BY <1>1, <1>2, <2>1, Forgotten, OneCommand
<1>4. ASSUME NEW plan \in plans, StartUpload(c, plan) PROVE AssetsIndInv'
  <2>1. /\ uploads' = [uploads EXCEPT ![c] = plan.operations] /\ Turns(c, "uploading")
        /\ plan \in previews /\ UNCHANGED <<snapshot, topic, digest, granted>>
    BY <1>4 DEF StartUpload
  <2>2. plan.operations \in SUBSET Operation /\ SoundOperations(plan.operations)
    BY <1>1 DEF DiskTyped, Plan, SoundDisk
  <2>3. WorkTyped' /\ \A d \in Commands \ {c} : Memory(d)' = Memory(d)
    BY <1>1, <2>1, <2>2 DEF WorkTyped, Turns, Doings, Memory
  <2>4. command'[c] = "uploading" /\ snapshot'[c] = snapshot[c] /\ uploads'[c] = plan.operations
    BY <1>1, <2>1 DEF WorkTyped, Turns
  <2>5. SoundCommand(c)'
    BY <1>1, <1>2, <2>1, <2>2, <2>4 DEF SoundCommand, VettedOnly, SoundOperations, Shown
  <2> QED
    BY <1>2, <2>3, <2>5, OneCommand
<1>5. ASSUME NEW op \in uploads[c], Resolve(c, op), UNCHANGED snapshot PROVE AssetsIndInv'
  <2>1. WorkTyped' /\ SoundCommand(c)' /\ \A d \in Commands \ {c} : Memory(d)' = Memory(d)
    BY <1>1, <1>2, <1>5, Resolved
  <2> QED
    BY <1>2, <2>1, OneCommand
<1>6. ASSUME NEW op \in uploads[c], ProviderRefuses(c, op) PROVE AssetsIndInv'
  BY <1>5, <1>6 DEF ProviderRefuses
<1>7. ASSUME NEW op \in uploads[c], ReadSource(c, op) PROVE AssetsIndInv'
  <2>1. CASE source[op.asset] # op.hash
    BY <1>5, <1>7, <2>1 DEF ReadSource
  <2>2. CASE source[op.asset] = op.hash
    <3>1. /\ digest' = [digest EXCEPT ![c] = op.hash] /\ command' = [command EXCEPT ![c] = "sending"]
          /\ topic' = [topic EXCEPT ![c] = op.asset] /\ UNCHANGED <<granted, uploads, snapshot>>
      BY <1>7, <2>2 DEF ReadSource, Turns, About
    <3>2. op \in Operation
      BY <1>1, <1>7 DEF WorkTyped
    <3>3. op.asset \in Assets /\ op.hash \in Content
      BY <3>2 DEF Operation
    <3>4. WorkTyped' /\ \A d \in Commands \ {c} : Memory(d)' = Memory(d)
      BY <1>1, <3>1, <3>3 DEF WorkTyped, Doings, Memory
    <3>5. /\ command'[c] = "sending" /\ snapshot'[c] = snapshot[c] /\ uploads'[c] = uploads[c]
          /\ digest'[c] = op.hash /\ topic'[c] = op.asset
      BY <1>1, <3>1 DEF WorkTyped
    <3>6. \A other \in Current(c)' : other = op
      BY <1>1, <1>7, <3>5 DEF Current, SoundCommand, SoundOperations
    <3>7. SoundCommand(c)'
      BY <1>1, <1>2, <3>5, <3>6 DEF SoundCommand, VettedOnly, SoundOperations, Shown
    <3> QED
      BY <1>2, <3>4, <3>7, OneCommand
  <2> QED
    BY <2>1, <2>2
<1> QED
  BY <1>3, <1>4, <1>6, <1>7

\* What was given stays given.
LEMMA GivenKept ==
    ASSUME NEW id, NEW a, NEW b, Given(id, a, b),
           \A i \in DOMAIN uploaded : i \in DOMAIN uploaded' /\ uploaded'[i] = uploaded[i]
    PROVE  Given(id, a, b)'
  BY DEF Given

\* The provider takes the bytes that the command holds.
LEMMA ProviderTakesInv ==
    ASSUME AssetsIndInv, NEW c \in Commands, NEW op \in uploads[c], ProviderTakes(c, op)
    PROVE  AssetsIndInv'
<1> DEFINE given == [asset |-> op.asset, bytes |-> digest[c]]
<1>1. WorkTyped /\ DiskTyped /\ SoundCommand(c) /\ SoundDisk /\ SoundProvider
  BY DEF AssetsIndInv
<1>2. /\ command[c] = "sending" /\ op \in Current(c) /\ uploaded' = Append(uploaded, given)
      /\ UNCHANGED <<registry, source, plans, previews, refs, creatives, links, vetted, snapshot>>
  BY DEF ProviderTakes, onDisk
<1>3. op \in Operation /\ digest[c] = op.hash /\ topic[c] = op.asset
      /\ <<op.asset, op.hash>> \in vetted /\ Shown(op)
  BY <1>1, <1>2 DEF WorkTyped, SoundCommand, SoundOperations, Current
<1>4. given \in Upload /\ given.asset = op.asset /\ given.bytes = op.hash
      /\ op = [asset |-> given.asset, hash |-> given.bytes]
  BY <1>3 DEF Operation, Upload
<1>5. given = [asset |-> topic[c], bytes |-> digest[c]]
  BY <1>3
<1> HIDE DEF given
<1>6. /\ uploaded' \in Seq(Upload) /\ Len(uploaded) \in Nat
      /\ DOMAIN uploaded = 1 .. Len(uploaded) /\ DOMAIN uploaded' = 1 .. Len(uploaded) + 1
      /\ \A i \in 1 .. Len(uploaded) : uploaded'[i] = uploaded[i]
      /\ uploaded'[Len(uploaded) + 1] = given
  BY <1>1, <1>2, <1>4 DEF DiskTyped
<1>7. \A i \in DOMAIN uploaded : i \in DOMAIN uploaded' /\ uploaded'[i] = uploaded[i]
  BY <1>6
<1>8. DiskTyped'
  BY <1>1, <1>2, <1>6 DEF DiskTyped
<1>9. SoundDisk'
  <2>1. \A a \in Assets : refs[a] # NoRef => Given(refs[a].id, a, refs[a].hash)'
    <3> SUFFICES ASSUME NEW a \in Assets, refs[a] # NoRef PROVE Given(refs[a].id, a, refs[a].hash)'
      OBVIOUS
    <3>1. Given(refs[a].id, a, refs[a].hash)
      BY <1>1 DEF SoundDisk
    <3> QED
      BY <1>2, <1>7, <3>1 DEF Given
  <2> QED
    BY <1>1, <1>2, <2>1 DEF SoundDisk, VettedOnly, SoundOperations, Given
<1>10. SoundProvider'
  <2>1. \A i \in DOMAIN uploaded' :
          <<uploaded'[i].asset, uploaded'[i].bytes>> \in vetted'
          /\ Shown([asset |-> uploaded[i].asset, hash |-> uploaded[i].bytes])'
    <3> SUFFICES ASSUME NEW i \in DOMAIN uploaded'
                 PROVE  <<uploaded'[i].asset, uploaded'[i].bytes>> \in vetted'
                        /\ \E plan \in previews' : [asset |-> uploaded'[i].asset, hash |-> uploaded'[i].bytes] \in plan.operations
      BY DEF Shown
    <3>1. CASE i \in DOMAIN uploaded
      BY <1>1, <1>2, <1>7, <3>1 DEF SoundProvider, Shown
    <3>2. CASE i = Len(uploaded) + 1
      BY <1>2, <1>3, <1>4, <1>6, <3>2 DEF Shown
    <3> QED
      BY <1>6, <3>1, <3>2
  <2>2. \A other \in creatives' : Given(other.id, other.asset, other.hash)'
    BY <1>1, <1>2, <1>7, GivenKept DEF SoundProvider
  <2>3. \A link \in links' : link[2] \in DOMAIN uploaded' /\ uploaded'[link[2]].asset = link[1]
    BY <1>1, <1>2, <1>7 DEF SoundProvider
  <2> QED
    BY <2>1, <2>2, <2>3 DEF SoundProvider
<1>11. WorkTyped' /\ SoundCommand(c)' /\ \A d \in Commands \ {c} : Memory(d)' = Memory(d)
  <2>1. CASE Resolve(c, op)
    BY <1>1, <1>2, <2>1, Resolved
  <2>2. CASE /\ command' = [command EXCEPT ![c] = "referring"] /\ granted' = [granted EXCEPT ![c] = Len(uploaded) + 1]
             /\ UNCHANGED <<topic, digest, uploads>>
    <3>1. WorkTyped' /\ \A d \in Commands \ {c} : Memory(d)' = Memory(d)
      BY <1>1, <1>2, <1>6, <2>2 DEF WorkTyped, Doings, Memory
    <3>2. command'[c] = "referring" /\ granted'[c] = Len(uploaded) + 1 /\ granted'[c] # 0
      BY <1>1, <1>6, <2>2 DEF WorkTyped
    <3>3. Given(granted[c], topic[c], digest[c])'
      BY <1>5, <1>6, <2>2, <3>2 DEF Given
    <3>4. \A other \in Current(c)' : digest'[c] = other.hash
      BY <1>1, <1>2, <2>2 DEF Current, SoundCommand
    <3>5. VettedOnly(snapshot[c])' /\ SoundOperations(uploads[c])' /\ \A other \in uploads'[c] : Shown(other)'
      BY <1>1, <1>2, <2>2 DEF SoundCommand, VettedOnly, SoundOperations, Shown
    <3> QED
      BY <3>1, <3>2, <3>3, <3>4, <3>5 DEF SoundCommand
  <2> QED
    BY <2>1, <2>2 DEF ProviderTakes, Turns
<1>12. ASSUME NEW d \in Commands \ {c} PROVE SoundCommand(d)'
  BY <1>2, <1>7, <1>11, CommandKept DEF AssetsIndInv
<1> QED
  BY <1>8, <1>9, <1>10, <1>11, <1>12 DEF AssetsIndInv

LEMMA WriteRefInv ==
    ASSUME AssetsIndInv, NEW c \in Commands, NEW op \in uploads[c], WriteRef(c, op)
    PROVE  AssetsIndInv'
<1> DEFINE ref == [id |-> granted[c], hash |-> op.hash]
<1>1. WorkTyped /\ DiskTyped /\ SoundCommand(c) /\ SoundDisk /\ SoundProvider
  BY DEF AssetsIndInv
<1>2. /\ command[c] = "referring" /\ op \in Current(c) /\ Resolve(c, op)
      /\ refs' = [refs EXCEPT ![op.asset] = ref]
      /\ UNCHANGED <<registry, source, plans, previews, uploaded, creatives, links, vetted, snapshot>>
  BY DEF WriteRef, atProvider
<1>3. op \in Operation /\ digest[c] = op.hash /\ topic[c] = op.asset /\ Given(granted[c], topic[c], digest[c])
  BY <1>1, <1>2 DEF WorkTyped, SoundCommand, Current
<1>4. ref \in Ref /\ Given(ref.id, op.asset, ref.hash) /\ op.asset \in Assets
  BY <1>1, <1>3 DEF Operation, Ref, WorkTyped
<1> HIDE DEF ref
<1>5. refs' \in [Assets -> Ref] /\ refs'[op.asset] = ref /\ \A a \in Assets \ {op.asset} : refs'[a] = refs[a]
  BY <1>1, <1>2, <1>4 DEF DiskTyped
<1>6. \A a \in Assets : refs'[a] # NoRef => Given(refs'[a].id, a, refs'[a].hash)
  BY <1>1, <1>4, <1>5 DEF SoundDisk
<1>7. DiskTyped' /\ SoundDisk' /\ SoundProvider'
  BY <1>1, <1>2, <1>5, <1>6 DEF DiskTyped, SoundDisk, SoundProvider, VettedOnly, SoundOperations, Given, Shown
<1>8. WorkTyped' /\ SoundCommand(c)' /\ \A d \in Commands \ {c} : Memory(d)' = Memory(d)
  BY <1>1, <1>2, Resolved
<1>9. ASSUME NEW d \in Commands \ {c} PROVE SoundCommand(d)'
  BY <1>2, <1>8, CommandKept DEF AssetsIndInv
<1> QED
  BY <1>7, <1>8, <1>9 DEF AssetsIndInv

\* Creatives and links refer to what the refs on disk name.
LEMMA ReferringInv ==
    ASSUME AssetsIndInv,
           \/ \E c \in Commands : \E chosen \in SUBSET Assets \ {{}} : WriteCreativePlan(c, chosen)
           \/ \E a \in Assets : LinkCampaign(a)
           \/ \E a \in Assets : \E b \in Bytes : ReplaceSource(a, b)
    PROVE  AssetsIndInv'
<1>1. ASSUME NEW c \in Commands, NEW chosen \in SUBSET Assets, WriteCreativePlan(c, chosen) PROVE AssetsIndInv'
  <2>1. WorkTyped /\ SoundCommand(c) /\ SoundDisk /\ DiskTyped
    BY DEF AssetsIndInv
  <2>2. /\ creatives' = creatives \cup CreativeOperations(c, chosen) /\ ForgetCommand(c)
        /\ UNCHANGED <<registry, source, plans, previews, refs, uploaded, links, vetted>>
    BY <1>1 DEF WriteCreativePlan, onDisk
  <2>3. \A op \in CreativeOperations(c, chosen) : Given(op.id, op.asset, op.hash)
    <3> SUFFICES ASSUME NEW op \in CreativeOperations(c, chosen) PROVE Given(op.id, op.asset, op.hash)
      OBVIOUS
    <3>1. PICK a \in Assets : /\ op = [asset |-> a, id |-> refs[a].id, hash |-> snapshot[c][a].hash]
                              /\ refs[a] # NoRef /\ refs[a].hash = snapshot[c][a].hash
      BY DEF CreativeOperations, Listed
    <3> QED
      BY <2>1, <3>1 DEF SoundDisk
  <2>4. WorkTyped' /\ SoundCommand(c)' /\ \A d \in Commands \ {c} : Memory(d)' = Memory(d)
    BY <2>1, <2>2, Forgotten
  <2>5. DiskTyped' /\ SoundDisk' /\ SoundProvider'
    BY <2>1, <2>2, <2>3 DEF AssetsIndInv, DiskTyped, SoundDisk, SoundProvider, VettedOnly, SoundOperations, Given, Shown
  <2>6. ASSUME NEW d \in Commands \ {c} PROVE SoundCommand(d)'
    BY <2>2, <2>4, CommandKept DEF AssetsIndInv
  <2> QED
    BY <2>4, <2>5, <2>6 DEF AssetsIndInv
<1>2. ASSUME NEW a \in Assets,
             LinkCampaign(a) \/ \E b \in Bytes : ReplaceSource(a, b)
      PROVE  AssetsIndInv'
  <2>1. /\ UNCHANGED <<registry, plans, previews, refs, uploaded, creatives, vetted>>
        /\ UNCHANGED <<command, snapshot, topic, digest, granted, uploads>>
    BY <1>2 DEF LinkCampaign, ReplaceSource, onDisk, atProvider, atWork
  <2>2. source' \in [Assets -> Content]
    BY <1>2 DEF LinkCampaign, ReplaceSource, onDisk, AssetsIndInv, DiskTyped, Content
  <2>3. links' = links \/ (refs[a] # NoRef /\ links' = links \cup {<<a, refs[a].id>>})
    BY <1>2 DEF LinkCampaign, ReplaceSource, atProvider
  <2>4. refs[a] # NoRef => refs[a].id \in DOMAIN uploaded /\ uploaded[refs[a].id].asset = a
    <3>1. refs[a] # NoRef => Given(refs[a].id, a, refs[a].hash)
      BY DEF AssetsIndInv, SoundDisk
    <3> QED
      BY <3>1 DEF Given
  <2>5. DiskTyped' /\ WorkTyped' /\ SoundDisk' /\ SoundProvider'
    BY <2>1, <2>2, <2>3, <2>4 DEF AssetsIndInv, DiskTyped, WorkTyped, SoundDisk, SoundProvider, VettedOnly, SoundOperations, Given, Shown
  <2>6. ASSUME NEW d \in Commands PROVE SoundCommand(d)'
    BY <2>1, CommandKept DEF AssetsIndInv, Memory
  <2> QED
    BY <2>5, <2>6 DEF AssetsIndInv
<1> QED
  BY <1>1, <1>2

LEMMA AssetsStepInv == AssetsIndInv /\ [AssetsNext]_assetVars => AssetsIndInv'
<1> SUFFICES ASSUME AssetsIndInv, [AssetsNext]_assetVars PROVE AssetsIndInv'
  OBVIOUS
<1>1. CASE UNCHANGED assetVars
  <2>1. /\ UNCHANGED <<registry, source, plans, previews, refs, uploaded, creatives, links, vetted>>
        /\ UNCHANGED <<command, snapshot, topic, digest, granted, uploads>>
    BY <1>1 DEF assetVars
  <2>2. DiskTyped' /\ WorkTyped' /\ SoundDisk' /\ SoundProvider'
    BY <2>1 DEF AssetsIndInv, DiskTyped, WorkTyped, SoundDisk, SoundProvider, VettedOnly, SoundOperations, Given, Shown
  <2>3. ASSUME NEW d \in Commands PROVE SoundCommand(d)'
    BY <2>1, CommandKept DEF AssetsIndInv, Memory
  <2> QED
    BY <2>2, <2>3 DEF AssetsIndInv
<1>2. ASSUME NEW c \in Commands,
             \/ \E a \in Assets, b \in Bytes : CopySource(c, a, b)
             \/ HashSource(c) \/ ReadRegistryFor(c)
             \/ \E what \in {"planning", "designing"} : ReadForPlan(c, what)
      PROVE  AssetsIndInv'
  BY <1>2, LookingInv
<1>3. ASSUME NEW c \in Commands, WriteRegistry(c) PROVE AssetsIndInv'
  BY <1>3, WriteRegistryInv
<1>4. ASSUME NEW c \in Commands, UploadStep(c) \/ DieCommand(c) PROVE AssetsIndInv'
  BY <1>4, UploadGoesOn, ProviderTakesInv, WriteRefInv DEF UploadStep
<1>5. ASSUME NEW c \in Commands, NEW chosen \in SUBSET Assets \ {{}},
             WriteUploadPlan(c, chosen) \/ WriteCreativePlan(c, chosen)
      PROVE  AssetsIndInv'
  BY <1>5, PlanningInv, ReferringInv
<1>6. ASSUME NEW plan \in plans, PreviewUpload(plan) PROVE AssetsIndInv'
  BY <1>6, PlanningInv
<1>7. ASSUME NEW a \in Assets, LinkCampaign(a) \/ \E b \in Bytes : ReplaceSource(a, b) PROVE AssetsIndInv'
  BY <1>7, ReferringInv
<1> QED
  BY <1>1, <1>2, <1>3, <1>4, <1>5, <1>6, <1>7 DEF AssetsNext

\* Whatever commands overlap and whoever replaces a file, for any assets: the
\* provider was given what somebody approved and a dry run showed, a creative is
\* made of the bytes its plan names, and a link is to an upload of its asset.
THEOREM MediaAsApproved == AssetsSpec => []AssetsAsApproved
<1>1. AssetsIndInv => AssetsAsApproved
  BY DEF AssetsIndInv, SoundProvider, Given, Shown, AssetsAsApproved
<1> QED
  BY <1>1, AssetsInitInv, AssetsStepInv, PTL DEF AssetsSpec
=============================================================================
