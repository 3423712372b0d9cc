-------------------------- MODULE ConversionDelivery --------------------------
(***************************************************************************)
(* Conversions on their way to an advertising or analytics provider.  An   *)
(* event is published with the business transaction; the host's worker     *)
(* (external) claims it, numbers the attempt and calls the subscriber,     *)
(* which checks age and permission, sends the event through the transport  *)
(* of its provider, records a receipt, and only then returns, or throws to *)
(* be tried again under the same event identity.                           *)
(*                                                                         *)
(* The worker renews its claim: an attempt of an event starts when the one *)
(* before it is over, or its process dead.                                 *)
(***************************************************************************)
EXTENDS Naturals, SequencesExt

CONSTANTS
    Events,
    ProviderOf,     \* of each event: "meta", "google-ads", "data-manager" or "ga4"
    Unmapped,       \* events the configuration of their transport skips or refuses
    Wirings,        \* how the host may start out: for each event "right", its route
                    \* leads to the subscriber of another binding, or the settings of
                    \* its Google Ads transport are such that no upload is made
    MaxTroubles     \* bound: answers that do not conclude, checks that throw,
                    \* receipts that are not stored, processes that die

ASSUME ConversionAssumption ==
    /\ ProviderOf \in [Events -> {"meta", "google-ads", "data-manager", "ga4"}]
    /\ Unmapped \subseteq Events
    /\ Wirings \subseteq [Events -> {"right", "route", "settings"}]
    /\ \A wires \in Wirings, e \in Events : wires[e] = "settings" => ProviderOf[e] = "google-ads"
    /\ MaxTroubles \in Nat

VARIABLES
    outbox,     \* of each event: "absent", "pending", "claimed" or "delivered"
    attempt,    \* number of its last attempt
    doing,      \* where the attempt is
    verdict,    \* the outcome it is about to record
    receipts,   \* what recordReceipt stored of it
    counted,    \* events that their provider has taken
    allowed,    \* what the host answers to isDeliveryAllowed
    aged,       \* events past the window of their destination
    wiring,     \* how the host is set up for each event
    troubles

conversionVars == <<outbox, attempt, doing, verdict, receipts, counted, allowed, aged, wiring, troubles>>

ConversionTypeOK ==
    \A e \in Events :
        /\ (outbox[e] = "claimed") = (doing[e] # "nothing")
        /\ (doing[e] = "recording") = (verdict[e] # "none")
        /\ \A i \in DOMAIN receipts[e] : receipts[e][i].attempt <= attempt[e]

ConversionInit ==
    /\ outbox = [e \in Events |-> "absent"]
    /\ attempt = [e \in Events |-> 0]
    /\ doing = [e \in Events |-> "nothing"]
    /\ verdict = [e \in Events |-> "none"]
    /\ receipts = [e \in Events |-> <<>>]
    /\ counted = {} /\ aged = {} /\ allowed = Events
    /\ wiring \in Wirings
    /\ troubles = 0

Do(e, d, v) == doing' = [doing EXCEPT ![e] = d] /\ verdict' = [verdict EXCEPT ![e] = v]
Trouble == troubles < MaxTroubles /\ troubles' = troubles + 1

\* The transaction commits with the event in it; another one with its key
\* leaves the outbox as it is.
PublishConversion(e) ==
    /\ outbox[e] = "absent"
    /\ outbox' = [outbox EXCEPT ![e] = "pending"]
    /\ UNCHANGED <<attempt, doing, verdict, receipts, counted, allowed, aged, wiring, troubles>>

StartAttempt(e) ==
    /\ outbox[e] = "pending"
    /\ outbox' = [outbox EXCEPT ![e] = "claimed"]
    /\ attempt' = [attempt EXCEPT ![e] = @ + 1]
    /\ Do(e, "checking", "none")
    /\ UNCHANGED <<receipts, counted, allowed, aged, wiring, troubles>>

\* What is not of the subscriber's binding it refuses before anything else: it
\* throws and records nothing.
TurnBack(e) ==
    /\ doing[e] = "checking" /\ wiring[e] = "route"
    /\ Trouble
    /\ outbox' = [outbox EXCEPT ![e] = "pending"]
    /\ Do(e, "nothing", "none")
    /\ UNCHANGED <<attempt, receipts, counted, allowed, aged, wiring>>

\* Age comes first, then permission, what the transport makes of the event, and
\* last its settings, an error of which is not known to be one.
CheckDelivery(e) ==
    /\ doing[e] = "checking" /\ wiring[e] # "route"
    /\ \/ e \in aged /\ Do(e, "recording", "rejected") /\ UNCHANGED troubles
       \/ e \notin aged /\ e \notin allowed /\ Do(e, "recording", "suppressed") /\ UNCHANGED troubles
       \/ /\ e \in (Unmapped \cap allowed) \ aged
          /\ \E v \in {"suppressed", "rejected"} : Do(e, "recording", v)
          /\ UNCHANGED troubles
       \/ /\ e \in allowed \ (Unmapped \cup aged)
          /\ IF wiring[e] = "settings" THEN Do(e, "recording", "unknown") /\ Trouble
                                       ELSE Do(e, "sending", "none") /\ UNCHANGED troubles
    /\ UNCHANGED <<outbox, attempt, receipts, counted, allowed, aged, wiring>>

\* What a provider may answer: it confirms the event, answers without confirming
\* it, refuses the payload or the credential, is too busy, or is not heard.
\* Google Ads may also report an error next to a result, or none it names.
ProviderAnswers(e) ==
    {"confirmed", "unconfirmed", "refused", "unauthorized", "busy", "lost"}
        \cup (IF ProviderOf[e] = "google-ads" THEN {"mixed"} ELSE {})

\* Whether the provider has the event after the answer.  Google Ads refuses an
\* event it has.
Taken(e, answer) ==
    CASE answer = "confirmed" -> {TRUE}
      [] answer \in {"refused", "unauthorized"} -> {FALSE}
      [] OTHER -> BOOLEAN

\* The kind of the error a transport throws, "none" for an answer it accepts.
\* An acknowledged GA4 request is all that GA4 offers.
FailureKind(e, answer) ==
    CASE answer = "confirmed" -> "none"
      [] answer = "unconfirmed" -> IF ProviderOf[e] = "ga4" THEN "none" ELSE "uncertain"
      [] answer = "unauthorized" -> IF ProviderOf[e] = "data-manager" THEN "retryable" ELSE "permanent"
      [] answer = "refused" -> "permanent"
      [] answer = "busy" -> "retryable"
      [] OTHER -> "uncertain"

\* mutant: an event that is tried again counts as rejected meanwhile
RetriedRejected(kind) == IF kind = "none" THEN "accepted" ELSE IF kind = "uncertain" THEN "unknown" ELSE "rejected"

OutcomeOf(kind) ==
    CASE kind = "none" -> "accepted"
      [] kind = "permanent" -> "rejected"
      [] OTHER -> "unknown"

SendConversion(e) ==
    /\ doing[e] = "sending"
    /\ \E answer \in ProviderAnswers(e) : \E taken \in Taken(e, answer) :
        /\ Do(e, "recording", OutcomeOf(FailureKind(e, answer)))
        /\ counted' = IF taken THEN counted \cup {e} ELSE counted
        /\ IF OutcomeOf(FailureKind(e, answer)) = "unknown" THEN Trouble ELSE UNCHANGED troubles
    /\ UNCHANGED <<outbox, attempt, receipts, allowed, aged, wiring>>

\* mutant: the subscriber returns whatever it recorded
AckedAnyway(outcome) == "delivered"

\* A failure that is not permanent is thrown, and the event tried again.
Acked(outcome) == IF outcome = "unknown" THEN "pending" ELSE "delivered"

\* recordReceipt, and the end of the attempt.  When it fails the event is tried
\* again and the outcome forgotten.
RecordConversion(e) ==
    /\ doing[e] = "recording"
    /\ \/ /\ receipts' = [receipts EXCEPT ![e] = Append(@, [attempt |-> attempt[e], outcome |-> verdict[e]])]
          /\ outbox' = [outbox EXCEPT ![e] = Acked(verdict[e])]
          /\ UNCHANGED troubles
       \/ /\ Trouble
          /\ outbox' = [outbox EXCEPT ![e] = "pending"]
          /\ UNCHANGED receipts
    /\ Do(e, "nothing", "none")
    /\ UNCHANGED <<attempt, counted, allowed, aged, wiring>>

\* The process dies, and the claim is recovered.
DieDelivering(e) ==
    /\ outbox[e] = "claimed"
    /\ Trouble
    /\ outbox' = [outbox EXCEPT ![e] = "pending"]
    /\ Do(e, "nothing", "none")
    /\ UNCHANGED <<attempt, receipts, counted, allowed, aged, wiring>>

Withdraw(e) ==
    /\ e \in allowed
    /\ allowed' = allowed \ {e}
    /\ UNCHANGED <<outbox, attempt, doing, verdict, receipts, counted, aged, wiring, troubles>>

\* The host is started anew with its route or its settings put right.
CorrectWiring(e) ==
    /\ wiring[e] # "right" /\ doing[e] = "nothing"
    /\ wiring' = [wiring EXCEPT ![e] = "right"]
    /\ UNCHANGED <<outbox, attempt, doing, verdict, receipts, counted, allowed, aged, troubles>>

Age(e) ==
    /\ e \notin aged
    /\ aged' = aged \cup {e}
    /\ UNCHANGED <<outbox, attempt, doing, verdict, receipts, counted, allowed, wiring, troubles>>

DeliverConversion(e) ==
    StartAttempt(e) \/ TurnBack(e) \/ CheckDelivery(e) \/ SendConversion(e) \/ RecordConversion(e)

ConversionNext ==
    \E e \in Events :
        \/ PublishConversion(e) \/ DeliverConversion(e) \/ DieDelivering(e)
        \/ Withdraw(e) \/ Age(e) \/ CorrectWiring(e)

\* The worker tries what is pending and ends what it tries.
ConversionFairness == \A e \in Events : WF_conversionVars(DeliverConversion(e))

ConversionSpec == ConversionInit /\ [][ConversionNext]_conversionVars /\ ConversionFairness

-----------------------------------------------------------------------------
Recorded(e, outcomes) == \E i \in DOMAIN receipts[e] : receipts[e][i].outcome \in outcomes
Unrecorded(e) == \E n \in 1 .. attempt[e] : \A i \in DOMAIN receipts[e] : receipts[e][i].attempt # n

\* The receipts never deny an event its provider has taken: once an attempt of
\* it is over one of them says accepted or unknown, or the number of an attempt
\* is missing, although the last may say that the event was rejected as a
\* duplicate, was too old or no longer permitted.
ReceiptsDoNotDeny ==
    \A e \in counted : outbox[e] \in {"pending", "delivered"} => Recorded(e, {"accepted", "unknown"}) \/ Unrecorded(e)

\* Every event that was published is delivered in the end, and its last receipt
\* says that it was accepted, suppressed or rejected; but one that the host is not
\* set up for is tried for as long as that lasts.
ConversionsConcluded ==
    \A e \in Events :
        outbox[e] # "absent" /\ wiring[e] = "right" =>
            /\ outbox[e] = "delivered"
            /\ receipts[e] # <<>> /\ Last(receipts[e]).outcome \in {"accepted", "suppressed", "rejected"}
ConversionsConclude == []<>ConversionsConcluded
=============================================================================
