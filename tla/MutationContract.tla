-------------------------- MODULE MutationContract --------------------------
(***************************************************************************)
(* What a controlled provider mutation promises its operator, however many *)
(* processes apply, recover and verify it and whichever of them die:       *)
(*   - an approved plan reaches the provider at most once;                 *)
(*   - the requests on one target exclude each other: the next one waits   *)
(*     until the effect of the last one has been observed;                 *)
(*   - what is reported of a request is what the provider answered, or     *)
(*     that nobody knows; a report is never taken back.                    *)
(***************************************************************************)
CONSTANTS Plans, Answers, Unknown, None

VARIABLES
    request,    \* "none", "sent" or "observed", for each plan
    answer,     \* what the provider answered, when it did
    report      \* what the operator has been told

cvars == <<request, answer, report>>

Init ==
    /\ request = [p \in Plans |-> "none"]
    /\ answer  = [p \in Plans |-> None]
    /\ report  = [p \in Plans |-> None]

Send(p) ==
    /\ request[p] = "none"
    /\ \A q \in Plans : request[q] # "sent"
    /\ request' = [request EXCEPT ![p] = "sent"]
    /\ UNCHANGED <<answer, report>>

Answer(p) ==
    /\ request[p] = "sent"
    /\ answer[p] = None
    /\ \E a \in Answers \cup {Unknown} : answer' = [answer EXCEPT ![p] = a]
    /\ UNCHANGED <<request, report>>

\* A recovery may give up on an answer that was given and lost.
Report(p) ==
    /\ report[p] = None
    /\ \E r \in {answer[p], Unknown} \ {None} : report' = [report EXCEPT ![p] = r]
    /\ UNCHANGED <<request, answer>>

\* A plan may also be closed without a request: its attempt died before one.
Observe(p) ==
    /\ report[p] # None
    /\ request[p] # "observed"
    /\ request' = [request EXCEPT ![p] = "observed"]
    /\ UNCHANGED <<answer, report>>

Next == \E p \in Plans : Send(p) \/ Answer(p) \/ Report(p) \/ Observe(p)

Spec == Init /\ [][Next]_cvars
=============================================================================
