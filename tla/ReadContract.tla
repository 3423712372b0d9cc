---------------------------- MODULE ReadContract ----------------------------
(***************************************************************************)
(* What the hosted read runtime promises the client that submitted a read, *)
(* with no workers, leases, dispatches or retries: a submitted read gets   *)
(* one verdict, the verdict never changes, a success publishes the value   *)
(* that was stored for the read, and a stored value is never replaced.     *)
(***************************************************************************)
CONSTANTS Reads, Values, Reasons, None

VARIABLES
    verdict,    \* the client's view: "unknown", "open", a value or a reason
    stored      \* the value stored for each read, or None

vars == <<verdict, stored>>

Answered(r) == verdict[r] \in Values \cup Reasons

TypeOK ==
    /\ verdict \in [Reads -> Values \cup Reasons \cup {"unknown", "open"}]
    /\ stored \in [Reads -> Values \cup {None}]

Init ==
    /\ verdict = [r \in Reads |-> "unknown"]
    /\ stored = [r \in Reads |-> None]

Submit(r) ==
    /\ verdict[r] = "unknown"
    /\ verdict' = [verdict EXCEPT ![r] = "open"]
    /\ UNCHANGED stored

\* A value may be stored late, for a read that has failed in the meantime.
Store(r, v) ==
    /\ verdict[r] # "unknown"
    /\ stored[r] = None
    /\ stored' = [stored EXCEPT ![r] = v]
    /\ UNCHANGED verdict

Settle(r) ==
    /\ verdict[r] = "open"
    /\ \E v \in ({stored[r]} \ {None}) \cup Reasons :
          verdict' = [verdict EXCEPT ![r] = v]
    /\ UNCHANGED stored

Next == \E r \in Reads : Submit(r) \/ Settle(r) \/ \E v \in Values : Store(r, v)

Safety == Init /\ [][Next]_vars

Spec == Safety /\ \A r \in Reads : WF_vars(Settle(r))
=============================================================================
