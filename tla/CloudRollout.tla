---------------------------- MODULE CloudRollout ----------------------------
(***************************************************************************)
(* Rolling out a Cloudflare target: DNS records, queues, workers and their *)
(* schedules are planned from an inventory and applied, each focus under a *)
(* lease of its own (CloudApply), again and again.  Unlike that of AWS,    *)
(* this apply goes on after an operation that failed.                      *)
(*                                                                         *)
(* A DNS record is its name (with zone and type) and its value (with TTL,  *)
(* proxying and priority); its id is its place in the list, as the code    *)
(* deletes none.  A worker is uploaded, routed, bound and scheduled; its   *)
(* plan has no no-op but for routes and schedules.  Secrets resolve, and a *)
(* script is the one that was reviewed.                                    *)
(***************************************************************************)
EXTENDS Naturals, Sequences, SequencesExt

CONSTANTS
    EntryOrder,     \* configured DNS entries, in order
    EntryName, EntryValues,     \* of each its name, and its values in order
    QueueOrder,     \* names of queues and dead-letter queues, without repetition
    WorkerOrder,    \* configured workers, in order
    WithSource,     \* the workers with a script in the project
    Routes,         \* of each worker its route patterns
    Producers, Consumers,       \* of each worker the queues it sends to and receives from
    Variables, Secrets,         \* of each worker the names of its bindings
    Crons,          \* of each worker its set of schedules
    RouteZoned,     \* patterns whose zone is configured by its id
    Free,           \* what a route or a queue without a worker belongs to
    Starts,         \* what is managed, and what the account may hold at first
    StrangeRecords, \* DNS records another tool may add
    MaxStrangeRecords, MaxFlareSetbacks     \* bounds

Focuses == {"dns", "queues", "workers", "cron"}

IsList(s) == s \in Seq(ToSet(s))

\* What an account may hold at first.
IsAccount(r) ==
    /\ r = [records |-> r.records, queues |-> r.queues, scripts |-> r.scripts, routes |-> r.routes,
            consumers |-> r.consumers, bindings |-> r.bindings, crons |-> r.crons]
    /\ IsList(r.records)

ASSUME FlareAssumption ==
    /\ MaxStrangeRecords \in Nat /\ MaxFlareSetbacks \in Nat
    /\ IsList(EntryOrder) /\ IsList(QueueOrder) /\ IsList(WorkerOrder)
    /\ \A e \in ToSet(EntryOrder) : IsList(EntryValues[e]) /\ EntryValues[e] # <<>>
    /\ \A w \in ToSet(WorkerOrder) :
        \A s \in {Routes[w], Producers[w], Consumers[w], Variables[w], Secrets[w]} : IsList(s)
    /\ \A start \in Starts : IsAccount(start.remote) /\ start.managed \subseteq Focuses

VARIABLES
    managed,    \* the focuses somebody plans and applies
    remote,     \* what the Cloudflare account holds
    flareStage, \* of each focus: "idle", "planned" or "applying"
    flarePlan,  \* its last plan
    flareTodo,  \* the operations it still has to try
    strangeRecords, flareSetbacks

flareWork == <<flareStage, flarePlan, flareTodo>>
flareVars == <<managed, remote, flareWork, strangeRecords, flareSetbacks>>

Patterns == UNION {ToSet(Routes[w]) : w \in ToSet(WorkerOrder)}
\* The settings and secrets a worker is to be given.
Bound(w) == ToSet(Producers[w]) \cup ToSet(Variables[w]) \cup ToSet(Secrets[w])

RolloutInit ==
    /\ \E start \in Starts : managed = start.managed /\ remote = start.remote
    /\ flareStage = [f \in Focuses |-> "idle"]
    /\ flarePlan = [f \in Focuses |-> <<>>]
    /\ flareTodo = [f \in Focuses |-> <<>>]
    /\ strangeRecords = 0 /\ flareSetbacks = 0

Each(order, operations(_)) == FlattenSeq([i \in DOMAIN order |-> operations(order[i])])

-----------------------------------------------------------------------------
(***************************************************************************)
(* Plans.                                                                  *)
(***************************************************************************)
DnsOperation(action, e, value, id) == [action |-> action, name |-> EntryName[e], value |-> value, id |-> id]

Matching(e) == {id \in DOMAIN remote.records : remote.records[id].name = EntryName[e]}
Observed(e, value) == \E id \in Matching(e) : remote.records[id].value = value

\* mutant: an entry of several values updates the one record of its name
UpdatesAnyEntry(e) == Cardinality(Matching(e)) = 1

\* A record is updated when it is the only one of its name and so is the value.
Updates(e) == Cardinality(Matching(e)) = 1 /\ Len(EntryValues[e]) = 1

DnsValue(e, value) ==
    IF Observed(e, value) THEN DnsOperation("no-op", e, value, 0)
    ELSE IF Updates(e) THEN DnsOperation("update", e, value, CHOOSE id \in Matching(e) : TRUE)
    ELSE DnsOperation("create", e, value, 0)

DnsPlan ==
    Each(EntryOrder, LAMBDA e : [i \in DOMAIN EntryValues[e] |-> DnsValue(e, EntryValues[e][i])])

QueuePlan ==
    [i \in DOMAIN QueueOrder |->
        [action |-> IF QueueOrder[i] \in remote.queues THEN "no-op" ELSE "create", queue |-> QueueOrder[i]]]

WorkerOperation(w, action, kind, of) == [action |-> action, kind |-> kind, worker |-> w, of |-> of]
Planned(w, kind, order) == [i \in DOMAIN order |-> WorkerOperation(w, "planned", kind, order[i])]

ScriptOperation(w) ==
    WorkerOperation(w, IF w \in WithSource THEN "planned"
                       ELSE IF w \in remote.scripts THEN "no-op" ELSE "blocked", "script", w)

\* A route of another worker is taken over; its id is in the plan.
RouteOperation(w, pattern) ==
    WorkerOperation(w, IF remote.routes[pattern] = w THEN "no-op" ELSE "planned", "route",
                    [pattern |-> pattern, known |-> remote.routes[pattern] # Free])

ConsumerOperation(w, q) ==
    WorkerOperation(w, IF q \in remote.queues THEN "planned" ELSE "blocked", "consumer", q)

CronOperation(w) ==
    WorkerOperation(w, IF remote.crons[w] = Crons[w] THEN "no-op" ELSE "planned", "cron", Crons[w])

CronPlan == [i \in DOMAIN WorkerOrder |-> CronOperation(WorkerOrder[i])]

WorkerPlan ==
    Each(WorkerOrder, LAMBDA w :
        <<ScriptOperation(w)>>
          \o [i \in DOMAIN Routes[w] |-> RouteOperation(w, Routes[w][i])]
          \o Planned(w, "binding", Producers[w])
          \o [i \in DOMAIN Consumers[w] |-> ConsumerOperation(w, Consumers[w][i])]
          \o Planned(w, "binding", Variables[w])
          \o Planned(w, "secret", Secrets[w])
          \o <<CronOperation(w)>>)

FlarePlanOf(f) ==
    CASE f = "dns" -> DnsPlan
      [] f = "queues" -> QueuePlan
      [] f = "workers" -> WorkerPlan
      [] f = "cron" -> CronPlan

-----------------------------------------------------------------------------
(***************************************************************************)
(* What an operation may make of the account; nothing, when it must fail.  *)
(***************************************************************************)
EnactDns(op) ==
    LET record == [name |-> op.name, value |-> op.value] IN
    IF op.action = "update" THEN {[remote EXCEPT !.records[op.id] = record]}
    ELSE IF record \in ToSet(remote.records) THEN {}
    ELSE {[remote EXCEPT !.records = Append(@, record)]}

EnactQueue(op) ==
    IF op.queue \in remote.queues THEN {} ELSE {[remote EXCEPT !.queues = @ \cup {op.queue}]}

\* The upload names no bindings: the provider may keep those there are, or not.
Upload(w) ==
    {[remote EXCEPT !.scripts = @ \cup {w}, !.bindings[w] = kept] : kept \in {{}, remote.bindings[w]}}

\* A route that the plan did not know is created, and must not be there.
Route(w, route) ==
    IF route.pattern \notin RouteZoned \/ (~route.known /\ remote.routes[route.pattern] # Free) THEN {}
    ELSE {[remote EXCEPT !.routes[route.pattern] = w]}

\* createQueueConsumer: a queue belongs to one worker.
Consume(w, q) ==
    IF remote.consumers[q] \notin {Free, w} THEN {} ELSE {[remote EXCEPT !.consumers[q] = w]}

EnactWorker(op) ==
    LET w == op.worker IN
    CASE op.kind = "script" -> Upload(w)
      [] op.kind = "route" -> Route(w, op.of)
      [] op.kind = "consumer" -> Consume(w, op.of)
      [] w \notin remote.scripts -> {}
      [] op.kind \in {"binding", "secret"} -> {[remote EXCEPT !.bindings[w] = @ \cup {op.of}]}
      [] op.kind = "cron" -> {[remote EXCEPT !.crons[w] = op.of]}

EnactFlare(f, op) ==
    CASE f = "dns" -> EnactDns(op)
      [] f = "queues" -> EnactQueue(op)
      [] OTHER -> EnactWorker(op)

-----------------------------------------------------------------------------
FlareGoto(f, s) == flareStage' = [flareStage EXCEPT ![f] = s]

PlanFocus(f) ==
    /\ f \in managed /\ flareStage[f] = "idle"
    /\ FlareGoto(f, "planned")
    /\ flarePlan' = [flarePlan EXCEPT ![f] = FlarePlanOf(f)]
    /\ UNCHANGED <<managed, remote, flareTodo, strangeRecords, flareSetbacks>>

\* assertPlanContext: a plan with a blocked operation is not applied at all.
ApplyFocus(f) ==
    /\ flareStage[f] = "planned"
    /\ LET effects == Each(flarePlan[f], LAMBDA op : IF op.action = "no-op" THEN <<>> ELSE <<op>>) IN
       IF \E op \in ToSet(flarePlan[f]) : op.action = "blocked"
       THEN FlareGoto(f, "idle") /\ UNCHANGED flareTodo
       ELSE FlareGoto(f, "applying") /\ flareTodo' = [flareTodo EXCEPT ![f] = effects]
    /\ UNCHANGED <<managed, remote, flarePlan, strangeRecords, flareSetbacks>>

\* An operation succeeds when it can; whether or not, the next one is tried.
ApplyOperation(f) ==
    /\ flareStage[f] = "applying" /\ flareTodo[f] # <<>>
    /\ LET after == EnactFlare(f, Head(flareTodo[f])) IN
       \/ remote' \in after
       \/ after = {} /\ UNCHANGED remote
    /\ flareTodo' = [flareTodo EXCEPT ![f] = Tail(@)]
    /\ UNCHANGED <<managed, flareStage, flarePlan, strangeRecords, flareSetbacks>>

\* The receipt is recorded; it and the drift that is looked for change nothing here.
CompleteFocus(f) ==
    /\ flareStage[f] = "applying" /\ flareTodo[f] = <<>>
    /\ FlareGoto(f, "idle")
    /\ UNCHANGED <<managed, remote, flarePlan, flareTodo, strangeRecords, flareSetbacks>>

\* A request fails, or its answer is lost; or the process dies.
FailOperation(f) ==
    /\ flareStage[f] = "applying" /\ flareTodo[f] # <<>>
    /\ flareSetbacks < MaxFlareSetbacks
    /\ flareSetbacks' = flareSetbacks + 1
    /\ remote' \in {remote} \cup EnactFlare(f, Head(flareTodo[f]))
    /\ \/ flareTodo' = [flareTodo EXCEPT ![f] = Tail(@)] /\ UNCHANGED flareStage
       \/ flareTodo' = [flareTodo EXCEPT ![f] = <<>>] /\ FlareGoto(f, "idle")
    /\ UNCHANGED <<managed, flarePlan, strangeRecords>>

AddRecord(record) ==
    /\ strangeRecords < MaxStrangeRecords
    /\ strangeRecords' = strangeRecords + 1
    /\ record \notin ToSet(remote.records)
    /\ remote' = [remote EXCEPT !.records = Append(@, record)]
    /\ UNCHANGED <<managed, flareWork, flareSetbacks>>

FocusStep(f) == PlanFocus(f) \/ ApplyFocus(f) \/ ApplyOperation(f) \/ CompleteFocus(f)

RolloutNext ==
    \/ \E f \in managed : FocusStep(f) \/ FailOperation(f)
    \/ "dns" \in managed /\ \E record \in StrangeRecords : AddRecord(record)

RolloutFairness == \A f \in Focuses : WF_flareVars(FocusStep(f))

RolloutSpec == RolloutInit /\ [][RolloutNext]_flareVars /\ RolloutFairness

-----------------------------------------------------------------------------
DnsServed == \A e \in ToSet(EntryOrder) : \A value \in ToSet(EntryValues[e]) : Observed(e, value)

WorkerServed(w) ==
    /\ w \in remote.scripts
    /\ \A pattern \in ToSet(Routes[w]) : remote.routes[pattern] = w
    /\ \A q \in ToSet(Consumers[w]) : remote.consumers[q] = w
    /\ Bound(w) \subseteq remote.bindings[w]
    /\ remote.crons[w] = Crons[w]

Served ==
    /\ "dns" \in managed => DnsServed
    /\ "queues" \in managed => ToSet(QueueOrder) \subseteq remote.queues
    /\ "workers" \in managed => \A w \in ToSet(WorkerOrder) : WorkerServed(w)

\* What may become of the DNS records: one is overwritten only by the single
\* value that is configured for its name, and only if it is the first of that name.
RecordsStay(after) ==
    \A id \in DOMAIN remote.records :
        /\ id \in DOMAIN after.records
        /\ after.records[id] # remote.records[id] =>
            /\ \E e \in ToSet(EntryOrder) :
                /\ EntryName[e] = remote.records[id].name /\ Len(EntryValues[e]) = 1
                /\ after.records[id] = [name |-> EntryName[e], value |-> EntryValues[e][1]]
            /\ \A k \in 1 .. id - 1 : remote.records[k].name # remote.records[id].name

\* A rollout takes no DNS record away, and what another tool adds beside a
\* configured one, also between the plan and its apply, stays as it is.
RecordsKept == [][RecordsStay(remote')]_flareVars

\* Whatever fails, planning and applying again brings the account to what is
\* configured, over and over: an upload may take the bindings away once more.
CloudSettles == []<>Served
=============================================================================
