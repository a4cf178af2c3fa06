-------------------------- MODULE UsageSettlement --------------------------
(***************************************************************************)
(* The money of a run: Budget.reserve_cost, hold_usage, check_unsettled and *)
(* add_usage (agent/budget.py), shared by the requests of the root, of its  *)
(* compaction summarizer and of its delegates, and the totals the session   *)
(* keeps (SessionStore.add_usage, settle_compaction_summary_usage).         *)
(* A request is reserved at its estimate, may take several attempts, each   *)
(* charged or of unknown cost, and is settled once, however it ends.        *)
(***************************************************************************)
EXTENDS Integers, FiniteSets, Functions

CONSTANTS Root, Delegates,
          MaxCost,       \* config.agent.max_cost_usd, positive
          Estimate,      \* what reserve_cost reserves; an attempt costs no more
          MaxAttempts,   \* provider max_retries + 1
          MaxRoutes,     \* routes of the root: the primary one and its fallbacks
          MaxRequests, MaxRuns, MaxFaults, MaxCrashes     \* bounds of the exploration

Agents == {Root} \cup Delegates

ASSUME UsageAssumption ==
    /\ IsFiniteSet(Delegates) /\ Root \notin Delegates
    /\ MaxCost \in Nat \ {0} /\ Estimate \in Nat
    /\ MaxAttempts \in Nat \ {0} /\ MaxRoutes \in Nat \ {0}
    /\ MaxRequests \in Nat /\ MaxRuns \in Nat /\ MaxFaults \in Nat /\ MaxCrashes \in Nat

VARIABLES
    cost, unsure,       \* Budget.usage: its cost, and whether it is incomplete
    pending,            \* Budget.pending_cost_usd
    held,               \* Budget._held_usage, by the agent whose collector it is
    reserved,           \* the local `reservation` of each request
    usage,              \* the collector of each request: what its attempts reported
    at, purpose,        \* where each request is; what the root's is for, or was
    attempts, routes,   \* attempts on this route; routes tried
    over,               \* the run is stopped and starts nothing new
    stored,             \* cost in the usage table of the session
    entry,              \* the cached compaction summary and the cost it carries
    spent,              \* history: what this run's attempts really cost
    charged, lost,      \* history: costs reported; reported and then lost
    requests, runs, faults, crashes

budget == <<cost, unsure, pending, held>>
request == <<reserved, usage, at, purpose, attempts, routes>>
durable == <<stored, entry>>
history == <<spent, charged, lost>>
bounds == <<requests, runs, faults, crashes>>
vars == <<cost, unsure, pending, held, reserved, usage, at, purpose, attempts, routes, over,
          stored, entry, spent, charged, lost, requests, runs, faults, crashes>>

Nothing == [cost |-> 0, incomplete |-> FALSE]
Plus(u, c, inc) == [cost |-> u.cost + c, incomplete |-> u.incomplete \/ inc]
Total(u) == SumFunction([a \in Agents |-> u[a].cost])

\* release_cost never goes below zero.
Minus(p, c) == IF p > c THEN p - c ELSE 0

-----------------------------------------------------------------------------
(* The budget                                                               *)

\* check_unsettled, which check_time_and_cost begins.
Unsettled == /\ cost < MaxCost
             /\ ~unsure /\ \A a \in Agents : ~held[a].incomplete
             /\ cost + pending <= MaxCost

\* Mutant of Affordable: the concurrent reservations are not counted.
AffordableAlone == Unsettled /\ cost + Estimate <= MaxCost
\* reserve_cost grants the estimate.
Affordable == Unsettled /\ cost + pending + Estimate <= MaxCost

\* Mutant of Observe: the charge is collected and not held.
ObserveUnheld(a, c, inc) ==
    /\ usage' = [usage EXCEPT ![a] = Plus(@, c, inc)]
    /\ charged' = charged + c
    /\ UNCHANGED <<held, pending>>

\* The collector of a's request, and hold_usage on it.
Observe(a, c, inc) ==
    /\ usage' = [usage EXCEPT ![a] = Plus(@, c, inc)]
    /\ held' = [held EXCEPT ![a] = usage'[a]]
    /\ pending' = pending + usage'[a].cost - held[a].cost
    /\ charged' = charged + c

\* release_cost(reservation)
Unreserve(a) == /\ pending' = Minus(pending, reserved[a])
                /\ reserved' = [reserved EXCEPT ![a] = 0]

\* release_cost and release_usage, and what the sink then adds.
Release(a) == /\ pending' = Minus(Minus(pending, reserved[a]), held[a].cost)
              /\ reserved' = [reserved EXCEPT ![a] = 0]
              /\ held' = [held EXCEPT ![a] = Nothing]
Add(u) == cost' = cost + u.cost /\ unsure' = (unsure \/ u.incomplete)

-----------------------------------------------------------------------------
(* A request                                                                *)

\* The root waits for its delegates.
Turn(a) == IF a = Root THEN \A d \in Delegates : at[d] = "idle" ELSE at[Root] = "idle"

Dispatch(a) == /\ reserved' = [reserved EXCEPT ![a] = Estimate]
               /\ pending' = pending + Estimate
               /\ at' = [at EXCEPT ![a] = "sent"]
               /\ attempts' = [attempts EXCEPT ![a] = 1]

Ask(a, why) ==
    /\ at[a] = "idle" /\ Turn(a) /\ ~over /\ requests < MaxRequests
    /\ why = "summary" => a = Root /\ entry.state = "none"
    /\ Affordable
    /\ Dispatch(a)
    /\ routes' = [routes EXCEPT ![a] = 1]
    /\ purpose' = IF a = Root THEN why ELSE purpose
    /\ requests' = requests + 1
    /\ UNCHANGED <<cost, unsure, held, usage, over, durable, history, runs, faults, crashes>>

\* The attempt is answered at cost c.
Answer(a, c) ==
    /\ at[a] = "sent"
    /\ at' = [at EXCEPT ![a] = "answered"]
    /\ Observe(a, c, FALSE)
    /\ spent' = spent + c
    /\ UNCHANGED <<cost, unsure, reserved, purpose, attempts, routes, over, durable, lost, bounds>>

\* It fails, with a reported cost or with a cost nobody reports.
AttemptFails(a, c, inc) ==
    /\ at[a] = "sent"
    /\ at' = [at EXCEPT ![a] = "failed"]
    /\ Observe(a, IF inc THEN 0 ELSE c, inc)
    /\ spent' = spent + c
    /\ UNCHANGED <<cost, unsure, reserved, purpose, attempts, routes, over, durable, lost, bounds>>

\* The request ends without an answer: what it observed is settled next.  The
\* root's reservation is released on the way out, a delegate's by its settle().
Close(a) == /\ at' = [at EXCEPT ![a] = "closing"]
            /\ IF a = Root THEN Unreserve(a) ELSE UNCHANGED <<pending, reserved>>

\* The next attempt is checked against what is not settled yet.
Retry(a) ==
    /\ at[a] = "failed" /\ attempts[a] < MaxAttempts
    /\ IF Unsettled
       THEN /\ at' = [at EXCEPT ![a] = "sent"]
            /\ attempts' = [attempts EXCEPT ![a] = @ + 1]
            /\ UNCHANGED <<pending, reserved>>
       ELSE Close(a) /\ UNCHANGED attempts
    /\ UNCHANGED <<cost, unsure, held, usage, purpose, routes, over, durable, history, bounds>>

\* A fallback gives the reservation back first and keeps the charges held.
LeaveRoute ==
    /\ at[Root] = "failed" /\ purpose = "model" /\ routes[Root] < MaxRoutes
    /\ Unreserve(Root)
    /\ at' = [at EXCEPT ![Root] = "routing"]
    /\ UNCHANGED <<cost, unsure, held, usage, purpose, attempts, routes, over, durable, history, bounds>>

NextRoute ==
    /\ at[Root] = "routing"
    /\ IF Affordable
       THEN Dispatch(Root) /\ routes' = [routes EXCEPT ![Root] = @ + 1]
       ELSE Close(Root) /\ UNCHANGED <<attempts, routes>>
    /\ UNCHANGED <<cost, unsure, held, usage, purpose, over, durable, history, bounds>>

GiveUp(a) ==
    /\ at[a] = "failed"
    /\ Close(a)
    /\ UNCHANGED <<cost, unsure, held, usage, purpose, attempts, routes, over, durable, history, bounds>>

\* The run stops: cancelled, out of time, or failed elsewhere.
Stop ==
    /\ ~over /\ \E a \in Agents : at[a] # "idle"
    /\ over' = TRUE
    /\ UNCHANGED <<budget, request, durable, history, bounds>>

\* A stopped run cancels a request; an attempt on the wire is of unknown cost c.
Interrupt(a, c) ==
    /\ over
    /\ \/ at[a] = "sent"
       \/ at[a] \in {"failed", "routing"} /\ c = 0
       \/ at[a] = "answered" /\ a = Root /\ c = 0
       \/ at[a] = "priced" /\ purpose = "model" /\ c = 0
    /\ at' = [at EXCEPT ![a] = "closing"]
    /\ LET inc == at[a] = "sent"
           kept == IF a = Root THEN 0 ELSE reserved[a] IN
       /\ usage' = [usage EXCEPT ![a] = Plus(@, 0, inc)]
       /\ held' = [held EXCEPT ![a] = usage'[a]]
       /\ reserved' = [reserved EXCEPT ![a] = kept]
       /\ pending' = Minus(pending, reserved[a] - kept)
    /\ spent' = spent + c
    /\ UNCHANGED <<cost, unsure, purpose, attempts, routes, over, durable, charged, lost, bounds>>

\* The root's reservation ends with its stream; events and the response cache follow.
Priced ==
    /\ at[Root] = "answered"
    /\ Unreserve(Root)
    /\ at' = [at EXCEPT ![Root] = "priced"]
    /\ UNCHANGED <<cost, unsure, held, usage, purpose, attempts, routes, over, durable, history, bounds>>

ReadyToSettle(a) == \/ at[a] = "closing"
                    \/ at[a] = "answered" /\ a # Root
                    \/ at[a] = "priced" /\ purpose = "model"

\* The sink takes over: holds are released and the charge is added in one step
\* of the event loop.
Settle(a) ==
    /\ ReadyToSettle(a)
    /\ Release(a) /\ Add(usage[a])
    /\ at' = [at EXCEPT ![a] = "storing"]
    /\ UNCHANGED <<usage, purpose, attempts, routes, over, durable, history, bounds>>

Forget(a) == /\ usage' = [usage EXCEPT ![a] = Nothing]
             /\ at' = [at EXCEPT ![a] = "idle"]
             /\ attempts' = [attempts EXCEPT ![a] = 0] /\ routes' = [routes EXCEPT ![a] = 0]
             /\ purpose' = IF a = Root THEN "model" ELSE purpose

\* SessionStore.add_usage, which no cancellation interrupts.  A run whose summary
\* could not be cached fails when it has its charge.
Store(a) ==
    /\ at[a] = "storing"
    /\ stored' = stored + usage[a].cost
    /\ over' = (over \/ (a = Root /\ purpose = "uncached"))
    /\ Forget(a)
    /\ UNCHANGED <<budget, reserved, entry, history, bounds>>

\* It fails, and the session does not learn of the charge.  The run fails if the request
\* was the root's own; a delegate's is a tool error, and without a summary the run
\* falls back to the deterministic one: both go on.
StoreFails(a) ==
    /\ at[a] = "storing" /\ faults < MaxFaults
    /\ faults' = faults + 1 /\ over' = (over \/ (a = Root /\ purpose = "model"))
    /\ lost' = lost + usage[a].cost
    /\ Forget(a)
    /\ UNCHANGED <<budget, reserved, durable, spent, charged, requests, runs, crashes>>

-----------------------------------------------------------------------------
(* The compaction summary: cached before it is charged                      *)

\* put_pending_compaction_summary; if it fails the charge is settled directly.
PutSummary ==
    /\ at[Root] = "priced" /\ purpose = "summary"
    /\ entry' = [state |-> "pending", cost |-> usage[Root].cost]
    /\ at' = [at EXCEPT ![Root] = "claimed"]
    /\ UNCHANGED <<budget, reserved, usage, purpose, attempts, routes, over, stored, history, bounds>>

PutFails ==
    /\ at[Root] = "priced" /\ purpose = "summary" /\ faults < MaxFaults
    /\ faults' = faults + 1
    /\ at' = [at EXCEPT ![Root] = "closing"] /\ purpose' = "uncached"
    /\ UNCHANGED <<budget, reserved, usage, attempts, routes, over, durable, history,
                   requests, runs, crashes>>

\* Mutant of ChargeEntry: usage_settled is not looked at.
ChargeEntryAlways == /\ stored' = stored + entry.cost
                     /\ entry' = [entry EXCEPT !.state = "settled"]
\* settle_compaction_summary_usage: one transaction.
ChargeEntry == /\ stored' = IF entry.state = "pending" THEN stored + entry.cost ELSE stored
               /\ entry' = [entry EXCEPT !.state = "settled"]

ClaimSummary ==
    /\ at[Root] = "claimed"
    /\ ChargeEntry
    /\ at' = [at EXCEPT ![Root] = "settled"]
    /\ UNCHANGED <<budget, reserved, usage, purpose, attempts, routes, over, history, bounds>>

\* The run fails before its budget learns of the charge.
ClaimFails ==
    /\ at[Root] = "claimed" /\ faults < MaxFaults
    /\ faults' = faults + 1 /\ over' = TRUE
    /\ Release(Root) /\ Forget(Root)
    /\ UNCHANGED <<cost, unsure, durable, history, requests, runs, crashes>>

\* settled_usage_sink: the budget alone, the session has its charge.
TransferSummary ==
    /\ at[Root] = "settled"
    /\ Release(Root) /\ Add(usage[Root]) /\ Forget(Root)
    /\ UNCHANGED <<over, durable, history, bounds>>

\* A cached summary costs this run nothing, and is charged if nobody did.
SummaryHit ==
    /\ at[Root] = "idle" /\ Turn(Root) /\ ~over /\ entry.state # "none"
    /\ ChargeEntry
    /\ UNCHANGED <<budget, request, over, history, bounds>>

-----------------------------------------------------------------------------
(* Runs of the session, one at a time                                       *)

Fresh == /\ cost' = 0 /\ unsure' = FALSE /\ pending' = 0
         /\ held' = [a \in Agents |-> Nothing]
         /\ over' = FALSE /\ spent' = 0

NewRun ==
    /\ \A a \in Agents : at[a] = "idle"
    /\ runs < MaxRuns
    /\ runs' = runs + 1
    /\ Fresh
    /\ UNCHANGED <<request, durable, charged, lost, requests, faults, crashes>>

\* What the requests have observed and nothing durable knows of.
Untold(a) == IF at[a] \in {"claimed", "settled"} THEN 0 ELSE usage[a].cost
InFlight == SumFunction([a \in Agents |-> Untold(a)])

Crash ==
    /\ crashes < MaxCrashes /\ runs < MaxRuns
    /\ \E a \in Agents : at[a] # "idle"
    /\ crashes' = crashes + 1 /\ runs' = runs + 1
    /\ lost' = lost + InFlight
    /\ Fresh
    /\ reserved' = [a \in Agents |-> 0] /\ usage' = [a \in Agents |-> Nothing]
    /\ at' = [a \in Agents |-> "idle"] /\ purpose' = "model"
    /\ attempts' = [a \in Agents |-> 0] /\ routes' = [a \in Agents |-> 0]
    /\ UNCHANGED <<durable, charged, requests, faults>>

Init ==
    /\ cost = 0 /\ unsure = FALSE /\ pending = 0 /\ held = [a \in Agents |-> Nothing]
    /\ reserved = [a \in Agents |-> 0] /\ usage = [a \in Agents |-> Nothing]
    /\ at = [a \in Agents |-> "idle"] /\ purpose = "model"
    /\ attempts = [a \in Agents |-> 0] /\ routes = [a \in Agents |-> 0]
    /\ over = FALSE /\ stored = 0 /\ entry = [state |-> "none", cost |-> 0]
    /\ spent = 0 /\ charged = 0 /\ lost = 0
    /\ requests = 0 /\ runs = 1 /\ faults = 0 /\ crashes = 0

\* Steps that end a request that has been sent.
Progress(a) ==
    \/ Retry(a) \/ GiveUp(a) \/ Settle(a) \/ Store(a) \/ StoreFails(a)
    \/ \E c \in 0..Estimate : Answer(a, c) \/ AttemptFails(a, c, TRUE) \/ AttemptFails(a, c, FALSE)
    \/ a = Root /\ (\/ LeaveRoute \/ NextRoute \/ Priced \/ PutSummary \/ PutFails
                    \/ ClaimSummary \/ ClaimFails \/ TransferSummary)

\* The run is over, or out of its requests.
Idle == (\A a \in Agents : at[a] = "idle") /\ UNCHANGED vars

Next == \/ Idle \/ NewRun \/ Stop \/ Crash \/ SummaryHit
        \/ \E a \in Agents : \/ Progress(a)
                             \/ \E why \in {"model", "summary"} : Ask(a, why)
                             \/ \E c \in 0..Estimate : Interrupt(a, c)

Spec == Init /\ [][Next]_vars

-----------------------------------------------------------------------------
TypeOK ==
    /\ cost \in Nat /\ pending \in Nat /\ stored \in Nat
    /\ spent \in Nat /\ charged \in Nat /\ lost \in Nat
    /\ unsure \in BOOLEAN /\ over \in BOOLEAN
    /\ held \in [Agents -> [cost : Nat, incomplete : BOOLEAN]]
    /\ usage \in [Agents -> [cost : Nat, incomplete : BOOLEAN]]
    /\ reserved \in [Agents -> {0, Estimate}]
    /\ at \in [Agents -> {"idle", "sent", "failed", "routing", "answered", "priced", "closing",
                          "storing", "claimed", "settled"}]
    /\ purpose \in {"model", "summary", "uncached"}
    /\ entry \in [state : {"none", "pending", "settled"}, cost : Nat]
    /\ \A a \in Agents : at[a] = "idle" => reserved[a] = 0 /\ held[a] = Nothing /\ usage[a] = Nothing

\* pending_cost_usd is exactly what is reserved and held: nothing is released
\* twice, and nothing stays behind when a request ends.
PendingExact == pending = SumFunction(reserved) + Total(held)

\* "Strict dollar budget": whatever siblings reserve, retry, fall back or leave
\* unreported at the same time, the attempts of a run really cost no more than
\* max_cost_usd, as long as none costs more than its estimate.
WithinBudget == spent <= MaxCost

\* docs/CONFIGURATION.md:115, "Every provider charge is settled once at the root":
\* a reported charge is stored, waiting in a request or in the cached summary,
\* or lost with its process or a failed write; never twice and never forgotten.
SettledOnce ==
    stored + lost + InFlight + (IF entry.state = "pending" THEN entry.cost ELSE 0) = charged
=============================================================================
