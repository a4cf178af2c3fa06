--------------------------- MODULE RequestBudget ---------------------------
(***************************************************************************)
(* The request budget that a run shares with its delegated agents: the     *)
(* ceiling on model requests, the closure requests reserved under it, the  *)
(* admission of descendants and the provider slots (agent/budget.py,       *)
(* agent/swarm.py, tools/delegate.py, and the request loop of              *)
(* AgentRunner._run_locked).                                               *)
(*                                                                         *)
(* One event loop runs all agents, so a stretch of code without an await   *)
(* is one step.  The clock and the dollar budget may stop an agent at any  *)
(* request; they are nondeterministic here.                                *)
(***************************************************************************)
EXTENDS Integers, FiniteSets

CONSTANTS Root,             \* the run's primary loop
          Children,         \* identities of delegated agents
          MaxRequests,      \* agent.max_model_requests
          MaxTurns,         \* agent.max_turns
          MaxChildTurns,    \* agent.swarm_max_turns
          MaxDescendants, MaxDepth, MaxConcurrent, ParallelReads

Agents == Children \cup {Root}

ASSUME AgentsAssumption == Root \notin Children /\ IsFiniteSet(Children)
ASSUME LimitsAssumption ==
    /\ MaxRequests \in Nat /\ MaxTurns \in Nat /\ MaxChildTurns \in Nat
    /\ MaxDescendants \in Nat /\ MaxDepth \in Nat
    /\ MaxConcurrent \in Nat /\ ParallelReads \in Nat

VARIABLES
    st,          \* where each agent is
    parent,      \* the agent that delegated to a child
    depth,       \* delegation_depth
    limit, turn, \* a child's effective max_turns and turn_index
    synth,       \* its current turn is a conclusion turn
    repair,      \* repair_answer
    turns,       \* Budget.turns
    toolless,    \* the root request offers no tools
    requests,    \* Budget.model_requests
    closures,    \* Budget._request_closures
    admitted,    \* SwarmState.admitted
    slots,       \* free permits of SwarmState.provider_slots
    concluded    \* history: children at work that have sent a conclusion request

child == <<parent, depth, limit, turn, synth, repair, concluded>>
root == <<turns, toolless>>
vars == <<st, child, root, requests, closures, admitted, slots>>

States == {"absent", "ready", "preparing", "waiting", "asking", "tools",
           "draining", "ending", "raising", "done"}
Active(c) == st[c] \notin {"absent", "done"}
ChildrenOf(a) == {c \in Children : parent[c] = a /\ st[c] # "absent"}
Busy(a) == {c \in ChildrenOf(a) : Active(c)}

-----------------------------------------------------------------------------
(* Budget                                                                   *)

\* remaining_requests: capacity that neither a request nor a closure of an
\* agent outside `own` has taken.
Remaining(own) == MaxRequests - requests - Cardinality(closures \ own)

\* Mutant of Reserved: the ceiling is not consulted.
ReservedAlways(S, a) == S \cup {a}

\* reserve_closure, on the reservations S.
Reserved(S, a) ==
    IF a \in S \/ MaxRequests - requests - Cardinality(S) > 0 THEN S \cup {a} ELSE S

Own(a, closure) == IF closure THEN {a} ELSE {}

\* Mutant of Spend: every request consumes its agent's closure.
SpendClosure(a, closure) ==
    /\ Remaining({a}) > 0
    /\ requests' = requests + 1
    /\ closures' = closures \ {a}

\* before_model_request: a request, paid with the agent's closure if it is one.
Spend(a, closure) ==
    /\ Remaining(Own(a, closure)) > 0
    /\ requests' = requests + 1
    /\ closures' = closures \ Own(a, closure)

Enter(a, s) == st' = [st EXCEPT ![a] = s]

-----------------------------------------------------------------------------
(* The primary loop                                                         *)

\* prepare_route protects the next combine once a child was admitted.
ProtectCombine == closures' = IF admitted > 0 THEN Reserved(closures, Root) ELSE closures

\* The request that would be the last one after a delegation has no tools.
LastRequest == admitted > 0 /\ requests + 1 >= MaxRequests

\* before_turn, the choice of tools and prepare_route.  A turn also loses its
\* tools to a rejected answer or to a verification report.
RootTurn ==
    /\ st[Root] = "ready" /\ turns < MaxTurns
    /\ turns' = turns + 1
    /\ toolless' \in {turns + 1 = MaxTurns \/ LastRequest, TRUE}
    /\ ProtectCombine
    /\ Enter(Root, "preparing")
    /\ UNCHANGED <<child, requests, admitted, slots>>

\* A summarizer request of the preparation: helpers own no closure.
RootHelper ==
    /\ st[Root] = "preparing"
    /\ Spend(Root, FALSE)
    /\ UNCHANGED <<st, child, root, admitted, slots>>

\* Mutant of RootAsk: dispatch does not look at the requests again.
RootAskStale ==
    /\ st[Root] = "preparing"
    /\ Spend(Root, TRUE)
    /\ Enter(Root, "asking")
    /\ UNCHANGED <<child, root, admitted, slots>>

\* prepare_dispatch and the first request of a turn.
RootAsk ==
    /\ st[Root] = "preparing"
    /\ toolless' = (toolless \/ LastRequest)
    /\ Spend(Root, TRUE)
    /\ Enter(Root, "asking")
    /\ UNCHANGED <<child, turns, admitted, slots>>

\* The application's response cache holds a usable text: no request is made.
\* Steering or verification makes the loop go on.
RootCached ==
    /\ st[Root] = "preparing"
    /\ Enter(Root, "ready")
    /\ UNCHANGED <<child, root, requests, closures, admitted, slots>>

\* A retry of the stream, or the recovery request of an adapter.
RootRetry ==
    /\ st[Root] = "asking"
    /\ toolless' = (toolless \/ LastRequest)
    /\ Spend(Root, TRUE)
    /\ UNCHANGED <<st, child, turns, admitted, slots>>

\* The next route of the failover list is prepared.
RootFallback ==
    /\ st[Root] = "asking"
    /\ ProtectCombine
    /\ Enter(Root, "preparing")
    /\ UNCHANGED <<child, root, requests, admitted, slots>>

\* retry_current_turn, after a context overflow.
RootOverflow ==
    /\ st[Root] = "asking"
    /\ turns' = turns - 1
    /\ Enter(Root, "ready")
    /\ UNCHANGED <<child, toolless, requests, closures, admitted, slots>>

\* A rejected answer, steering or verification: another turn.
RootContinues ==
    /\ st[Root] = "asking"
    /\ Enter(Root, "ready")
    /\ UNCHANGED <<child, root, requests, closures, admitted, slots>>

RootCallsTools ==
    /\ st[Root] = "asking" /\ ~toolless
    /\ Enter(Root, "tools")
    /\ UNCHANGED <<child, root, requests, closures, admitted, slots>>

\* The answer, a limit, an error or the cancellation of the run; a batch that
\* is running is cancelled first.
RootStop ==
    /\ st[Root] \in {"ready", "preparing", "asking", "tools"}
    /\ Enter(Root, IF st[Root] = "tools" THEN "draining" ELSE "ending")
    /\ UNCHANGED <<child, root, requests, closures, admitted, slots>>

\* finalize gives up the root's reservation.
RootEnd ==
    /\ st[Root] = "ending"
    /\ closures' = closures \ {Root}
    /\ Enter(Root, "done")
    /\ UNCHANGED <<child, root, requests, admitted, slots>>

-----------------------------------------------------------------------------
(* Delegation                                                               *)

\* A worker of a's batch runs delegate_task: admit, then the two reservations.
\* A refusal of the reservations keeps the admission; a refusal of the
\* admission changes nothing.  A worker whose cancellation was absorbed by the
\* recording of a result starts the next call of a batch that drains.
Delegate(a, c, n) ==
    /\ st[a] \in {"tools", "draining"}
    /\ Cardinality(Busy(a)) < ParallelReads
    /\ depth[a] < MaxDepth /\ admitted < MaxDescendants
    /\ st[c] = "absent"
    /\ admitted' = admitted + 1
    /\ closures' = Reserved(Reserved(closures, Root), c)
    /\ IF c \in closures'
       THEN /\ Enter(c, "ready")
            /\ parent' = [parent EXCEPT ![c] = a]
            /\ depth' = [depth EXCEPT ![c] = depth[a] + 1]
            /\ limit' = [limit EXCEPT ![c] = n]
       ELSE UNCHANGED <<st, parent, depth, limit>>
    /\ UNCHANGED <<turn, synth, repair, concluded, root, requests, slots>>

BatchDone(a) ==
    /\ st[a] = "tools" /\ Busy(a) = {}
    /\ Enter(a, "ready")
    /\ UNCHANGED <<child, root, requests, closures, admitted, slots>>

\* A cancelled batch raises once all its workers have ended.
BatchRaises(a) ==
    /\ st[a] = "draining" /\ Busy(a) = {}
    /\ Enter(a, IF a = Root THEN "ending" ELSE "raising")
    /\ UNCHANGED <<child, root, requests, closures, admitted, slots>>

-----------------------------------------------------------------------------
(* A delegated agent: DelegateTaskTool._investigate                         *)

\* Two turns still allow investigation; one turn can only conclude.
ClosureStart(n) == IF n > 3 THEN n - 2 ELSE IF n > 1 THEN 1 ELSE 0

\* c leaves its provider slot, if it has one, for the state s.
Leave(c, s) ==
    /\ Enter(c, s)
    /\ slots' = IF st[c] = "asking" THEN slots + 1 ELSE slots

\* The request is prepared; the kind of the turn is chosen before the wait.
ChildPrepares(c) ==
    /\ st[c] = "ready" /\ turn[c] < limit[c]
    /\ synth' = [synth EXCEPT ![c] =
                    repair[c] \/ turn[c] >= ClosureStart(limit[c]) \/ Remaining({}) <= 0]
    /\ Enter(c, "waiting")
    /\ UNCHANGED <<parent, depth, limit, turn, repair, concluded,
                   root, requests, closures, admitted, slots>>

\* With its slot, c looks again: siblings may have spent what it counted on.
Concluding(c) == synth[c] \/ Remaining({}) <= 0

ChildAsks(c) ==
    /\ st[c] = "waiting" /\ slots > 0
    /\ Spend(c, Concluding(c))
    /\ synth' = [synth EXCEPT ![c] = Concluding(c)]
    /\ concluded' = IF Concluding(c) THEN concluded \cup {c} ELSE concluded
    /\ slots' = slots - 1
    /\ Enter(c, "asking")
    /\ UNCHANGED <<parent, depth, limit, turn, repair, root, admitted>>

\* before_model_request refuses: the child ends with what it has.
ChildRefused(c) ==
    /\ st[c] = "waiting" /\ slots > 0
    /\ Remaining(Own(c, Concluding(c))) <= 0
    /\ Enter(c, "ending")
    /\ UNCHANGED <<child, root, requests, closures, admitted, slots>>

\* A retry or recovery request, in the same slot.
ChildRetries(c) ==
    /\ st[c] = "asking"
    /\ Spend(c, synth[c])
    /\ UNCHANGED <<st, child, root, admitted, slots>>

\* A refused retry of an investigation leaves the closure for the next turn.
ChildRetryRefused(c) ==
    /\ st[c] = "asking"
    /\ Remaining(Own(c, synth[c])) <= 0
    /\ IF ~synth[c] /\ Remaining({c}) > 0
       THEN /\ Leave(c, "ready")
            /\ repair' = [repair EXCEPT ![c] = TRUE]
            /\ turn' = [turn EXCEPT ![c] = @ + 1]
       ELSE /\ Leave(c, "ending")
            /\ UNCHANGED <<repair, turn>>
    /\ UNCHANGED <<parent, depth, limit, synth, concluded, root, requests, closures, admitted>>

\* A context overflow repeats the turn.
ChildOverflows(c) ==
    /\ st[c] = "asking"
    /\ Leave(c, "ready")
    /\ UNCHANGED <<child, root, requests, closures, admitted>>

\* An unusable answer is repaired once, in a conclusion turn.
ChildRejected(c) ==
    /\ st[c] = "asking" /\ ~repair[c] /\ turn[c] + 1 < limit[c]
    /\ Leave(c, "ready")
    /\ repair' = [repair EXCEPT ![c] = TRUE]
    /\ turn' = [turn EXCEPT ![c] = @ + 1]
    /\ UNCHANGED <<parent, depth, limit, synth, concluded, root, requests, closures, admitted>>

\* Mutant of ChildCallsTools: the slot is kept while the tools run.
ChildCallsToolsInSlot(c) ==
    /\ st[c] = "asking" /\ ~synth[c]
    /\ Enter(c, "tools")
    /\ turn' = [turn EXCEPT ![c] = @ + 1]
    /\ UNCHANGED <<parent, depth, limit, synth, repair, concluded, root,
                   requests, closures, admitted, slots>>

\* The slot is given back before the tools run, so that a descendant can have it.
ChildCallsTools(c) ==
    /\ st[c] = "asking" /\ ~synth[c]
    /\ Leave(c, "tools")
    /\ turn' = [turn EXCEPT ![c] = @ + 1]
    /\ UNCHANGED <<parent, depth, limit, synth, repair, concluded, root,
                   requests, closures, admitted>>

\* A usable answer, no turn left, or a failure that is the child's own result.
ChildEnds(c) ==
    /\ st[c] \in {"ready", "waiting", "asking"}
    /\ Leave(c, "ending")
    /\ UNCHANGED <<child, root, requests, closures, admitted>>

\* The clock or the dollar budget is exhausted; so is the whole batch.
ChildFatal(c) ==
    /\ st[c] \in {"waiting", "asking"}
    /\ Leave(c, "raising")
    /\ UNCHANGED <<child, root, requests, closures, admitted>>

\* bounded_calls cancels the workers of a batch that fails, down the tree.
Cancelled(c) ==
    /\ Active(c) /\ st[parent[c]] = "draining"
    /\ st[c] \notin {"draining", "raising"}
    /\ Leave(c, IF st[c] = "tools" THEN "draining" ELSE "raising")
    /\ UNCHANGED <<child, root, requests, closures, admitted>>

\* The locals of a delegation that is over.
Forget(c) ==
    /\ limit' = [limit EXCEPT ![c] = 0] /\ turn' = [turn EXCEPT ![c] = 0]
    /\ synth' = [synth EXCEPT ![c] = FALSE] /\ repair' = [repair EXCEPT ![c] = FALSE]
    /\ concluded' = concluded \ {c}

\* Mutant of Settle: the reservation of a child that raised is kept.
SettleKeeps(c) ==
    /\ st[c] \in {"ending", "raising"}
    /\ closures' = IF st[c] = "ending" THEN closures \ {c} ELSE closures
    /\ st' = [st EXCEPT ![c] = "done",
                        ![parent[c]] = IF st[c] = "raising" /\ @ = "tools" THEN "draining" ELSE @]
    /\ Forget(c)
    /\ UNCHANGED <<parent, depth, root, requests, admitted, slots>>

\* The terminal event is out and the reservation is released; an exception
\* reaches the batch of the parent.
Settle(c) ==
    /\ st[c] \in {"ending", "raising"}
    /\ closures' = closures \ {c}
    /\ st' = [st EXCEPT ![c] = "done",
                        ![parent[c]] = IF st[c] = "raising" /\ @ = "tools" THEN "draining" ELSE @]
    /\ Forget(c)
    /\ UNCHANGED <<parent, depth, root, requests, admitted, slots>>

-----------------------------------------------------------------------------
Init ==
    /\ st = [a \in Agents |-> IF a = Root THEN "ready" ELSE "absent"]
    /\ parent = [c \in Children |-> Root]
    /\ depth = [a \in Agents |-> 0]
    /\ limit = [c \in Children |-> 0]
    /\ turn = [c \in Children |-> 0]
    /\ synth = [c \in Children |-> FALSE]
    /\ repair = [c \in Children |-> FALSE]
    /\ turns = 0 /\ toolless = FALSE
    /\ requests = 0 /\ closures = {} /\ admitted = 0
    /\ slots = MaxConcurrent
    /\ concluded = {}

RootStep ==
    \/ RootTurn \/ RootHelper \/ RootAsk \/ RootCached \/ RootRetry \/ RootFallback
    \/ RootOverflow \/ RootContinues \/ RootCallsTools \/ RootStop \/ RootEnd

ChildStep(c) ==
    \/ ChildPrepares(c) \/ ChildAsks(c) \/ ChildRefused(c)
    \/ ChildRetries(c) \/ ChildRetryRefused(c) \/ ChildOverflows(c)
    \/ ChildRejected(c) \/ ChildCallsTools(c) \/ ChildEnds(c) \/ ChildFatal(c)
    \/ Cancelled(c) \/ Settle(c)

BatchStep(a) == BatchDone(a) \/ BatchRaises(a)

\* The run is over.
Over == st[Root] = "done" /\ UNCHANGED vars

Next ==
    \/ RootStep \/ Over
    \/ (\E c \in Children : ChildStep(c))
    \/ (\E a \in Agents : BatchStep(a))
    \/ (\E a \in Agents, c \in Children, n \in 1 .. MaxChildTurns : Delegate(a, c, n))

Spec == Init /\ [][Next]_vars

\* Provider requests and tools end (each has a timeout) and coroutines run.
\* Nothing obliges a model to delegate, or a cancelled wait to be prompt.
Fairness ==
    /\ WF_vars(st[Root] # "tools" /\ RootStep)
    /\ \A c \in Children :
          /\ WF_vars(ChildPrepares(c)) /\ WF_vars(ChildAsks(c) \/ ChildRefused(c))
          /\ WF_vars(st[c] = "asking" /\ ChildStep(c))
          /\ WF_vars(turn[c] >= limit[c] /\ ChildEnds(c)) /\ WF_vars(Settle(c))
    /\ \A a \in Agents : WF_vars(BatchStep(a))

FairSpec == Spec /\ Fairness

-----------------------------------------------------------------------------
TypeOK ==
    /\ st \in [Agents -> States]
    /\ parent \in [Children -> Agents] /\ depth \in [Agents -> 0 .. MaxDepth]
    /\ limit \in [Children -> 0 .. MaxChildTurns] /\ turn \in [Children -> Nat]
    /\ synth \in [Children -> BOOLEAN] /\ repair \in [Children -> BOOLEAN]
    /\ turns \in 0 .. MaxTurns /\ toolless \in BOOLEAN
    /\ requests \in Nat /\ closures \subseteq Agents
    /\ admitted \in 0 .. MaxDescendants /\ slots \in Nat
    /\ concluded \subseteq Children

\* The requests made and the closures reserved fit under the ceiling, however
\* investigations, retries, helpers, admissions and conclusions of the agents
\* interleave.
Funded == requests + Cardinality(closures) <= MaxRequests

\* No one spends the conclusion of a child: until it sends its first conclusion
\* request, a child at work has the reservation that pays for it.
Working == {"ready", "waiting", "asking", "tools"}
ConclusionFunded == \A c \in Children : st[c] \in Working /\ c \notin concluded => c \in closures

\* Once a child has started, a batch of the primary loop leaves a request for
\* the root to combine what its children found.
CombineFunded ==
    st[Root] = "tools" /\ (\E c \in Children : st[c] # "absent") => Remaining({Root}) > 0

\* Provider slots are neither lost nor forged, and an agent has one only while
\* its request is with the provider.
Asking == {c \in Children : st[c] = "asking"}
SlotsOK == slots + Cardinality(Asking) = MaxConcurrent

\* An agent outlives the agents it started, and reservations are those of
\* agents at work: none is left when the run is over.
Drained ==
    /\ \A c \in Children : Active(c) => st[parent[c]] \in {"tools", "draining"}
    /\ \A a \in closures : st[a] \notin {"absent", "done"}

\* A run that began is over at last, also with one slot for a tree of agents.
RunSettles == <>(st[Root] = "done")
=============================================================================
