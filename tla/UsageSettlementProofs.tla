----------------------- MODULE UsageSettlementProofs -----------------------
(***************************************************************************)
(* UsageSettlement keeps its promises for every number of delegates, every *)
(* limit and every estimate: what is pending is exactly what is reserved   *)
(* and held, a run really costs no more than its limit, and every reported *)
(* charge is settled once.                                                 *)
(***************************************************************************)
EXTENDS UsageSettlement, FiniteSetTheorems, WellFoundedInduction, TLAPS

\* Where a request holds what it has observed, and where its estimate is reserved.
Holding == {"sent", "failed", "routing", "answered", "priced", "closing", "claimed", "settled"}
Reserving(a) == at[a] \in {"sent", "failed", "answered"} \/ (at[a] = "closing" /\ a # Root)
Phases == \A a \in Agents :
    /\ held[a] = IF at[a] \in Holding THEN usage[a] ELSE Nothing
    /\ reserved[a] = IF Reserving(a) THEN Estimate ELSE 0
    /\ at[a] = "idle" => usage[a] = Nothing
    /\ a # Root => at[a] \notin {"routing", "priced", "claimed", "settled"}

\* The root and its delegates take turns.
OneLevel == at[Root] # "idle" => \A d \in Delegates : at[d] = "idle"

\* A summary is asked for where none is cached; from then on the cache has its charge.
Summary ==
    /\ purpose = "summary" => at[Root] # "idle"
    /\ purpose = "summary" /\ at[Root] \notin {"claimed", "settled"} => entry.state = "none"
    /\ at[Root] \in {"claimed", "settled"} => purpose = "summary"
    /\ at[Root] = "claimed" => entry = [state |-> "pending", cost |-> usage[Root].cost]
    /\ at[Root] = "settled" => entry.state = "settled"

\* As long as the budget knows every cost, it has them all; but for a run that has
\* failed and is about to end.
Known == ~unsure /\ \A a \in Agents : ~held[a].incomplete
Exact == (~over \/ \E a \in Agents : at[a] # "idle") /\ Known => spent = cost + Total(held)

\* What the attempts on the wire may yet cost.
Outstanding(a) == IF at[a] = "sent" THEN Estimate ELSE 0
AtRisk == SumFunction([a \in Agents |-> Outstanding(a)])
Covered == spent + AtRisk <= MaxCost

Shape == TypeOK /\ Phases /\ OneLevel /\ Summary
Money == PendingExact /\ Exact /\ Covered /\ SettledOnce
IInv == Shape /\ Money

-----------------------------------------------------------------------------
(* Sums.  The sum of a function is the number of coins that lie on its      *)
(* arguments, which needs no induction but the one that says so.            *)

Pick(s) == CHOOSE x \in s : TRUE

\* The unit coins of the agents in S.
Coins(f, S) == UNION {{a} \X (1 .. f[a]) : a \in S}

LEMMA CoinsOf ==
    ASSUME NEW f, NEW S, IsFiniteSet(S), \A a \in S : f[a] \in Nat
    PROVE  IsFiniteSet(Coins(f, S)) /\ Cardinality(Coins(f, S)) \in Nat
<1>1. \A a \in S : IsFiniteSet({a} \X (1 .. f[a]))
  <2> TAKE a \in S
  <2>1. IsFiniteSet({a}) BY FS_Singleton
  <2>2. IsFiniteSet(1 .. f[a]) BY FS_Interval
  <2> QED BY <2>1, <2>2, FS_Product
<1>2. IsFiniteSet(Coins(f, S))
  <2> DEFINE Op(a) == {a} \X (1 .. f[a])
             All == {Op(a) : a \in S}
  <2>1. IsFiniteSet(All)
    <3> DEFINE h == [a \in S |-> Op(a)]
    <3>1. h \in Surjection(S, All)
      <4>1. h \in [S -> All] OBVIOUS
      <4>2. \A C \in All : \E a \in S : h[a] = C OBVIOUS
      <4> QED BY <4>1, <4>2 DEF Surjection
    <3> HIDE DEF h, All
    <3> QED BY <3>1, FS_Surjection
  <2>2. \A C \in All : IsFiniteSet(C) BY <1>1
  <2>3. IsFiniteSet(UNION All)
    <3> HIDE DEF All
    <3> QED BY <2>1, <2>2, FS_UNION
  <2> QED BY <2>3 DEF Coins
<1> QED BY <1>2, FS_CardinalityType

LEMMA CoinsAdd ==
    ASSUME NEW f, NEW S, IsFiniteSet(S), NEW x \in S, \A a \in S : f[a] \in Nat
    PROVE  Cardinality(Coins(f, S)) = f[x] + Cardinality(Coins(f, S \ {x}))
<1> DEFINE C == {x} \X (1 .. f[x])
           D == Coins(f, S \ {x})
<1>1. Coins(f, S) = C \cup D BY DEF Coins
<1>2. C \cap D = {} BY DEF Coins
<1>3. IsFiniteSet(C) /\ Cardinality(C) = f[x]
  <2>1. IsFiniteSet({x}) /\ Cardinality({x}) = 1 BY FS_Singleton
  <2>2. IsFiniteSet(1 .. f[x]) /\ Cardinality(1 .. f[x]) = f[x] BY FS_Interval
  <2> QED BY <2>1, <2>2, FS_Product
<1>4. IsFiniteSet(D) /\ Cardinality(D) \in Nat
  <2>1. IsFiniteSet(S \ {x}) BY FS_RemoveElement
  <2> QED BY <2>1, CoinsOf
<1>5. Cardinality(C \cup D) = Cardinality(C) + Cardinality(D) - Cardinality({})
  <2> HIDE DEF C, D
  <2> QED BY <1>2, <1>3, <1>4, FS_Union
<1> QED BY <1>1, <1>3, <1>4, <1>5, FS_EmptySet

LEMMA SumByCoins ==
    ASSUME NEW f, NEW S, IsFiniteSet(S), \A a \in S : f[a] \in Nat
    PROVE  SumFunctionOnSet(f, S) = Cardinality(Coins(f, S))
<1> DEFINE Body(h) == [s \in SUBSET S |-> IF s = {} THEN 0 ELSE f[Pick(s)] + h[s \ {Pick(s)}]]
           g == [s \in SUBSET S |-> Cardinality(Coins(f, s))]
           iter == CHOOSE h : h = Body(h)
<1>1. SumFunctionOnSet(f, S) = iter[S]
  BY DEF SumFunctionOnSet, FoldFunctionOnSet, MapThenFoldSet, Pick
<1>2. g = Body(g)
  <2>1. \A s \in SUBSET S : g[s] = IF s = {} THEN 0 ELSE f[Pick(s)] + g[s \ {Pick(s)}]
    <3> TAKE s \in SUBSET S
    <3>1. CASE s = {}
      <4>1. Coins(f, s) = {} BY <3>1 DEF Coins
      <4> QED BY <3>1, <4>1, FS_EmptySet
    <3>2. CASE s # {}
      <4>1. Pick(s) \in s BY <3>2 DEF Pick
      <4>2. IsFiniteSet(s) BY FS_Subset
      <4>3. Cardinality(Coins(f, s)) = f[Pick(s)] + Cardinality(Coins(f, s \ {Pick(s)}))
        BY <4>1, <4>2, CoinsAdd
      <4> QED BY <3>2, <4>3
    <3> QED BY <3>1, <3>2
  <2> QED BY <2>1
<1>3. iter = Body(iter)
  <2> HIDE DEF Body, g
  <2> QED BY <1>2
<1>4. \A s \in SUBSET S : iter[s] = IF s = {} THEN 0 ELSE f[Pick(s)] + iter[s \ {Pick(s)}]
  <2> HIDE DEF iter
  <2> QED BY <1>3
<1>5. \A s \in SUBSET S : g[s] = IF s = {} THEN 0 ELSE f[Pick(s)] + g[s \ {Pick(s)}]
  <2> HIDE DEF g
  <2> QED BY <1>2
<1> HIDE DEF iter, g
<1>6. \A s \in SUBSET S : iter[s] = g[s]
  <2> DEFINE Bad == {s \in SUBSET S : iter[s] # g[s]}
  <2> SUFFICES ASSUME Bad # {} PROVE FALSE OBVIOUS
  <2>1. Bad \subseteq FiniteSubsetsOf(S) BY FS_Subset DEF FiniteSubsetsOf
  <2>2. \E s \in Bad : \A t \in Bad : <<t, s>> \notin StrictSubsetOrdering(S)
    <3>1. IsWellFoundedOn(StrictSubsetOrdering(S), FiniteSubsetsOf(S))
      BY FS_StrictSubsetOrderingWellFounded
    <3> HIDE DEF Bad
    <3> QED BY <2>1, <3>1, WFMin
  <2>3. PICK s \in Bad : \A t \in Bad : <<t, s>> \notin StrictSubsetOrdering(S) BY <2>2
  <2>4. s # {} BY <1>4, <1>5
  <2>5. Pick(s) \in s BY <2>4 DEF Pick
  <2>6. s \ {Pick(s)} \notin Bad
    <3> SUFFICES <<s \ {Pick(s)}, s>> \in StrictSubsetOrdering(S) BY <2>3
    <3>1. s \in SUBSET S /\ s \ {Pick(s)} \in SUBSET S BY <2>3
    <3>2. s \ {Pick(s)} # s BY <2>5
    <3> QED BY <3>1, <3>2 DEF StrictSubsetOrdering
  <2> QED BY <1>4, <1>5, <2>4, <2>5, <2>6
<1> QED BY <1>1, <1>6 DEF g

LEMMA SumIsCount ==
    ASSUME NEW f \in [Agents -> Nat]
    PROVE  /\ SumFunction(f) = Cardinality(Coins(f, Agents))
           /\ IsFiniteSet(Coins(f, Agents)) /\ SumFunction(f) \in Nat
<1>1. IsFiniteSet(Agents) BY UsageAssumption, FS_AddElement DEF Agents
<1>2. DOMAIN f = Agents /\ \A a \in Agents : f[a] \in Nat OBVIOUS
<1> QED BY <1>1, <1>2, SumByCoins, CoinsOf DEF SumFunction

LEMMA SumOfOthers ==
    ASSUME NEW f \in [Agents -> Nat], NEW a \in Agents
    PROVE  /\ SumFunction(f) = f[a] + Cardinality(Coins(f, Agents \ {a}))
           /\ Cardinality(Coins(f, Agents \ {a})) \in Nat
<1>1. IsFiniteSet(Agents) BY UsageAssumption, FS_AddElement DEF Agents
<1>2. \A b \in Agents : f[b] \in Nat OBVIOUS
<1>3. IsFiniteSet(Agents \ {a}) BY <1>1, FS_RemoveElement
<1>4. Cardinality(Coins(f, Agents \ {a})) \in Nat BY <1>2, <1>3, CoinsOf
<1>5. Cardinality(Coins(f, Agents)) = f[a] + Cardinality(Coins(f, Agents \ {a}))
  BY <1>1, <1>2, CoinsAdd
<1> QED BY <1>4, <1>5, SumIsCount

\* A step of one agent changes a sum by what it changes of its own part.
LEMMA SumChange ==
    ASSUME NEW f \in [Agents -> Nat], NEW g \in [Agents -> Nat], NEW a \in Agents,
           \A b \in Agents \ {a} : g[b] = f[b]
    PROVE  /\ SumFunction(f) \in Nat /\ SumFunction(g) \in Nat
           /\ f[a] <= SumFunction(f)
           /\ SumFunction(g) = SumFunction(f) - f[a] + g[a]
<1>1. Coins(g, Agents \ {a}) = Coins(f, Agents \ {a}) BY DEF Coins
<1>2. /\ SumFunction(f) = f[a] + Cardinality(Coins(f, Agents \ {a}))
      /\ Cardinality(Coins(f, Agents \ {a})) \in Nat
  BY SumOfOthers
<1>3. SumFunction(g) = g[a] + Cardinality(Coins(g, Agents \ {a}))
  BY SumOfOthers
<1>4. f[a] \in Nat /\ g[a] \in Nat OBVIOUS
<1> QED BY <1>1, <1>2, <1>3, <1>4

LEMMA SumZero ==
    ASSUME NEW f \in [Agents -> Nat], \A a \in Agents : f[a] = 0
    PROVE  SumFunction(f) = 0
<1>1. Coins(f, Agents) = {} BY DEF Coins
<1> QED BY <1>1, SumIsCount, FS_EmptySet

LEMMA SumAtMost ==
    ASSUME NEW f \in [Agents -> Nat], NEW g \in [Agents -> Nat], \A a \in Agents : f[a] <= g[a]
    PROVE  SumFunction(f) <= SumFunction(g)
<1>1. Coins(f, Agents) \subseteq Coins(g, Agents)
  <2> SUFFICES ASSUME NEW a \in Agents, NEW i \in 1 .. f[a] PROVE i \in 1 .. g[a]
    BY DEF Coins
  <2>1. f[a] \in Nat /\ g[a] \in Nat /\ f[a] <= g[a] OBVIOUS
  <2> QED BY <2>1
<1> QED BY <1>1, SumIsCount, FS_Subset

-----------------------------------------------------------------------------
(* The sums of the model                                                    *)

Records == [cost : Nat, incomplete : BOOLEAN]

LEMMA TotalChange ==
    ASSUME NEW u \in [Agents -> Records], NEW v \in [Agents -> Records], NEW a \in Agents,
           \A b \in Agents \ {a} : v[b] = u[b]
    PROVE  /\ Total(u) \in Nat /\ Total(v) \in Nat
           /\ u[a].cost <= Total(u)
           /\ Total(v) = Total(u) - u[a].cost + v[a].cost
<1> DEFINE f == [b \in Agents |-> u[b].cost]
           g == [b \in Agents |-> v[b].cost]
<1>1. f \in [Agents -> Nat] /\ g \in [Agents -> Nat] BY DEF Records
<1>2. \A b \in Agents \ {a} : g[b] = f[b] OBVIOUS
<1>3. f[a] = u[a].cost /\ g[a] = v[a].cost OBVIOUS
<1>4. Total(u) = SumFunction(f) /\ Total(v) = SumFunction(g) BY DEF Total
<1> HIDE DEF f, g
<1> QED BY <1>1, <1>2, <1>3, <1>4, SumChange

LEMMA SumsAreNatural ==
    ASSUME TypeOK
    PROVE  /\ SumFunction(reserved) \in Nat /\ Total(held) \in Nat
           /\ InFlight \in Nat /\ AtRisk \in Nat
<1>1. reserved \in [Agents -> Nat] BY UsageAssumption DEF TypeOK
<1>2. [a \in Agents |-> held[a].cost] \in [Agents -> Nat] BY DEF TypeOK
<1>3. [a \in Agents |-> Untold(a)] \in [Agents -> Nat] BY DEF TypeOK, Untold
<1>4. [a \in Agents |-> Outstanding(a)] \in [Agents -> Nat] BY UsageAssumption DEF Outstanding
<1> QED BY <1>1, <1>2, <1>3, <1>4, SumIsCount DEF Total, InFlight, AtRisk

\* What a step of one agent does to every sum.
Only(a) == \A b \in Agents \ {a} : /\ reserved'[b] = reserved[b] /\ held'[b] = held[b]
                                   /\ usage'[b] = usage[b] /\ at'[b] = at[b]

LEMMA OneMoves ==
    ASSUME TypeOK, TypeOK', NEW a \in Agents, Only(a)
    PROVE  /\ reserved[a] <= SumFunction(reserved)
           /\ SumFunction(reserved)' = SumFunction(reserved) - reserved[a] + reserved'[a]
           /\ held[a].cost <= Total(held)
           /\ Total(held)' = Total(held) - held[a].cost + held'[a].cost
           /\ InFlight' = InFlight - Untold(a) + Untold(a)'
           /\ AtRisk' = AtRisk - Outstanding(a) + Outstanding(a)'
<1>1. /\ reserved[a] <= SumFunction(reserved)
      /\ SumFunction(reserved)' = SumFunction(reserved) - reserved[a] + reserved'[a]
  <2>1. {0, Estimate} \subseteq Nat BY UsageAssumption
  <2>2. reserved \in [Agents -> Nat] /\ reserved' \in [Agents -> Nat]
    <3>1. reserved \in [Agents -> {0, Estimate}] /\ reserved' \in [Agents -> {0, Estimate}]
      BY DEF TypeOK
    <3> QED BY <2>1, <3>1
  <2> QED BY <2>2, SumChange DEF Only
<1>2. /\ held[a].cost <= Total(held)
      /\ Total(held)' = Total(held) - held[a].cost + held'[a].cost
  <2>1. held \in [Agents -> Records] /\ held' \in [Agents -> Records]
    BY DEF TypeOK, Records
  <2> QED BY <2>1, TotalChange DEF Only
<1>3. InFlight' = InFlight - Untold(a) + Untold(a)'
  <2> DEFINE f == [b \in Agents |-> Untold(b)]
             g == [b \in Agents |-> Untold(b)']
  <2>1. f \in [Agents -> Nat] /\ g \in [Agents -> Nat] BY DEF TypeOK, Untold
  <2>2. \A b \in Agents \ {a} : g[b] = f[b] BY DEF Only, Untold
  <2>3. f[a] = Untold(a) /\ g[a] = Untold(a)' OBVIOUS
  <2>4. InFlight = SumFunction(f) /\ InFlight' = SumFunction(g) BY DEF InFlight
  <2> HIDE DEF f, g
  <2> QED BY <2>1, <2>2, <2>3, <2>4, SumChange
<1>4. AtRisk' = AtRisk - Outstanding(a) + Outstanding(a)'
  <2> DEFINE f == [b \in Agents |-> Outstanding(b)]
             g == [b \in Agents |-> Outstanding(b)']
  <2>1. f \in [Agents -> Nat] /\ g \in [Agents -> Nat] BY UsageAssumption DEF Outstanding
  <2>2. \A b \in Agents \ {a} : g[b] = f[b] BY DEF Only, Outstanding
  <2>3. f[a] = Outstanding(a) /\ g[a] = Outstanding(a)' OBVIOUS
  <2>4. AtRisk = SumFunction(f) /\ AtRisk' = SumFunction(g) BY DEF AtRisk
  <2> HIDE DEF f, g
  <2> QED BY <2>1, <2>2, <2>3, <2>4, SumChange
<1> QED BY <1>1, <1>2, <1>3, <1>4

\* What is on the wire is reserved.
LEMMA WireReserved ==
    ASSUME NEW r \in [Agents -> {0, Estimate}], NEW w,
           \A a \in Agents : w[a] = "sent" => r[a] = Estimate
    PROVE  SumFunction([a \in Agents |-> IF w[a] = "sent" THEN Estimate ELSE 0]) <= SumFunction(r)
<1> DEFINE f == [a \in Agents |-> IF w[a] = "sent" THEN Estimate ELSE 0]
<1>1. {0, Estimate} \subseteq Nat /\ Estimate \in Nat BY UsageAssumption
<1>2. f \in [Agents -> Nat] /\ r \in [Agents -> Nat] BY <1>1
<1>3. \A a \in Agents : r[a] \in {0, Estimate} OBVIOUS
<1>4. \A a \in Agents : f[a] <= r[a] BY <1>1, <1>3
<1> HIDE DEF f
<1> QED BY <1>2, <1>4, SumAtMost

LEMMA RiskReserved ==
    ASSUME TypeOK, Phases
    PROVE  AtRisk <= SumFunction(reserved)
<1>1. reserved \in [Agents -> {0, Estimate}] BY DEF TypeOK
<1>2. \A a \in Agents : at[a] = "sent" => reserved[a] = Estimate BY DEF Phases, Reserving
<1> QED BY <1>1, <1>2, WireReserved DEF AtRisk, Outstanding

-----------------------------------------------------------------------------
(* Where the money is, after each step                                      *)

LEMMA AskShape ==
    ASSUME Shape, NEW a \in Agents, NEW why \in {"model", "summary"}, Ask(a, why)
    PROVE  Shape'
<1> USE UsageAssumption DEF Shape, TypeOK, Agents, Nothing, budget, request, durable, history, bounds
<1>1. TypeOK' BY DEF Ask, Dispatch, Turn, Phases, Holding, Reserving
<1>2. Phases' BY DEF Ask, Dispatch, Turn, Phases, Holding, Reserving, OneLevel
<1>3. OneLevel' BY DEF Ask, Dispatch, Turn, OneLevel
<1>4. Summary' BY DEF Ask, Dispatch, Turn, Summary, Phases, Holding
<1> QED BY <1>1, <1>2, <1>3, <1>4

LEMMA AnswerShape ==
    ASSUME Shape, NEW a \in Agents, NEW c \in 0 .. Estimate, Answer(a, c)
    PROVE  Shape'
<1> USE UsageAssumption DEF Shape, TypeOK, Agents, Nothing, budget, request, durable, history, bounds
<1>1. TypeOK' BY DEF Answer, Observe, Plus, Phases, Holding, Reserving
<1>2. Phases' BY DEF Answer, Observe, Plus, Phases, Holding, Reserving, OneLevel
<1>3. OneLevel' BY DEF Answer, Observe, Plus, OneLevel
<1>4. Summary' BY DEF Answer, Observe, Plus, Summary, Phases, Holding
<1> QED BY <1>1, <1>2, <1>3, <1>4

LEMMA AttemptFailsShape ==
    ASSUME Shape, NEW a \in Agents, NEW c \in 0 .. Estimate, NEW inc \in BOOLEAN, AttemptFails(a, c, inc)
    PROVE  Shape'
<1> USE UsageAssumption DEF Shape, TypeOK, Agents, Nothing, budget, request, durable, history, bounds
<1>1. TypeOK' BY DEF AttemptFails, Observe, Plus, Phases, Holding, Reserving
<1>2. Phases' BY DEF AttemptFails, Observe, Plus, Phases, Holding, Reserving, OneLevel
<1>3. OneLevel' BY DEF AttemptFails, Observe, Plus, OneLevel
<1>4. Summary' BY DEF AttemptFails, Observe, Plus, Summary, Phases, Holding
<1> QED BY <1>1, <1>2, <1>3, <1>4

LEMMA RetryShape ==
    ASSUME Shape, NEW a \in Agents, Retry(a)
    PROVE  Shape'
<1> USE UsageAssumption DEF Shape, TypeOK, Agents, Nothing, budget, request, durable, history, bounds
<1>1. TypeOK' BY DEF Retry, Close, Unreserve, Minus, Phases, Holding, Reserving
<1>2. Phases' BY DEF Retry, Close, Unreserve, Minus, Phases, Holding, Reserving, OneLevel
<1>3. OneLevel' BY DEF Retry, Close, Unreserve, Minus, OneLevel
<1>4. Summary' BY DEF Retry, Close, Unreserve, Minus, Summary, Phases, Holding
<1> QED BY <1>1, <1>2, <1>3, <1>4

LEMMA LeaveRouteShape ==
    ASSUME Shape, LeaveRoute
    PROVE  Shape'
<1> USE UsageAssumption DEF Shape, TypeOK, Agents, Nothing, budget, request, durable, history, bounds
<1>1. TypeOK' BY DEF LeaveRoute, Unreserve, Minus, Phases, Holding, Reserving
<1>2. Phases' BY DEF LeaveRoute, Unreserve, Minus, Phases, Holding, Reserving, OneLevel
<1>3. OneLevel' BY DEF LeaveRoute, Unreserve, Minus, OneLevel
<1>4. Summary' BY DEF LeaveRoute, Unreserve, Minus, Summary, Phases, Holding
<1> QED BY <1>1, <1>2, <1>3, <1>4

LEMMA NextRouteShape ==
    ASSUME Shape, NextRoute
    PROVE  Shape'
<1> USE UsageAssumption DEF Shape, TypeOK, Agents, Nothing, budget, request, durable, history, bounds
<1>1. TypeOK' BY DEF NextRoute, Dispatch, Close, Unreserve, Minus, Phases, Holding, Reserving
<1>2. Phases' BY DEF NextRoute, Dispatch, Close, Unreserve, Minus, Phases, Holding, Reserving, OneLevel
<1>3. OneLevel' BY DEF NextRoute, Dispatch, Close, Unreserve, Minus, OneLevel
<1>4. Summary' BY DEF NextRoute, Dispatch, Close, Unreserve, Minus, Summary, Phases, Holding
<1> QED BY <1>1, <1>2, <1>3, <1>4

LEMMA GiveUpShape ==
    ASSUME Shape, NEW a \in Agents, GiveUp(a)
    PROVE  Shape'
<1> USE UsageAssumption DEF Shape, TypeOK, Agents, Nothing, budget, request, durable, history, bounds
<1>1. TypeOK' BY DEF GiveUp, Close, Unreserve, Minus, Phases, Holding, Reserving
<1>2. Phases' BY DEF GiveUp, Close, Unreserve, Minus, Phases, Holding, Reserving, OneLevel
<1>3. OneLevel' BY DEF GiveUp, Close, Unreserve, Minus, OneLevel
<1>4. Summary' BY DEF GiveUp, Close, Unreserve, Minus, Summary, Phases, Holding
<1> QED BY <1>1, <1>2, <1>3, <1>4

LEMMA InterruptShape ==
    ASSUME Shape, NEW a \in Agents, NEW c \in 0 .. Estimate, Interrupt(a, c)
    PROVE  Shape'
<1> USE UsageAssumption DEF Shape, TypeOK, Agents, Nothing, budget, request, durable, history, bounds
<1>1. TypeOK' BY DEF Interrupt, Plus, Minus, Phases, Holding, Reserving
<1>2. Phases' BY DEF Interrupt, Plus, Minus, Phases, Holding, Reserving, OneLevel
<1>3. OneLevel' BY DEF Interrupt, Plus, Minus, OneLevel
<1>4. Summary' BY DEF Interrupt, Plus, Minus, Summary, Phases, Holding
<1> QED BY <1>1, <1>2, <1>3, <1>4

LEMMA PricedShape ==
    ASSUME Shape, Priced
    PROVE  Shape'
<1> USE UsageAssumption DEF Shape, TypeOK, Agents, Nothing, budget, request, durable, history, bounds
<1>1. TypeOK' BY DEF Priced, Unreserve, Minus, Phases, Holding, Reserving
<1>2. Phases' BY DEF Priced, Unreserve, Minus, Phases, Holding, Reserving, OneLevel
<1>3. OneLevel' BY DEF Priced, Unreserve, Minus, OneLevel
<1>4. Summary' BY DEF Priced, Unreserve, Minus, Summary, Phases, Holding
<1> QED BY <1>1, <1>2, <1>3, <1>4

LEMMA SettleShape ==
    ASSUME Shape, NEW a \in Agents, Settle(a)
    PROVE  Shape'
<1> USE UsageAssumption DEF Shape, TypeOK, Agents, Nothing, budget, request, durable, history, bounds
<1>1. TypeOK' BY DEF Settle, ReadyToSettle, Release, Add, Minus, Phases, Holding, Reserving
<1>2. Phases' BY DEF Settle, ReadyToSettle, Release, Add, Minus, Phases, Holding, Reserving, OneLevel
<1>3. OneLevel' BY DEF Settle, ReadyToSettle, Release, Add, Minus, OneLevel
<1>4. Summary' BY DEF Settle, ReadyToSettle, Release, Add, Minus, Summary, Phases, Holding
<1> QED BY <1>1, <1>2, <1>3, <1>4

LEMMA StoreShape ==
    ASSUME Shape, NEW a \in Agents, Store(a)
    PROVE  Shape'
<1> USE UsageAssumption DEF Shape, TypeOK, Agents, Nothing, budget, request, durable, history, bounds
<1>1. TypeOK' BY DEF Store, Forget, Phases, Holding, Reserving
<1>2. Phases' BY DEF Store, Forget, Phases, Holding, Reserving, OneLevel
<1>3. OneLevel' BY DEF Store, Forget, OneLevel
<1>4. Summary' BY DEF Store, Forget, Summary, Phases, Holding
<1> QED BY <1>1, <1>2, <1>3, <1>4

LEMMA StoreFailsShape ==
    ASSUME Shape, NEW a \in Agents, StoreFails(a)
    PROVE  Shape'
<1> USE UsageAssumption DEF Shape, TypeOK, Agents, Nothing, budget, request, durable, history, bounds
<1>1. TypeOK' BY DEF StoreFails, Forget, Phases, Holding, Reserving
<1>2. Phases' BY DEF StoreFails, Forget, Phases, Holding, Reserving, OneLevel
<1>3. OneLevel' BY DEF StoreFails, Forget, OneLevel
<1>4. Summary' BY DEF StoreFails, Forget, Summary, Phases, Holding
<1> QED BY <1>1, <1>2, <1>3, <1>4

LEMMA PutSummaryShape ==
    ASSUME Shape, PutSummary
    PROVE  Shape'
<1> USE UsageAssumption DEF Shape, TypeOK, Agents, Nothing, budget, request, durable, history, bounds
<1>1. TypeOK' BY DEF PutSummary, Phases, Holding, Reserving
<1>2. Phases' BY DEF PutSummary, Phases, Holding, Reserving, OneLevel
<1>3. OneLevel' BY DEF PutSummary, OneLevel
<1>4. Summary' BY DEF PutSummary, Summary, Phases, Holding
<1> QED BY <1>1, <1>2, <1>3, <1>4

LEMMA PutFailsShape ==
    ASSUME Shape, PutFails
    PROVE  Shape'
<1> USE UsageAssumption DEF Shape, TypeOK, Agents, Nothing, budget, request, durable, history, bounds
<1>1. TypeOK' BY DEF PutFails, Phases, Holding, Reserving
<1>2. Phases' BY DEF PutFails, Phases, Holding, Reserving, OneLevel
<1>3. OneLevel' BY DEF PutFails, OneLevel
<1>4. Summary' BY DEF PutFails, Summary, Phases, Holding
<1> QED BY <1>1, <1>2, <1>3, <1>4

LEMMA ClaimSummaryShape ==
    ASSUME Shape, ClaimSummary
    PROVE  Shape'
<1> USE UsageAssumption DEF Shape, TypeOK, Agents, Nothing, budget, request, durable, history, bounds
<1>1. TypeOK' BY DEF ClaimSummary, ChargeEntry, Phases, Holding, Reserving
<1>2. Phases' BY DEF ClaimSummary, ChargeEntry, Phases, Holding, Reserving, OneLevel
<1>3. OneLevel' BY DEF ClaimSummary, ChargeEntry, OneLevel
<1>4. Summary' BY DEF ClaimSummary, ChargeEntry, Summary, Phases, Holding
<1> QED BY <1>1, <1>2, <1>3, <1>4

LEMMA ClaimFailsShape ==
    ASSUME Shape, ClaimFails
    PROVE  Shape'
<1> USE UsageAssumption DEF Shape, TypeOK, Agents, Nothing, budget, request, durable, history, bounds
<1>1. TypeOK' BY DEF ClaimFails, Release, Forget, Minus, Phases, Holding, Reserving
<1>2. Phases' BY DEF ClaimFails, Release, Forget, Minus, Phases, Holding, Reserving, OneLevel
<1>3. OneLevel' BY DEF ClaimFails, Release, Forget, Minus, OneLevel
<1>4. Summary' BY DEF ClaimFails, Release, Forget, Minus, Summary, Phases, Holding
<1> QED BY <1>1, <1>2, <1>3, <1>4

LEMMA TransferSummaryShape ==
    ASSUME Shape, TransferSummary
    PROVE  Shape'
<1> USE UsageAssumption DEF Shape, TypeOK, Agents, Nothing, budget, request, durable, history, bounds
<1>1. TypeOK' BY DEF TransferSummary, Release, Add, Forget, Minus, Phases, Holding, Reserving
<1>2. Phases' BY DEF TransferSummary, Release, Add, Forget, Minus, Phases, Holding, Reserving, OneLevel
<1>3. OneLevel' BY DEF TransferSummary, Release, Add, Forget, Minus, OneLevel
<1>4. Summary' BY DEF TransferSummary, Release, Add, Forget, Minus, Summary, Phases, Holding
<1> QED BY <1>1, <1>2, <1>3, <1>4

LEMMA SummaryHitShape ==
    ASSUME Shape, SummaryHit
    PROVE  Shape'
<1> USE UsageAssumption DEF Shape, TypeOK, Agents, Nothing, budget, request, durable, history, bounds
<1>1. TypeOK' BY DEF SummaryHit, ChargeEntry, Turn, Phases, Holding, Reserving
<1>2. Phases' BY DEF SummaryHit, ChargeEntry, Turn, Phases, Holding, Reserving, OneLevel
<1>3. OneLevel' BY DEF SummaryHit, ChargeEntry, Turn, OneLevel
<1>4. Summary' BY DEF SummaryHit, ChargeEntry, Turn, Summary, Phases, Holding
<1> QED BY <1>1, <1>2, <1>3, <1>4

LEMMA StopShape ==
    ASSUME Shape, Stop
    PROVE  Shape'
<1> USE UsageAssumption DEF Shape, TypeOK, Agents, Nothing, budget, request, durable, history, bounds
<1>1. TypeOK' BY DEF Stop, Phases, Holding, Reserving
<1>2. Phases' BY DEF Stop, Phases, Holding, Reserving, OneLevel
<1>3. OneLevel' BY DEF Stop, OneLevel
<1>4. Summary' BY DEF Stop, Summary, Phases, Holding
<1> QED BY <1>1, <1>2, <1>3, <1>4

LEMMA NewRunShape ==
    ASSUME Shape, NewRun
    PROVE  Shape'
<1> USE UsageAssumption DEF Shape, TypeOK, Agents, Nothing, budget, request, durable, history, bounds
<1>1. TypeOK'
  <2>1. [a \in Agents |-> Nothing] \in [Agents -> Records] BY DEF Records
  <2>2. held' \in [Agents -> Records] BY <2>1 DEF NewRun, Fresh
  <2>3. \A a \in Agents : at[a] = "idle" /\ held'[a] = Nothing BY DEF NewRun, Fresh
  <2> QED BY <2>2, <2>3 DEF NewRun, Fresh, Records
<1>2. Phases' BY DEF NewRun, Fresh, Phases, Holding, Reserving, OneLevel
<1>3. OneLevel' BY DEF NewRun, Fresh, OneLevel
<1>4. Summary' BY DEF NewRun, Fresh, Summary, Phases, Holding
<1> QED BY <1>1, <1>2, <1>3, <1>4

LEMMA CrashShape ==
    ASSUME Shape, Crash
    PROVE  Shape'
<1> USE UsageAssumption DEF Shape, TypeOK, Agents, Nothing, budget, request, durable, history, bounds
<1>1. TypeOK'
  <2>1. [a \in Agents |-> Nothing] \in [Agents -> Records] BY DEF Records
  <2>2. held' \in [Agents -> Records] /\ usage' \in [Agents -> Records]
    BY <2>1 DEF Crash, Fresh
  <2>3. lost' \in Nat
    <3>1. InFlight \in Nat BY SumsAreNatural
    <3> QED BY <3>1 DEF Crash
  <2>4. reserved' \in [Agents -> {0, Estimate}] /\ at' = [a \in Agents |-> "idle"]
    BY DEF Crash
  <2>5. \A a \in Agents : reserved'[a] = 0 /\ held'[a] = Nothing /\ usage'[a] = Nothing
    BY DEF Crash, Fresh
  <2> QED BY <2>2, <2>3, <2>4, <2>5 DEF Crash, Fresh, Records
<1>2. Phases' BY DEF Crash, Fresh, Phases, Holding, Reserving, OneLevel
<1>3. OneLevel' BY DEF Crash, Fresh, OneLevel
<1>4. Summary' BY DEF Crash, Fresh, Summary, Phases, Holding
<1> QED BY <1>1, <1>2, <1>3, <1>4

\* The sums, and what a step of a makes of them.
Moved(a) ==
    /\ SumFunction(reserved) \in Nat /\ Total(held) \in Nat /\ InFlight \in Nat /\ AtRisk \in Nat
    /\ reserved[a] <= SumFunction(reserved) /\ held[a].cost <= Total(held)
    /\ SumFunction(reserved)' = SumFunction(reserved) - reserved[a] + reserved'[a]
    /\ Total(held)' = Total(held) - held[a].cost + held'[a].cost
    /\ InFlight' = InFlight - Untold(a) + Untold(a)'
    /\ AtRisk' = AtRisk - Outstanding(a) + Outstanding(a)'

LEMMA MoneyMoves ==
    ASSUME TypeOK, TypeOK', NEW a \in Agents, Only(a)
    PROVE  Moved(a)
BY OneMoves, SumsAreNatural DEF Moved

\* What is pending moves with what a reserves and holds.
LEMMA PendingKept ==
    ASSUME PendingExact, TypeOK, TypeOK', NEW a \in Agents, Moved(a),
           pending' = pending + reserved'[a] - reserved[a] + held'[a].cost - held[a].cost
    PROVE  PendingExact'
<1>1. /\ reserved[a] \in {0, Estimate} /\ reserved'[a] \in {0, Estimate}
      /\ held[a].cost \in Nat /\ held'[a].cost \in Nat
  BY DEF TypeOK
<1> QED BY <1>1, UsageAssumption DEF Moved, PendingExact

\* A release never takes more than is pending.
LEMMA ReleaseIsExact ==
    ASSUME PendingExact, TypeOK, NEW a \in Agents, Moved(a)
    PROVE  /\ Minus(pending, reserved[a]) = pending - reserved[a]
           /\ Minus(Minus(pending, reserved[a]), held[a].cost) = pending - reserved[a] - held[a].cost
<1>1. reserved[a] \in {0, Estimate} /\ held[a].cost \in Nat BY DEF TypeOK
<1>2. /\ pending = SumFunction(reserved) + Total(held)
      /\ reserved[a] <= SumFunction(reserved) /\ held[a].cost <= Total(held)
      /\ SumFunction(reserved) \in Nat /\ Total(held) \in Nat
  BY DEF Moved, PendingExact
<1>3. Minus(pending, reserved[a]) = pending - reserved[a]
  BY <1>1, <1>2, UsageAssumption DEF Minus
<1>4. Minus(pending - reserved[a], held[a].cost) = pending - reserved[a] - held[a].cost
  BY <1>1, <1>2, UsageAssumption DEF Minus
<1> QED BY <1>3, <1>4

\* A charge moves between a, the session and what is lost.
Waiting == IF entry.state = "pending" THEN entry.cost ELSE 0
LEMMA SettledKept ==
    ASSUME SettledOnce, TypeOK, TypeOK', NEW a \in Agents, Moved(a),
           stored' + lost' + Untold(a)' + Waiting' - charged' = stored + lost + Untold(a) + Waiting - charged
    PROVE  SettledOnce'
<1>1. /\ Untold(a) \in Nat /\ Untold(a)' \in Nat /\ Waiting \in Nat /\ Waiting' \in Nat
      /\ {stored, stored', lost, lost', charged, charged'} \subseteq Nat
  BY DEF TypeOK, Untold, Waiting
<1>2. SettledOnce <=> stored + lost + InFlight + Waiting = charged BY DEF SettledOnce, Waiting
<1>3. SettledOnce' <=> stored' + lost' + InFlight' + Waiting' = charged' BY DEF SettledOnce, Waiting
<1>4. InFlight \in Nat /\ InFlight' = InFlight - Untold(a) + Untold(a)' BY DEF Moved
<1>5. InFlight' \in Int BY <1>1, <1>4
<1> QED BY <1>1, <1>2, <1>3, <1>4, <1>5

LEMMA ExactKept ==
    ASSUME Exact, TypeOK, TypeOK', NEW a \in Agents, Only(a), Moved(a),
           ~over \/ \E b \in Agents : at[b] # "idle",
           ~unsure' /\ ~held'[a].incomplete =>
               /\ ~unsure /\ ~held[a].incomplete
               /\ spent' - cost' - held'[a].cost = spent - cost - held[a].cost
    PROVE  Exact'
<1> SUFFICES ASSUME Known' PROVE spent' = cost' + Total(held)' BY DEF Exact
<1>1. ~unsure' /\ ~held'[a].incomplete BY DEF Known
<1>2. Known
  <2>1. \A b \in Agents \ {a} : ~held[b].incomplete BY DEF Known, Only
  <2> QED BY <1>1, <2>1 DEF Known
<1>3. spent = cost + Total(held) BY <1>2 DEF Exact
<1>4. held[a].cost \in Nat /\ held'[a].cost \in Nat /\ {spent, spent', cost, cost'} \subseteq Nat
  BY DEF TypeOK
<1> QED BY <1>1, <1>3, <1>4 DEF Moved

LEMMA CoveredKept ==
    ASSUME Covered, TypeOK, TypeOK', NEW a \in Agents, Moved(a),
           spent' + Outstanding(a)' <= spent + Outstanding(a)
    PROVE  Covered'
<1>1. /\ {Outstanding(a), Outstanding(a)', spent, spent'} \subseteq Nat /\ MaxCost \in Nat
  BY UsageAssumption DEF TypeOK, Outstanding
<1> QED BY <1>1 DEF Moved, Covered

-----------------------------------------------------------------------------
(* What each step does to the money                                         *)

LEMMA AskMoney ==
    ASSUME IInv, NEW a \in Agents, NEW why \in {"model", "summary"}, Ask(a, why)
    PROVE  Money'
<1> USE UsageAssumption DEF Agents, Nothing, budget, request, durable, history, bounds
<1>1. Shape /\ Money /\ Shape' BY AskShape DEF IInv
<1>2. Only(a) BY <1>1 DEF Only, Ask, Dispatch, Affordable, Unsettled, Shape, TypeOK
<1>3. Moved(a) BY <1>1, <1>2, MoneyMoves DEF Shape
<1> USE DEF Shape, TypeOK, Phases, Reserving, Holding, Money
<1>4. PendingExact'
  <2>1. pending' = pending + reserved'[a] - reserved[a] + held'[a].cost - held[a].cost
    BY <1>1, <1>3 DEF Ask, Dispatch
  <2> QED BY <1>1, <1>3, <2>1, PendingKept
<1>5. Exact'
  <2>1. ~over \/ \E b \in Agents : at[b] # "idle" BY DEF Ask
  <2>2. ~unsure' /\ ~held'[a].incomplete =>
            /\ ~unsure /\ ~held[a].incomplete
            /\ spent' - cost' - held'[a].cost = spent - cost - held[a].cost
    BY <1>1 DEF Ask, Dispatch
  <2> QED BY <1>1, <1>2, <1>3, <2>1, <2>2, ExactKept
<1>6. Covered'
  <2>1. spent' = spent /\ at[a] = "idle" /\ Outstanding(a) = 0 /\ Outstanding(a)' = Estimate
    BY <1>1 DEF Ask, Dispatch, Outstanding
  <2>2. Known /\ cost + pending + Estimate <= MaxCost BY DEF Ask, Affordable, Unsettled, Known
  <2>3. spent = cost + Total(held) BY <1>1, <2>2 DEF Exact, Ask
  <2>4. AtRisk <= SumFunction(reserved) BY <1>1, RiskReserved
  <2>5. AtRisk' = AtRisk + Estimate BY <1>3, <2>1 DEF Moved
  <2> QED BY <1>1, <1>3, <2>1, <2>2, <2>3, <2>4, <2>5 DEF Covered, PendingExact, Moved
<1>7. SettledOnce'
  <2>1. stored' + lost' + Untold(a)' + Waiting' - charged' = stored + lost + Untold(a) + Waiting - charged
    BY <1>1 DEF Ask, Dispatch, Untold, Waiting, Summary
  <2> QED BY <1>1, <1>3, <2>1, SettledKept
<1> QED BY <1>4, <1>5, <1>6, <1>7 DEF Money

LEMMA AnswerMoney ==
    ASSUME IInv, NEW a \in Agents, NEW c \in 0 .. Estimate, Answer(a, c)
    PROVE  Money'
<1> USE UsageAssumption DEF Agents, Nothing, budget, request, durable, history, bounds
<1>1. Shape /\ Money /\ Shape' BY AnswerShape DEF IInv
<1>2. Only(a) BY <1>1 DEF Only, Answer, Observe, Plus, Shape, TypeOK
<1>3. Moved(a) BY <1>1, <1>2, MoneyMoves DEF Shape
<1> USE DEF Shape, TypeOK, Phases, Reserving, Holding, Money
<1>4. PendingExact'
  <2>1. pending' = pending + reserved'[a] - reserved[a] + held'[a].cost - held[a].cost
    BY <1>1, <1>3 DEF Answer, Observe, Plus
  <2> QED BY <1>1, <1>3, <2>1, PendingKept
<1>5. Exact'
  <2>1. ~over \/ \E b \in Agents : at[b] # "idle" BY DEF Answer
  <2>2. ~unsure' /\ ~held'[a].incomplete =>
            /\ ~unsure /\ ~held[a].incomplete
            /\ spent' - cost' - held'[a].cost = spent - cost - held[a].cost
    BY <1>1 DEF Answer, Observe, Plus
  <2> QED BY <1>1, <1>2, <1>3, <2>1, <2>2, ExactKept
<1>6. Covered'
  <2>1. spent' + Outstanding(a)' <= spent + Outstanding(a)
    BY <1>1 DEF Answer, Observe, Plus, Outstanding
  <2> QED BY <1>1, <1>3, <2>1, CoveredKept
<1>7. SettledOnce'
  <2>1. stored' + lost' + Untold(a)' + Waiting' - charged' = stored + lost + Untold(a) + Waiting - charged
    BY <1>1 DEF Answer, Observe, Plus, Untold, Waiting, Summary
  <2> QED BY <1>1, <1>3, <2>1, SettledKept
<1> QED BY <1>4, <1>5, <1>6, <1>7 DEF Money

LEMMA AttemptFailsMoney ==
    ASSUME IInv, NEW a \in Agents, NEW c \in 0 .. Estimate, NEW inc \in BOOLEAN, AttemptFails(a, c, inc)
    PROVE  Money'
<1> USE UsageAssumption DEF Agents, Nothing, budget, request, durable, history, bounds
<1>1. Shape /\ Money /\ Shape' BY AttemptFailsShape DEF IInv
<1>2. Only(a) BY <1>1 DEF Only, AttemptFails, Observe, Plus, Shape, TypeOK
<1>3. Moved(a) BY <1>1, <1>2, MoneyMoves DEF Shape
<1> USE DEF Shape, TypeOK, Phases, Reserving, Holding, Money
<1>4. PendingExact'
  <2>1. pending' = pending + reserved'[a] - reserved[a] + held'[a].cost - held[a].cost
    BY <1>1, <1>3 DEF AttemptFails, Observe, Plus
  <2> QED BY <1>1, <1>3, <2>1, PendingKept
<1>5. Exact'
  <2>1. ~over \/ \E b \in Agents : at[b] # "idle" BY DEF AttemptFails
  <2>2. ~unsure' /\ ~held'[a].incomplete =>
            /\ ~unsure /\ ~held[a].incomplete
            /\ spent' - cost' - held'[a].cost = spent - cost - held[a].cost
    BY <1>1 DEF AttemptFails, Observe, Plus
  <2> QED BY <1>1, <1>2, <1>3, <2>1, <2>2, ExactKept
<1>6. Covered'
  <2>1. spent' + Outstanding(a)' <= spent + Outstanding(a)
    BY <1>1 DEF AttemptFails, Observe, Plus, Outstanding
  <2> QED BY <1>1, <1>3, <2>1, CoveredKept
<1>7. SettledOnce'
  <2>1. stored' + lost' + Untold(a)' + Waiting' - charged' = stored + lost + Untold(a) + Waiting - charged
    BY <1>1 DEF AttemptFails, Observe, Plus, Untold, Waiting, Summary
  <2> QED BY <1>1, <1>3, <2>1, SettledKept
<1> QED BY <1>4, <1>5, <1>6, <1>7 DEF Money

LEMMA RetryMoney ==
    ASSUME IInv, NEW a \in Agents, Retry(a)
    PROVE  Money'
<1> USE UsageAssumption DEF Agents, Nothing, budget, request, durable, history, bounds
<1>1. Shape /\ Money /\ Shape' BY RetryShape DEF IInv
<1>2. Only(a) BY <1>1 DEF Only, Retry, Close, Unreserve, Minus, Unsettled, Shape, TypeOK
<1>3. Moved(a) BY <1>1, <1>2, MoneyMoves DEF Shape
<1> USE DEF Shape, TypeOK, Phases, Reserving, Holding, Money
<1>4. PendingExact'
  <2>1. pending' = pending + reserved'[a] - reserved[a] + held'[a].cost - held[a].cost
    BY <1>1, <1>3, ReleaseIsExact DEF Retry, Close, Unreserve
  <2> QED BY <1>1, <1>3, <2>1, PendingKept
<1>5. Exact'
  <2>1. ~over \/ \E b \in Agents : at[b] # "idle" BY DEF Retry
  <2>2. ~unsure' /\ ~held'[a].incomplete =>
            /\ ~unsure /\ ~held[a].incomplete
            /\ spent' - cost' - held'[a].cost = spent - cost - held[a].cost
    BY <1>1 DEF Retry, Close, Unreserve
  <2> QED BY <1>1, <1>2, <1>3, <2>1, <2>2, ExactKept
<1>6. Covered'
  <2>1. spent' = spent /\ cost' = cost /\ at[a] = "failed" /\ Outstanding(a) = 0
    BY DEF Retry, Outstanding
  <2>2. CASE Unsettled
    <3>1. Known /\ cost + pending <= MaxCost BY <2>2 DEF Unsettled, Known
    <3>2. spent = cost + Total(held) BY <1>1, <2>1, <3>1 DEF Exact
    <3>3. reserved' = reserved /\ \A b \in Agents : at'[b] = "sent" => reserved[b] = Estimate
      BY <1>1, <2>2 DEF Retry
    <3>4. AtRisk' <= SumFunction(reserved)
      <4>1. AtRisk' = SumFunction([b \in Agents |-> IF at'[b] = "sent" THEN Estimate ELSE 0])
        BY DEF AtRisk, Outstanding
      <4>2. reserved \in [Agents -> {0, Estimate}] BY <1>1
      <4> HIDE DEF Shape, TypeOK, Phases, Money
      <4> QED BY <3>3, <4>1, <4>2, WireReserved
    <3>5. AtRisk' \in Int
      <4>1. Outstanding(a)' \in Int BY UsageAssumption DEF Outstanding
      <4> QED BY <1>3, <2>1, <4>1 DEF Moved
    <3> QED BY <1>1, <1>3, <2>1, <3>1, <3>2, <3>4, <3>5 DEF Covered, PendingExact, Moved
  <2>3. CASE ~Unsettled
    <3>1. Outstanding(a)' = 0 BY <1>1, <2>1, <2>3 DEF Retry, Close, Outstanding
    <3> QED BY <1>1, <1>3, <2>1, <3>1 DEF Covered, Moved
  <2> QED BY <2>2, <2>3
<1>7. SettledOnce'
  <2>1. stored' + lost' + Untold(a)' + Waiting' - charged' = stored + lost + Untold(a) + Waiting - charged
    BY <1>1 DEF Retry, Close, Unreserve, Untold, Waiting, Summary
  <2> QED BY <1>1, <1>3, <2>1, SettledKept
<1> QED BY <1>4, <1>5, <1>6, <1>7 DEF Money

LEMMA LeaveRouteMoney ==
    ASSUME IInv, LeaveRoute
    PROVE  Money'
<1> USE UsageAssumption DEF Agents, Nothing, budget, request, durable, history, bounds
<1>1. Shape /\ Money /\ Shape' BY LeaveRouteShape DEF IInv
<1>2. Only(Root) BY <1>1 DEF Only, LeaveRoute, Unreserve, Minus, Shape, TypeOK
<1>3. Moved(Root) BY <1>1, <1>2, MoneyMoves DEF Shape
<1> USE DEF Shape, TypeOK, Phases, Reserving, Holding, Money
<1>4. PendingExact'
  <2>1. /\ pending' = Minus(pending, reserved[Root]) /\ reserved'[Root] = 0
        /\ held'[Root] = held[Root] /\ held[Root].cost \in Nat /\ reserved[Root] \in Nat /\ pending \in Nat
    BY <1>1 DEF LeaveRoute, Unreserve
  <2>2. Minus(pending, reserved[Root]) = pending - reserved[Root]
    BY <1>1, <1>3, ReleaseIsExact
  <2>3. pending' = pending + reserved'[Root] - reserved[Root] + held'[Root].cost - held[Root].cost
    BY <2>1, <2>2
  <2> QED BY <1>1, <1>3, <2>3, PendingKept
<1>5. Exact'
  <2>1. ~over \/ \E b \in Agents : at[b] # "idle" BY DEF LeaveRoute
  <2>2. ~unsure' /\ ~held'[Root].incomplete =>
            /\ ~unsure /\ ~held[Root].incomplete
            /\ spent' - cost' - held'[Root].cost = spent - cost - held[Root].cost
    BY <1>1 DEF LeaveRoute, Unreserve
  <2> QED BY <1>1, <1>2, <1>3, <2>1, <2>2, ExactKept
<1>6. Covered'
  <2>1. spent' + Outstanding(Root)' <= spent + Outstanding(Root)
    BY <1>1 DEF LeaveRoute, Unreserve, Outstanding
  <2> QED BY <1>1, <1>3, <2>1, CoveredKept
<1>7. SettledOnce'
  <2>1. stored' + lost' + Untold(Root)' + Waiting' - charged' = stored + lost + Untold(Root) + Waiting - charged
    BY <1>1 DEF LeaveRoute, Unreserve, Untold, Waiting, Summary
  <2> QED BY <1>1, <1>3, <2>1, SettledKept
<1> QED BY <1>4, <1>5, <1>6, <1>7 DEF Money

LEMMA NextRouteMoney ==
    ASSUME IInv, NextRoute
    PROVE  Money'
<1> USE UsageAssumption DEF Agents, Nothing, budget, request, durable, history, bounds
<1>1. Shape /\ Money /\ Shape' BY NextRouteShape DEF IInv
<1>2. Only(Root) BY <1>1 DEF Only, NextRoute, Dispatch, Close, Unreserve, Minus, Affordable, Unsettled, Shape, TypeOK
<1>3. Moved(Root) BY <1>1, <1>2, MoneyMoves DEF Shape
<1> USE DEF Shape, TypeOK, Phases, Reserving, Holding, Money
<1>4. PendingExact'
  <2>1. /\ held'[Root] = held[Root] /\ held[Root].cost \in Nat
        /\ reserved[Root] = 0 /\ pending \in Nat
    BY <1>1 DEF NextRoute
  <2>2. \/ pending' = pending + Estimate /\ reserved'[Root] = Estimate
        \/ pending' = Minus(pending, reserved[Root]) /\ reserved'[Root] = 0
    BY <1>1 DEF NextRoute, Dispatch, Close, Unreserve
  <2>3. pending' = pending + reserved'[Root] - reserved[Root] + held'[Root].cost - held[Root].cost
    BY <2>1, <2>2 DEF Minus
  <2> QED BY <1>1, <1>3, <2>3, PendingKept
<1>5. Exact'
  <2>1. ~over \/ \E b \in Agents : at[b] # "idle" BY DEF NextRoute
  <2>2. ~unsure' /\ ~held'[Root].incomplete =>
            /\ ~unsure /\ ~held[Root].incomplete
            /\ spent' - cost' - held'[Root].cost = spent - cost - held[Root].cost
    BY <1>1 DEF NextRoute, Dispatch, Close, Unreserve
  <2> QED BY <1>1, <1>2, <1>3, <2>1, <2>2, ExactKept
<1>6. Covered'
  <2>1. spent' = spent /\ at[Root] = "routing" /\ Outstanding(Root) = 0
    BY DEF NextRoute, Outstanding
  <2>2. CASE Affordable
    <3>1. Known /\ cost + pending + Estimate <= MaxCost BY <2>2 DEF Affordable, Unsettled, Known
    <3>2. spent = cost + Total(held) BY <1>1, <2>1, <3>1 DEF Exact
    <3>3. AtRisk <= SumFunction(reserved) BY <1>1, RiskReserved
    <3>4. AtRisk' = AtRisk + Estimate
      BY <1>1, <1>3, <2>1, <2>2 DEF NextRoute, Dispatch, Outstanding, Moved
    <3> QED BY <1>1, <1>3, <2>1, <3>1, <3>2, <3>3, <3>4 DEF Covered, PendingExact, Moved
  <2>3. CASE ~Affordable
    <3>1. Outstanding(Root)' = 0 BY <1>1, <2>1, <2>3 DEF NextRoute, Close, Outstanding
    <3> QED BY <1>1, <1>3, <2>1, <3>1 DEF Covered, Moved
  <2> QED BY <2>2, <2>3
<1>7. SettledOnce'
  <2>1. stored' + lost' + Untold(Root)' + Waiting' - charged' = stored + lost + Untold(Root) + Waiting - charged
    BY <1>1 DEF NextRoute, Dispatch, Close, Unreserve, Untold, Waiting, Summary
  <2> QED BY <1>1, <1>3, <2>1, SettledKept
<1> QED BY <1>4, <1>5, <1>6, <1>7 DEF Money

LEMMA GiveUpMoney ==
    ASSUME IInv, NEW a \in Agents, GiveUp(a)
    PROVE  Money'
<1> USE UsageAssumption DEF Agents, Nothing, budget, request, durable, history, bounds
<1>1. Shape /\ Money /\ Shape' BY GiveUpShape DEF IInv
<1>2. Only(a) BY <1>1 DEF Only, GiveUp, Close, Unreserve, Minus, Shape, TypeOK
<1>3. Moved(a) BY <1>1, <1>2, MoneyMoves DEF Shape
<1> USE DEF Shape, TypeOK, Phases, Reserving, Holding, Money
<1>4. PendingExact'
  <2>1. pending' = pending + reserved'[a] - reserved[a] + held'[a].cost - held[a].cost
    BY <1>1, <1>3, ReleaseIsExact DEF GiveUp, Close, Unreserve
  <2> QED BY <1>1, <1>3, <2>1, PendingKept
<1>5. Exact'
  <2>1. ~over \/ \E b \in Agents : at[b] # "idle" BY DEF GiveUp
  <2>2. ~unsure' /\ ~held'[a].incomplete =>
            /\ ~unsure /\ ~held[a].incomplete
            /\ spent' - cost' - held'[a].cost = spent - cost - held[a].cost
    BY <1>1 DEF GiveUp, Close, Unreserve
  <2> QED BY <1>1, <1>2, <1>3, <2>1, <2>2, ExactKept
<1>6. Covered'
  <2>1. spent' + Outstanding(a)' <= spent + Outstanding(a)
    BY <1>1 DEF GiveUp, Close, Unreserve, Outstanding
  <2> QED BY <1>1, <1>3, <2>1, CoveredKept
<1>7. SettledOnce'
  <2>1. stored' + lost' + Untold(a)' + Waiting' - charged' = stored + lost + Untold(a) + Waiting - charged
    BY <1>1 DEF GiveUp, Close, Unreserve, Untold, Waiting, Summary
  <2> QED BY <1>1, <1>3, <2>1, SettledKept
<1> QED BY <1>4, <1>5, <1>6, <1>7 DEF Money

LEMMA InterruptMoney ==
    ASSUME IInv, NEW a \in Agents, NEW c \in 0 .. Estimate, Interrupt(a, c)
    PROVE  Money'
<1> USE UsageAssumption DEF Agents, Nothing, budget, request, durable, history, bounds
<1>1. Shape /\ Money /\ Shape' BY InterruptShape DEF IInv
<1>2. Only(a) BY <1>1 DEF Only, Interrupt, Plus, Minus, Shape, TypeOK
<1>3. Moved(a) BY <1>1, <1>2, MoneyMoves DEF Shape
<1> USE DEF Shape, TypeOK, Phases, Reserving, Holding, Money
<1>4. PendingExact'
  <2>1. /\ held'[a].cost = held[a].cost /\ held[a].cost \in Nat
        /\ reserved[a] \in Nat /\ pending \in Nat
    BY <1>1 DEF Interrupt, Plus
  <2>2. \/ pending' = Minus(pending, reserved[a]) /\ reserved'[a] = 0
        \/ pending' = Minus(pending, reserved[a] - reserved[a]) /\ reserved'[a] = reserved[a]
    <3>1. CASE a = Root
      <4>1. reserved[a] - 0 = reserved[a] BY <2>1
      <4> QED BY <1>1, <3>1, <4>1 DEF Interrupt
    <3>2. CASE a # Root
      BY <1>1, <3>2 DEF Interrupt
    <3> QED BY <3>1, <3>2
  <2>3. Minus(pending, reserved[a]) = pending - reserved[a]
    BY <1>1, <1>3, ReleaseIsExact
  <2>4. pending' = pending + reserved'[a] - reserved[a] + held'[a].cost - held[a].cost
    <3>1. CASE pending' = Minus(pending, reserved[a]) /\ reserved'[a] = 0
      BY <2>1, <2>3, <3>1
    <3>2. CASE pending' = Minus(pending, reserved[a] - reserved[a]) /\ reserved'[a] = reserved[a]
      BY <2>1, <3>2 DEF Minus
    <3> QED BY <2>2, <3>1, <3>2
  <2> QED BY <1>1, <1>3, <2>4, PendingKept
<1>5. Exact'
  <2>1. ~over \/ \E b \in Agents : at[b] # "idle" BY DEF Interrupt
  <2>2. ASSUME ~unsure', ~held'[a].incomplete
        PROVE  /\ ~unsure /\ ~held[a].incomplete
               /\ spent' - cost' - held'[a].cost = spent - cost - held[a].cost
    <3>1. held[a] = usage[a] /\ held'[a] = Plus(usage[a], 0, at[a] = "sent")
      BY <1>1 DEF Interrupt
    <3>2. cost' = cost /\ unsure' = unsure /\ spent' = spent + c /\ (at[a] # "sent" => c = 0)
      BY DEF Interrupt
    <3>3. held'[a].incomplete <=> held[a].incomplete \/ at[a] = "sent"
      <4> DEFINE wire == at[a] = "sent"
      <4>1. wire \in BOOLEAN /\ held'[a] = Plus(held[a], 0, wire) BY <3>1
      <4> HIDE DEF wire
      <4>3. held[a].incomplete \in BOOLEAN /\ held'[a].incomplete = (held[a].incomplete \/ wire)
        BY <1>1, <4>1 DEF Plus
      <4>2. held'[a].incomplete <=> held[a].incomplete \/ wire BY <4>3, Zenon
      <4> QED BY <4>2 DEF wire
    <3>4. held'[a].cost = held[a].cost
      <4>1. held'[a].cost = held[a].cost + 0 BY <3>1 DEF Plus
      <4>2. held[a].cost \in Nat BY <1>1
      <4> QED BY <4>1, <4>2
    <3>5. ~held[a].incomplete /\ at[a] # "sent" BY <2>2, <3>3, Zenon
    <3>6. spent \in Nat /\ cost \in Nat /\ held[a].cost \in Nat BY <1>1
    <3>7. ~unsure BY <2>2, <3>2, Zenon
    <3> QED BY <3>2, <3>4, <3>5, <3>6, <3>7
  <2> QED BY <1>1, <1>2, <1>3, <2>1, <2>2, ExactKept
<1>6. Covered'
  <2>1. spent' + Outstanding(a)' <= spent + Outstanding(a)
    BY <1>1 DEF Interrupt, Plus, Minus, Outstanding
  <2> QED BY <1>1, <1>3, <2>1, CoveredKept
<1>7. SettledOnce'
  <2>1. stored' + lost' + Untold(a)' + Waiting' - charged' = stored + lost + Untold(a) + Waiting - charged
    BY <1>1 DEF Interrupt, Plus, Minus, Untold, Waiting, Summary
  <2> QED BY <1>1, <1>3, <2>1, SettledKept
<1> QED BY <1>4, <1>5, <1>6, <1>7 DEF Money

LEMMA PricedMoney ==
    ASSUME IInv, Priced
    PROVE  Money'
<1> USE UsageAssumption DEF Agents, Nothing, budget, request, durable, history, bounds
<1>1. Shape /\ Money /\ Shape' BY PricedShape DEF IInv
<1>2. Only(Root) BY <1>1 DEF Only, Priced, Unreserve, Minus, Shape, TypeOK
<1>3. Moved(Root) BY <1>1, <1>2, MoneyMoves DEF Shape
<1> USE DEF Shape, TypeOK, Phases, Reserving, Holding, Money
<1>4. PendingExact'
  <2>1. /\ pending' = Minus(pending, reserved[Root]) /\ reserved'[Root] = 0
        /\ held'[Root] = held[Root] /\ held[Root].cost \in Nat /\ reserved[Root] \in Nat /\ pending \in Nat
    BY <1>1 DEF Priced, Unreserve
  <2>2. Minus(pending, reserved[Root]) = pending - reserved[Root]
    BY <1>1, <1>3, ReleaseIsExact
  <2>3. pending' = pending + reserved'[Root] - reserved[Root] + held'[Root].cost - held[Root].cost
    BY <2>1, <2>2
  <2> QED BY <1>1, <1>3, <2>3, PendingKept
<1>5. Exact'
  <2>1. ~over \/ \E b \in Agents : at[b] # "idle" BY DEF Priced
  <2>2. ~unsure' /\ ~held'[Root].incomplete =>
            /\ ~unsure /\ ~held[Root].incomplete
            /\ spent' - cost' - held'[Root].cost = spent - cost - held[Root].cost
    BY <1>1 DEF Priced, Unreserve
  <2> QED BY <1>1, <1>2, <1>3, <2>1, <2>2, ExactKept
<1>6. Covered'
  <2>1. spent' + Outstanding(Root)' <= spent + Outstanding(Root)
    BY <1>1 DEF Priced, Unreserve, Outstanding
  <2> QED BY <1>1, <1>3, <2>1, CoveredKept
<1>7. SettledOnce'
  <2>1. stored' + lost' + Untold(Root)' + Waiting' - charged' = stored + lost + Untold(Root) + Waiting - charged
    BY <1>1 DEF Priced, Unreserve, Untold, Waiting, Summary
  <2> QED BY <1>1, <1>3, <2>1, SettledKept
<1> QED BY <1>4, <1>5, <1>6, <1>7 DEF Money

LEMMA SettleMoney ==
    ASSUME IInv, NEW a \in Agents, Settle(a)
    PROVE  Money'
<1> USE UsageAssumption DEF Agents, Nothing, budget, request, durable, history, bounds
<1>1. Shape /\ Money /\ Shape' BY SettleShape DEF IInv
<1>2. Only(a) BY <1>1 DEF Only, Settle, ReadyToSettle, Release, Add, Minus, Shape, TypeOK
<1>3. Moved(a) BY <1>1, <1>2, MoneyMoves DEF Shape
<1> USE DEF Shape, TypeOK, Phases, Reserving, Holding, Money
<1>4. PendingExact'
  <2>1. /\ pending' = Minus(Minus(pending, reserved[a]), held[a].cost)
        /\ reserved'[a] = 0 /\ held'[a].cost = 0
        /\ held[a].cost \in Nat /\ reserved[a] \in Nat /\ pending \in Nat
    BY <1>1 DEF Settle, Release
  <2>2. pending' = pending - reserved[a] - held[a].cost
    BY <1>1, <1>3, <2>1, ReleaseIsExact
  <2>3. pending' = pending + reserved'[a] - reserved[a] + held'[a].cost - held[a].cost
    BY <2>1, <2>2
  <2> QED BY <1>1, <1>3, <2>3, PendingKept
<1>5. Exact'
  <2>1. ~over \/ \E b \in Agents : at[b] # "idle" BY DEF Settle, ReadyToSettle
  <2>2. ~unsure' /\ ~held'[a].incomplete =>
            /\ ~unsure /\ ~held[a].incomplete
            /\ spent' - cost' - held'[a].cost = spent - cost - held[a].cost
    BY <1>1 DEF Settle, ReadyToSettle, Release, Add
  <2> QED BY <1>1, <1>2, <1>3, <2>1, <2>2, ExactKept
<1>6. Covered'
  <2>1. spent' + Outstanding(a)' <= spent + Outstanding(a)
    BY <1>1 DEF Settle, ReadyToSettle, Release, Add, Outstanding
  <2> QED BY <1>1, <1>3, <2>1, CoveredKept
<1>7. SettledOnce'
  <2>1. stored' + lost' + Untold(a)' + Waiting' - charged' = stored + lost + Untold(a) + Waiting - charged
    BY <1>1 DEF Settle, ReadyToSettle, Release, Add, Untold, Waiting, Summary
  <2> QED BY <1>1, <1>3, <2>1, SettledKept
<1> QED BY <1>4, <1>5, <1>6, <1>7 DEF Money

LEMMA StoreMoney ==
    ASSUME IInv, NEW a \in Agents, Store(a)
    PROVE  Money'
<1> USE UsageAssumption DEF Agents, Nothing, budget, request, durable, history, bounds
<1>1. Shape /\ Money /\ Shape' BY StoreShape DEF IInv
<1>2. Only(a) BY <1>1 DEF Only, Store, Forget, Shape, TypeOK
<1>3. Moved(a) BY <1>1, <1>2, MoneyMoves DEF Shape
<1> USE DEF Shape, TypeOK, Phases, Reserving, Holding, Money
<1>4. PendingExact'
  <2>1. pending' = pending + reserved'[a] - reserved[a] + held'[a].cost - held[a].cost
    BY <1>1, <1>3 DEF Store, Forget
  <2> QED BY <1>1, <1>3, <2>1, PendingKept
<1>5. Exact'
  <2>1. ~over \/ \E b \in Agents : at[b] # "idle" BY DEF Store
  <2>2. ~unsure' /\ ~held'[a].incomplete =>
            /\ ~unsure /\ ~held[a].incomplete
            /\ spent' - cost' - held'[a].cost = spent - cost - held[a].cost
    BY <1>1 DEF Store, Forget
  <2> QED BY <1>1, <1>2, <1>3, <2>1, <2>2, ExactKept
<1>6. Covered'
  <2>1. spent' + Outstanding(a)' <= spent + Outstanding(a)
    BY <1>1 DEF Store, Forget, Outstanding
  <2> QED BY <1>1, <1>3, <2>1, CoveredKept
<1>7. SettledOnce'
  <2>1. stored' + lost' + Untold(a)' + Waiting' - charged' = stored + lost + Untold(a) + Waiting - charged
    BY <1>1 DEF Store, Forget, Untold, Waiting, Summary
  <2> QED BY <1>1, <1>3, <2>1, SettledKept
<1> QED BY <1>4, <1>5, <1>6, <1>7 DEF Money

LEMMA StoreFailsMoney ==
    ASSUME IInv, NEW a \in Agents, StoreFails(a)
    PROVE  Money'
<1> USE UsageAssumption DEF Agents, Nothing, budget, request, durable, history, bounds
<1>1. Shape /\ Money /\ Shape' BY StoreFailsShape DEF IInv
<1>2. Only(a) BY <1>1 DEF Only, StoreFails, Forget, Shape, TypeOK
<1>3. Moved(a) BY <1>1, <1>2, MoneyMoves DEF Shape
<1> USE DEF Shape, TypeOK, Phases, Reserving, Holding, Money
<1>4. PendingExact'
  <2>1. pending' = pending + reserved'[a] - reserved[a] + held'[a].cost - held[a].cost
    BY <1>1, <1>3 DEF StoreFails, Forget
  <2> QED BY <1>1, <1>3, <2>1, PendingKept
<1>5. Exact'
  <2>1. ~over \/ \E b \in Agents : at[b] # "idle" BY DEF StoreFails
  <2>2. ~unsure' /\ ~held'[a].incomplete =>
            /\ ~unsure /\ ~held[a].incomplete
            /\ spent' - cost' - held'[a].cost = spent - cost - held[a].cost
    BY <1>1 DEF StoreFails, Forget
  <2> QED BY <1>1, <1>2, <1>3, <2>1, <2>2, ExactKept
<1>6. Covered'
  <2>1. spent' + Outstanding(a)' <= spent + Outstanding(a)
    BY <1>1 DEF StoreFails, Forget, Outstanding
  <2> QED BY <1>1, <1>3, <2>1, CoveredKept
<1>7. SettledOnce'
  <2>1. stored' + lost' + Untold(a)' + Waiting' - charged' = stored + lost + Untold(a) + Waiting - charged
    BY <1>1 DEF StoreFails, Forget, Untold, Waiting, Summary
  <2> QED BY <1>1, <1>3, <2>1, SettledKept
<1> QED BY <1>4, <1>5, <1>6, <1>7 DEF Money

LEMMA PutSummaryMoney ==
    ASSUME IInv, PutSummary
    PROVE  Money'
<1> USE UsageAssumption DEF Agents, Nothing, budget, request, durable, history, bounds
<1>1. Shape /\ Money /\ Shape' BY PutSummaryShape DEF IInv
<1>2. Only(Root) BY <1>1 DEF Only, PutSummary, Shape, TypeOK
<1>3. Moved(Root) BY <1>1, <1>2, MoneyMoves DEF Shape
<1> USE DEF Shape, TypeOK, Phases, Reserving, Holding, Money
<1>4. PendingExact'
  <2>1. pending' = pending + reserved'[Root] - reserved[Root] + held'[Root].cost - held[Root].cost
    BY <1>1, <1>3 DEF PutSummary
  <2> QED BY <1>1, <1>3, <2>1, PendingKept
<1>5. Exact'
  <2>1. ~over \/ \E b \in Agents : at[b] # "idle" BY DEF PutSummary
  <2>2. ~unsure' /\ ~held'[Root].incomplete =>
            /\ ~unsure /\ ~held[Root].incomplete
            /\ spent' - cost' - held'[Root].cost = spent - cost - held[Root].cost
    BY <1>1 DEF PutSummary
  <2> QED BY <1>1, <1>2, <1>3, <2>1, <2>2, ExactKept
<1>6. Covered'
  <2>1. spent' + Outstanding(Root)' <= spent + Outstanding(Root)
    BY <1>1 DEF PutSummary, Outstanding
  <2> QED BY <1>1, <1>3, <2>1, CoveredKept
<1>7. SettledOnce'
  <2>1. stored' + lost' + Untold(Root)' + Waiting' - charged' = stored + lost + Untold(Root) + Waiting - charged
    BY <1>1 DEF PutSummary, Untold, Waiting, Summary
  <2> QED BY <1>1, <1>3, <2>1, SettledKept
<1> QED BY <1>4, <1>5, <1>6, <1>7 DEF Money

LEMMA PutFailsMoney ==
    ASSUME IInv, PutFails
    PROVE  Money'
<1> USE UsageAssumption DEF Agents, Nothing, budget, request, durable, history, bounds
<1>1. Shape /\ Money /\ Shape' BY PutFailsShape DEF IInv
<1>2. Only(Root) BY <1>1 DEF Only, PutFails, Shape, TypeOK
<1>3. Moved(Root) BY <1>1, <1>2, MoneyMoves DEF Shape
<1> USE DEF Shape, TypeOK, Phases, Reserving, Holding, Money
<1>4. PendingExact'
  <2>1. pending' = pending + reserved'[Root] - reserved[Root] + held'[Root].cost - held[Root].cost
    BY <1>1, <1>3 DEF PutFails
  <2> QED BY <1>1, <1>3, <2>1, PendingKept
<1>5. Exact'
  <2>1. ~over \/ \E b \in Agents : at[b] # "idle" BY DEF PutFails
  <2>2. ~unsure' /\ ~held'[Root].incomplete =>
            /\ ~unsure /\ ~held[Root].incomplete
            /\ spent' - cost' - held'[Root].cost = spent - cost - held[Root].cost
    BY <1>1 DEF PutFails
  <2> QED BY <1>1, <1>2, <1>3, <2>1, <2>2, ExactKept
<1>6. Covered'
  <2>1. spent' + Outstanding(Root)' <= spent + Outstanding(Root)
    BY <1>1 DEF PutFails, Outstanding
  <2> QED BY <1>1, <1>3, <2>1, CoveredKept
<1>7. SettledOnce'
  <2>1. stored' + lost' + Untold(Root)' + Waiting' - charged' = stored + lost + Untold(Root) + Waiting - charged
    BY <1>1 DEF PutFails, Untold, Waiting, Summary
  <2> QED BY <1>1, <1>3, <2>1, SettledKept
<1> QED BY <1>4, <1>5, <1>6, <1>7 DEF Money

LEMMA ClaimSummaryMoney ==
    ASSUME IInv, ClaimSummary
    PROVE  Money'
<1> USE UsageAssumption DEF Agents, Nothing, budget, request, durable, history, bounds
<1>1. Shape /\ Money /\ Shape' BY ClaimSummaryShape DEF IInv
<1>2. Only(Root) BY <1>1 DEF Only, ClaimSummary, ChargeEntry, Shape, TypeOK
<1>3. Moved(Root) BY <1>1, <1>2, MoneyMoves DEF Shape
<1> USE DEF Shape, TypeOK, Phases, Reserving, Holding, Money
<1>4. PendingExact'
  <2>1. pending' = pending + reserved'[Root] - reserved[Root] + held'[Root].cost - held[Root].cost
    BY <1>1, <1>3 DEF ClaimSummary, ChargeEntry
  <2> QED BY <1>1, <1>3, <2>1, PendingKept
<1>5. Exact'
  <2>1. ~over \/ \E b \in Agents : at[b] # "idle" BY DEF ClaimSummary
  <2>2. ~unsure' /\ ~held'[Root].incomplete =>
            /\ ~unsure /\ ~held[Root].incomplete
            /\ spent' - cost' - held'[Root].cost = spent - cost - held[Root].cost
    BY <1>1 DEF ClaimSummary, ChargeEntry
  <2> QED BY <1>1, <1>2, <1>3, <2>1, <2>2, ExactKept
<1>6. Covered'
  <2>1. spent' + Outstanding(Root)' <= spent + Outstanding(Root)
    BY <1>1 DEF ClaimSummary, ChargeEntry, Outstanding
  <2> QED BY <1>1, <1>3, <2>1, CoveredKept
<1>7. SettledOnce'
  <2>1. stored' + lost' + Untold(Root)' + Waiting' - charged' = stored + lost + Untold(Root) + Waiting - charged
    BY <1>1 DEF ClaimSummary, ChargeEntry, Untold, Waiting, Summary
  <2> QED BY <1>1, <1>3, <2>1, SettledKept
<1> QED BY <1>4, <1>5, <1>6, <1>7 DEF Money

LEMMA ClaimFailsMoney ==
    ASSUME IInv, ClaimFails
    PROVE  Money'
<1> USE UsageAssumption DEF Agents, Nothing, budget, request, durable, history, bounds
<1>1. Shape /\ Money /\ Shape' BY ClaimFailsShape DEF IInv
<1>2. Only(Root) BY <1>1 DEF Only, ClaimFails, Release, Forget, Minus, Shape, TypeOK
<1>3. Moved(Root) BY <1>1, <1>2, MoneyMoves DEF Shape
<1> USE DEF Shape, TypeOK, Phases, Reserving, Holding, Money
<1>4. PendingExact'
  <2>1. /\ pending' = Minus(Minus(pending, reserved[Root]), held[Root].cost)
        /\ reserved'[Root] = 0 /\ held'[Root].cost = 0
        /\ held[Root].cost \in Nat /\ reserved[Root] \in Nat /\ pending \in Nat
    BY <1>1 DEF ClaimFails, Release
  <2>2. pending' = pending - reserved[Root] - held[Root].cost
    BY <1>1, <1>3, <2>1, ReleaseIsExact
  <2>3. pending' = pending + reserved'[Root] - reserved[Root] + held'[Root].cost - held[Root].cost
    BY <2>1, <2>2
  <2> QED BY <1>1, <1>3, <2>3, PendingKept
<1>5. Exact' BY <1>1, <1>3 DEF ClaimFails, Release, Forget, Minus, Exact, Known, OneLevel
<1>6. Covered'
  <2>1. spent' + Outstanding(Root)' <= spent + Outstanding(Root)
    BY <1>1 DEF ClaimFails, Release, Forget, Outstanding
  <2> QED BY <1>1, <1>3, <2>1, CoveredKept
<1>7. SettledOnce'
  <2>1. stored' + lost' + Untold(Root)' + Waiting' - charged' = stored + lost + Untold(Root) + Waiting - charged
    BY <1>1 DEF ClaimFails, Release, Forget, Untold, Waiting, Summary
  <2> QED BY <1>1, <1>3, <2>1, SettledKept
<1> QED BY <1>4, <1>5, <1>6, <1>7 DEF Money

LEMMA TransferSummaryMoney ==
    ASSUME IInv, TransferSummary
    PROVE  Money'
<1> USE UsageAssumption DEF Agents, Nothing, budget, request, durable, history, bounds
<1>1. Shape /\ Money /\ Shape' BY TransferSummaryShape DEF IInv
<1>2. Only(Root) BY <1>1 DEF Only, TransferSummary, Release, Add, Forget, Minus, Shape, TypeOK
<1>3. Moved(Root) BY <1>1, <1>2, MoneyMoves DEF Shape
<1> USE DEF Shape, TypeOK, Phases, Reserving, Holding, Money
<1>4. PendingExact'
  <2>1. /\ pending' = Minus(Minus(pending, reserved[Root]), held[Root].cost)
        /\ reserved'[Root] = 0 /\ held'[Root].cost = 0
        /\ held[Root].cost \in Nat /\ reserved[Root] \in Nat /\ pending \in Nat
    BY <1>1 DEF TransferSummary, Release
  <2>2. pending' = pending - reserved[Root] - held[Root].cost
    BY <1>1, <1>3, <2>1, ReleaseIsExact
  <2>3. pending' = pending + reserved'[Root] - reserved[Root] + held'[Root].cost - held[Root].cost
    BY <2>1, <2>2
  <2> QED BY <1>1, <1>3, <2>3, PendingKept
<1>5. Exact'
  <2>1. ~over \/ \E b \in Agents : at[b] # "idle" BY DEF TransferSummary
  <2>2. ~unsure' /\ ~held'[Root].incomplete =>
            /\ ~unsure /\ ~held[Root].incomplete
            /\ spent' - cost' - held'[Root].cost = spent - cost - held[Root].cost
    BY <1>1 DEF TransferSummary, Release, Add, Forget
  <2> QED BY <1>1, <1>2, <1>3, <2>1, <2>2, ExactKept
<1>6. Covered'
  <2>1. spent' + Outstanding(Root)' <= spent + Outstanding(Root)
    BY <1>1 DEF TransferSummary, Release, Add, Forget, Outstanding
  <2> QED BY <1>1, <1>3, <2>1, CoveredKept
<1>7. SettledOnce'
  <2>1. stored' + lost' + Untold(Root)' + Waiting' - charged' = stored + lost + Untold(Root) + Waiting - charged
    BY <1>1 DEF TransferSummary, Release, Add, Forget, Untold, Waiting, Summary
  <2> QED BY <1>1, <1>3, <2>1, SettledKept
<1> QED BY <1>4, <1>5, <1>6, <1>7 DEF Money

LEMMA SummaryHitMoney ==
    ASSUME IInv, SummaryHit
    PROVE  Money'
<1> USE UsageAssumption DEF Agents, Nothing, budget, request, durable, history, bounds
<1>1. Shape /\ Money /\ Shape' BY SummaryHitShape DEF IInv
<1>2. Only(Root) BY <1>1 DEF Only, SummaryHit, ChargeEntry, Turn, Shape, TypeOK
<1>3. Moved(Root) BY <1>1, <1>2, MoneyMoves DEF Shape
<1> USE DEF Shape, TypeOK, Phases, Reserving, Holding, Money
<1>4. PendingExact'
  <2>1. pending' = pending + reserved'[Root] - reserved[Root] + held'[Root].cost - held[Root].cost
    BY <1>1, <1>3 DEF SummaryHit, ChargeEntry, Turn
  <2> QED BY <1>1, <1>3, <2>1, PendingKept
<1>5. Exact'
  <2>1. ~over \/ \E b \in Agents : at[b] # "idle" BY DEF SummaryHit
  <2>2. ~unsure' /\ ~held'[Root].incomplete =>
            /\ ~unsure /\ ~held[Root].incomplete
            /\ spent' - cost' - held'[Root].cost = spent - cost - held[Root].cost
    BY <1>1 DEF SummaryHit, ChargeEntry, Turn
  <2> QED BY <1>1, <1>2, <1>3, <2>1, <2>2, ExactKept
<1>6. Covered'
  <2>1. spent' + Outstanding(Root)' <= spent + Outstanding(Root)
    BY <1>1 DEF SummaryHit, ChargeEntry, Turn, Outstanding
  <2> QED BY <1>1, <1>3, <2>1, CoveredKept
<1>7. SettledOnce'
  <2>1. stored' + lost' + Untold(Root)' + Waiting' - charged' = stored + lost + Untold(Root) + Waiting - charged
    BY <1>1 DEF SummaryHit, ChargeEntry, Turn, Untold, Waiting, Summary
  <2> QED BY <1>1, <1>3, <2>1, SettledKept
<1> QED BY <1>4, <1>5, <1>6, <1>7 DEF Money

LEMMA StopMoney ==
    ASSUME IInv, Stop
    PROVE  Money'
<1> USE UsageAssumption DEF Agents, Nothing, budget, request, durable, history, bounds
<1>1. Shape /\ Money /\ Shape' BY StopShape DEF IInv
<1>2. Only(Root) BY <1>1 DEF Only, Stop, Shape, TypeOK
<1>3. Moved(Root) BY <1>1, <1>2, MoneyMoves DEF Shape
<1> USE DEF Shape, TypeOK, Phases, Reserving, Holding, Money
<1>4. PendingExact'
  <2>1. pending' = pending + reserved'[Root] - reserved[Root] + held'[Root].cost - held[Root].cost
    BY <1>1, <1>3 DEF Stop
  <2> QED BY <1>1, <1>3, <2>1, PendingKept
<1>5. Exact'
  <2>1. ~over \/ \E b \in Agents : at[b] # "idle" BY DEF Stop
  <2>2. ~unsure' /\ ~held'[Root].incomplete =>
            /\ ~unsure /\ ~held[Root].incomplete
            /\ spent' - cost' - held'[Root].cost = spent - cost - held[Root].cost
    BY <1>1 DEF Stop
  <2> QED BY <1>1, <1>2, <1>3, <2>1, <2>2, ExactKept
<1>6. Covered'
  <2>1. spent' + Outstanding(Root)' <= spent + Outstanding(Root)
    BY <1>1 DEF Stop, Outstanding
  <2> QED BY <1>1, <1>3, <2>1, CoveredKept
<1>7. SettledOnce'
  <2>1. stored' + lost' + Untold(Root)' + Waiting' - charged' = stored + lost + Untold(Root) + Waiting - charged
    BY <1>1 DEF Stop, Untold, Waiting, Summary
  <2> QED BY <1>1, <1>3, <2>1, SettledKept
<1> QED BY <1>4, <1>5, <1>6, <1>7 DEF Money
LEMMA NewRunMoney ==
    ASSUME IInv, NewRun
    PROVE  Money'
<1>1. Shape /\ Money /\ Shape' BY NewRunShape DEF IInv
<1>2. /\ \A a \in Agents : at[a] = "idle" /\ reserved[a] = 0 /\ held'[a] = Nothing
      /\ reserved' = reserved /\ at' = at /\ usage' = usage
      /\ cost' = 0 /\ pending' = 0 /\ spent' = 0 /\ ~unsure'
      /\ UNCHANGED <<stored, entry, charged, lost>>
  BY <1>1 DEF NewRun, Fresh, request, durable, Shape, TypeOK
<1>3. SumFunction(reserved)' = 0
  <2>1. reserved' \in [Agents -> Nat]
    <3>1. {0, Estimate} \subseteq Nat BY UsageAssumption
    <3> QED BY <1>1, <3>1 DEF Shape, TypeOK
  <2> QED BY <1>2, <2>1, SumZero
<1>4. Total(held)' = 0
  <2> DEFINE f == [a \in Agents |-> held'[a].cost]
  <2>1. f \in [Agents -> Nat] BY <1>1 DEF Shape, TypeOK
  <2>2. \A a \in Agents : f[a] = 0 BY <1>2 DEF Nothing
  <2>3. Total(held)' = SumFunction(f) BY DEF Total
  <2> HIDE DEF f
  <2> QED BY <2>1, <2>2, <2>3, SumZero
<1>5. AtRisk' = 0
  <2> DEFINE f == [a \in Agents |-> Outstanding(a)']
  <2>1. f \in [Agents -> Nat] BY UsageAssumption DEF Outstanding
  <2>2. \A a \in Agents : f[a] = 0 BY <1>2 DEF Outstanding
  <2>3. AtRisk' = SumFunction(f) BY DEF AtRisk
  <2> HIDE DEF f
  <2> QED BY <2>1, <2>2, <2>3, SumZero
<1>6. InFlight' = InFlight BY <1>2 DEF InFlight, Untold
<1>7. PendingExact' BY <1>2, <1>3, <1>4 DEF PendingExact
<1>8. Exact' BY <1>2, <1>4 DEF Exact
<1>9. Covered' BY <1>2, <1>5, UsageAssumption DEF Covered
<1>10. SettledOnce' BY <1>1, <1>2, <1>6 DEF SettledOnce, Money
<1> QED BY <1>7, <1>8, <1>9, <1>10 DEF Money

LEMMA CrashMoney ==
    ASSUME IInv, Crash
    PROVE  Money'
<1>1. Shape /\ Money /\ Shape' BY CrashShape DEF IInv
<1>2. /\ \A a \in Agents : /\ at'[a] = "idle" /\ reserved'[a] = 0
                           /\ held'[a] = Nothing /\ usage'[a] = Nothing
      /\ cost' = 0 /\ pending' = 0 /\ spent' = 0 /\ ~unsure'
      /\ lost' = lost + InFlight
      /\ UNCHANGED <<stored, entry, charged>>
  BY DEF Crash, Fresh, durable
<1>3. SumFunction(reserved)' = 0
  <2>1. reserved' \in [Agents -> Nat]
    <3>1. {0, Estimate} \subseteq Nat BY UsageAssumption
    <3> QED BY <1>1, <3>1 DEF Shape, TypeOK
  <2> QED BY <1>2, <2>1, SumZero
<1>4. Total(held)' = 0
  <2> DEFINE f == [a \in Agents |-> held'[a].cost]
  <2>1. f \in [Agents -> Nat] BY <1>1 DEF Shape, TypeOK
  <2>2. \A a \in Agents : f[a] = 0 BY <1>2 DEF Nothing
  <2>3. Total(held)' = SumFunction(f) BY DEF Total
  <2> HIDE DEF f
  <2> QED BY <2>1, <2>2, <2>3, SumZero
<1>5. AtRisk' = 0
  <2> DEFINE f == [a \in Agents |-> Outstanding(a)']
  <2>1. f \in [Agents -> Nat] BY UsageAssumption DEF Outstanding
  <2>2. \A a \in Agents : f[a] = 0 BY <1>2 DEF Outstanding
  <2>3. AtRisk' = SumFunction(f) BY DEF AtRisk
  <2> HIDE DEF f
  <2> QED BY <2>1, <2>2, <2>3, SumZero
<1>6. InFlight' = 0
  <2> DEFINE f == [a \in Agents |-> Untold(a)']
  <2>1. f \in [Agents -> Nat] BY <1>2 DEF Untold, Nothing
  <2>2. \A a \in Agents : f[a] = 0 BY <1>2 DEF Untold, Nothing
  <2>3. InFlight' = SumFunction(f) BY DEF InFlight
  <2> HIDE DEF f
  <2> QED BY <2>1, <2>2, <2>3, SumZero
<1>7. PendingExact' BY <1>2, <1>3, <1>4 DEF PendingExact
<1>8. Exact' BY <1>2, <1>4 DEF Exact
<1>9. Covered' BY <1>2, <1>5, UsageAssumption DEF Covered
<1>10. SettledOnce'
  <2>1. InFlight \in Nat BY <1>1, SumsAreNatural DEF Shape
  <2> QED BY <1>1, <1>2, <1>6, <2>1 DEF SettledOnce, Money, Shape, TypeOK
<1> QED BY <1>7, <1>8, <1>9, <1>10 DEF Money

-----------------------------------------------------------------------------
(* The theorems                                                             *)

LEMMA InitHolds == Init => IInv
<1> SUFFICES ASSUME Init PROVE IInv OBVIOUS
<1> USE UsageAssumption
<1>1. /\ \A a \in Agents : /\ at[a] = "idle" /\ reserved[a] = 0
                           /\ held[a] = Nothing /\ usage[a] = Nothing
      /\ cost = 0 /\ pending = 0 /\ spent = 0 /\ stored = 0 /\ charged = 0 /\ lost = 0
      /\ entry = [state |-> "none", cost |-> 0] /\ purpose = "model"
  BY DEF Init
<1>2. Shape
  <2>1. [a \in Agents |-> Nothing] \in [Agents -> Records] BY DEF Records, Nothing
  <2>2. held \in [Agents -> Records] /\ usage \in [Agents -> Records] BY <2>1 DEF Init
  <2>3. reserved \in [Agents -> {0, Estimate}] /\ at = [a \in Agents |-> "idle"] BY DEF Init
  <2>4. at \in [Agents -> {"idle", "sent", "failed", "routing", "answered", "priced", "closing",
                          "storing", "claimed", "settled"}]
    BY <2>3
  <2>5. unsure \in BOOLEAN /\ over \in BOOLEAN /\ purpose \in {"model", "summary"}
        /\ entry \in [state : {"none", "pending", "settled"}, cost : Nat]
    BY DEF Init
  <2>6. TypeOK BY <1>1, <2>2, <2>3, <2>4, <2>5 DEF TypeOK, Records
  <2>7. Phases BY <1>1 DEF Phases, Holding, Reserving
  <2>8. OneLevel /\ Summary BY <1>1 DEF OneLevel, Summary, Agents
  <2> QED BY <2>6, <2>7, <2>8 DEF Shape
<1>3. SumFunction(reserved) = 0
  <2>1. {0, Estimate} \subseteq Nat OBVIOUS
  <2>2. reserved \in [Agents -> Nat] BY <1>2, <2>1 DEF Shape, TypeOK
  <2> QED BY <1>1, <2>2, SumZero
<1>4. Total(held) = 0
  <2> DEFINE f == [a \in Agents |-> held[a].cost]
  <2>1. f \in [Agents -> Nat] BY <1>1 DEF Nothing
  <2>2. \A a \in Agents : f[a] = 0 BY <1>1 DEF Nothing
  <2>3. Total(held) = SumFunction(f) BY DEF Total
  <2> HIDE DEF f
  <2> QED BY <2>1, <2>2, <2>3, SumZero
<1>5. AtRisk = 0
  <2> DEFINE f == [a \in Agents |-> Outstanding(a)]
  <2>1. f \in [Agents -> Nat] BY DEF Outstanding
  <2>2. \A a \in Agents : f[a] = 0 BY <1>1 DEF Outstanding
  <2>3. AtRisk = SumFunction(f) BY DEF AtRisk
  <2> HIDE DEF f
  <2> QED BY <2>1, <2>2, <2>3, SumZero
<1>6. InFlight = 0
  <2> DEFINE f == [a \in Agents |-> Untold(a)]
  <2>1. f \in [Agents -> Nat] BY <1>1 DEF Untold, Nothing
  <2>2. \A a \in Agents : f[a] = 0 BY <1>1 DEF Untold, Nothing
  <2>3. InFlight = SumFunction(f) BY DEF InFlight
  <2> HIDE DEF f
  <2> QED BY <2>1, <2>2, <2>3, SumZero
<1>7. Money
  BY <1>1, <1>3, <1>4, <1>5, <1>6 DEF Money, PendingExact, Exact, Covered, SettledOnce
<1> QED BY <1>2, <1>7 DEF IInv

LEMMA NextKeeps == IInv /\ [Next]_vars => IInv'
<1> SUFFICES ASSUME IInv, [Next]_vars PROVE Shape' /\ Money' BY DEF IInv
<1> USE DEF IInv
<1>1. CASE UNCHANGED vars
  BY <1>1 DEF vars, Shape, TypeOK, Phases, Holding, Reserving, OneLevel, Summary, Money, PendingExact,
     Total, Exact, Known, Covered, AtRisk, Outstanding, SettledOnce, InFlight, Untold
<1>2. CASE NewRun BY <1>2, NewRunShape, NewRunMoney
<1>3. CASE Stop BY <1>3, StopShape, StopMoney
<1>4. CASE Crash BY <1>4, CrashShape, CrashMoney
<1>5. CASE SummaryHit BY <1>5, SummaryHitShape, SummaryHitMoney
<1>6. ASSUME NEW a \in Agents, Progress(a) PROVE Shape' /\ Money'
  <2>1. CASE Retry(a) BY <2>1, RetryShape, RetryMoney
  <2>2. CASE GiveUp(a) BY <2>2, GiveUpShape, GiveUpMoney
  <2>3. CASE Settle(a) BY <2>3, SettleShape, SettleMoney
  <2>4. CASE Store(a) BY <2>4, StoreShape, StoreMoney
  <2>5. CASE StoreFails(a) BY <2>5, StoreFailsShape, StoreFailsMoney
  <2>6. ASSUME NEW c \in 0 .. Estimate, Answer(a, c) PROVE Shape' /\ Money'
    BY <2>6, AnswerShape, AnswerMoney
  <2>7. ASSUME NEW c \in 0 .. Estimate, NEW inc \in BOOLEAN, AttemptFails(a, c, inc)
        PROVE  Shape' /\ Money'
    BY <2>7, AttemptFailsShape, AttemptFailsMoney
  <2>8. CASE LeaveRoute BY <2>8, LeaveRouteShape, LeaveRouteMoney
  <2>9. CASE NextRoute BY <2>9, NextRouteShape, NextRouteMoney
  <2>10. CASE Priced BY <2>10, PricedShape, PricedMoney
  <2>11. CASE PutSummary BY <2>11, PutSummaryShape, PutSummaryMoney
  <2>12. CASE PutFails BY <2>12, PutFailsShape, PutFailsMoney
  <2>13. CASE ClaimSummary BY <2>13, ClaimSummaryShape, ClaimSummaryMoney
  <2>14. CASE ClaimFails BY <2>14, ClaimFailsShape, ClaimFailsMoney
  <2>15. CASE TransferSummary BY <2>15, TransferSummaryShape, TransferSummaryMoney
  <2> QED
    BY <1>6, <2>1, <2>2, <2>3, <2>4, <2>5, <2>6, <2>7, <2>8, <2>9, <2>10, <2>11, <2>12,
       <2>13, <2>14, <2>15 DEF Progress
<1>7. ASSUME NEW a \in Agents, NEW why \in {"model", "summary"}, Ask(a, why)
      PROVE  Shape' /\ Money'
  BY <1>7, AskShape, AskMoney
<1>8. ASSUME NEW a \in Agents, NEW c \in 0 .. Estimate, Interrupt(a, c)
      PROVE  Shape' /\ Money'
  BY <1>8, InterruptShape, InterruptMoney
<1> QED
  BY <1>1, <1>2, <1>3, <1>4, <1>5, <1>6, <1>7, <1>8 DEF Next, Idle

\* Costs are natural numbers, and an idle agent has nothing reserved, held or collected.
THEOREM TypeCorrect == Spec => []TypeOK
<1>1. IInv => TypeOK BY DEF IInv, Shape
<1> QED BY <1>1, InitHolds, NextKeeps, PTL DEF Spec

\* Budget.pending_cost_usd is the sum of what is reserved and held (PendingExact), for
\* any number of delegates: no reservation is released twice, and none stays behind.
THEOREM PendingIsExact == Spec => []PendingExact
<1>1. IInv => PendingExact BY DEF IInv, Money
<1> QED BY <1>1, InitHolds, NextKeeps, PTL DEF Spec

\* What the attempts of a run really cost stays within max_cost_usd (WithinBudget),
\* whatever the limit, the estimate and the number of siblings: what is on the wire
\* is reserved, and while the budget admits a request it knows every cost.
THEOREM BudgetHolds == Spec => []WithinBudget
<1>1. IInv => WithinBudget
  <2> SUFFICES ASSUME IInv PROVE WithinBudget OBVIOUS
  <2>1. AtRisk \in Nat BY SumsAreNatural DEF IInv, Shape
  <2> QED BY <2>1, UsageAssumption DEF IInv, Shape, Money, TypeOK, Covered, WithinBudget
<1> QED BY <1>1, InitHolds, NextKeeps, PTL DEF Spec

\* Every reported charge is in the session, in a request, in the cached summary or
\* known to be lost (SettledOnce): it is never counted twice and never forgotten.
THEOREM ChargesSettled == Spec => []SettledOnce
<1>1. IInv => SettledOnce BY DEF IInv, Money
<1> QED BY <1>1, InitHolds, NextKeeps, PTL DEF Spec
=============================================================================
