-------------------------- MODULE AdmissionProofs --------------------------
(***************************************************************************)
(* What admits a run and its requests, for every set of processes, every   *)
(* tree of agents and every limit: one run has the session at a time, and  *)
(* only a lost one is recorded as interrupted (RunLease); the agents of a  *)
(* run stay within its request budget, their conclusions paid for          *)
(* (RequestBudget).                                                        *)
(***************************************************************************)
EXTENDS RunLease, RequestBudget, FiniteSetTheorems, WellFoundedInduction, TLAPS

-----------------------------------------------------------------------------
(* The lease of a session                                                   *)

\* While a run is in progress no UPDATE to "interrupted" is pending: its probe
\* would have had to hold the run's file lock.
RunningIsCommitted ==
    \A p \in Procs : run[p] = "running" => txn = None /\ status \in {"running", "deleted"}

\* A row that says "running", or that was marked, belongs to a run without an end.
UnfinishedIsUnclean == status \in {"running", "interrupted"} => ~clean

LeaseIInv == LeaseTypeOK /\ OwnershipOK /\ RunningIsCommitted /\ UnfinishedIsUnclean

LEMMA LeaseInitIInv == LeaseInit => LeaseIInv
BY NoneAssumption DEF LeaseInit, LeaseIInv, LeaseTypeOK, OwnershipOK, RunningIsCommitted, UnfinishedIsUnclean,
    Held, Owning, Statuses, ReadStates, RunStates

\* The file lock has one owner, so at most one process holds the session.
LEMMA OneHolder ==
    ASSUME OwnershipOK, NEW p \in Procs, NEW q \in Procs, Held(p), Held(q)
    PROVE  p = q
BY DEF OwnershipOK

\* Steps of a reader.
LEMMA ReaderStep ==
    ASSUME LeaseIInv, NEW p \in Procs, Select(p) \/ ReadStep(p) \/ MarkFails(p)
    PROVE  LeaseIInv'
<1> USE NoneAssumption DEF LeaseIInv, LeaseTypeOK, OwnershipOK, RunningIsCommitted, UnfinishedIsUnclean,
        Held, Owning, ReadStates, bounds
<1>1. CASE Select(p)    BY <1>1 DEF Select, StoreTurn, StoreFree
<1>2. CASE Probe(p)     BY <1>2 DEF Probe
<1>3. CASE Mark(p)      BY <1>3 DEF Mark
<1>4. CASE MarkFails(p) BY <1>4 DEF MarkFails
<1>5. CASE Unprobe(p)   BY <1>5 DEF Unprobe
<1>6. CASE Commit(p)    BY <1>6 DEF Commit, Statuses
<1> QED BY <1>1, <1>2, <1>3, <1>4, <1>5, <1>6 DEF ReadStep

\* Steps of a run.
LEMMA RunnerStep ==
    ASSUME LeaseIInv, NEW p \in Procs,
           Request(p) \/ RunStep(p) \/ Finish(p) \/ WriteIdleFails(p)
    PROVE  LeaseIInv'
<1> USE NoneAssumption DEF LeaseIInv, LeaseTypeOK, OwnershipOK, RunningIsCommitted, UnfinishedIsUnclean,
        Held, Owning, RunStates, StoreTurn, StoreFree, bounds
<1>1. CASE Request(p)        BY <1>1 DEF Request
<1>2. CASE Acquire(p)
  <2>1. CASE Free(p)
    <3>1. LeaseTypeOK'              BY <1>2, <2>1 DEF Acquire
    <3>2. OwnershipOK'         BY <1>2, <2>1 DEF Acquire, Free
    <3>3. RunningIsCommitted'  BY <1>2, <2>1 DEF Acquire
    <3>4. UnfinishedIsUnclean' BY <1>2, <2>1 DEF Acquire
    <3> QED BY <3>1, <3>2, <3>3, <3>4
  <2>2. CASE ~Free(p)          BY <1>2, <2>2 DEF Acquire
  <2> QED BY <2>1, <2>2
<1>3. CASE WriteRunning(p)   BY <1>3 DEF WriteRunning, Statuses
<1>4. CASE Finish(p)         BY <1>4 DEF Finish
<1>5. CASE WriteIdle(p)      BY <1>5 DEF WriteIdle, Statuses
<1>6. CASE WriteIdleFails(p) BY <1>6 DEF WriteIdleFails
<1>7. CASE Release(p)        BY <1>7 DEF Release
<1> QED BY <1>1, <1>2, <1>3, <1>4, <1>5, <1>6, <1>7 DEF RunStep

\* Cancelled awaits, deletions and crashes.
LEMMA DisturbanceStep ==
    ASSUME LeaseIInv, NEW p \in Procs, CancelAwait(p) \/ LateStep(p) \/ Delete(p) \/ Crash(p)
    PROVE  LeaseIInv'
<1> USE NoneAssumption DEF LeaseIInv, LeaseTypeOK, OwnershipOK, RunningIsCommitted, UnfinishedIsUnclean,
        Held, Owning, StoreTurn, StoreFree, bounds
<1>1. CASE CancelAwait(p) BY <1>1 DEF CancelAwait, RunStates
<1>2. CASE LateAcquire(p) BY <1>2 DEF LateAcquire, Free
<1>3. CASE LateRunning(p) BY <1>3 DEF LateRunning, Statuses
<1>4. CASE Delete(p)      BY <1>4 DEF Delete, Statuses
<1>5. CASE Crash(p)       BY <1>5 DEF Crash, ReadStates, RunStates
<1>6. CASE LateWithdrawn(p) BY <1>6 DEF LateWithdrawn
<1> QED BY <1>1, <1>2, <1>3, <1>4, <1>5, <1>6 DEF LateStep

LEMMA LeaseNextIInv == LeaseIInv /\ [LeaseNext]_leaseVars => LeaseIInv'
<1> SUFFICES ASSUME LeaseIInv, [LeaseNext]_leaseVars PROVE LeaseIInv'
  OBVIOUS
<1>1. CASE UNCHANGED leaseVars
  BY <1>1 DEF LeaseIInv, LeaseTypeOK, OwnershipOK, RunningIsCommitted, UnfinishedIsUnclean, Held, Owning, leaseVars
<1>2. CASE LeaseNext
  BY <1>2, ReaderStep, RunnerStep, DisturbanceStep DEF LeaseNext
<1> QED BY <1>1, <1>2

THEOREM LeaseInvariance == LeaseSpec => []LeaseIInv
<1>1. LeaseIInv /\ [LeaseNext]_leaseVars => LeaseIInv'
  BY LeaseNextIInv
<1> QED BY LeaseInitIInv, <1>1, PTL DEF LeaseSpec

\* Type correctness of the ownership state.
THEOREM LeaseTypeCorrect == LeaseSpec => []LeaseTypeOK
<1>1. LeaseIInv => LeaseTypeOK
  BY DEF LeaseIInv
<1> QED BY LeaseInvariance, <1>1, PTL

\* What holding a lease means: every owner of the session, run or reader, has
\* the file lock, and a run owns the session only with its lease.
THEOREM Ownership == LeaseSpec => []OwnershipOK
<1>1. LeaseIInv => OwnershipOK
  BY DEF LeaseIInv
<1> QED BY LeaseInvariance, <1>1, PTL

\* acquire_run_lease: no two processes run the session at once.
THEOREM ExclusiveRuns == LeaseSpec => []MutualExclusion
<1>1. LeaseIInv => MutualExclusion
  <2> SUFFICES ASSUME LeaseIInv, NEW p \in Procs, NEW q \in Procs, Owning(p), Owning(q)
               PROVE  p = q
    BY DEF MutualExclusion
  <2>1. lease[p] /\ lease[q]
    BY DEF LeaseIInv, OwnershipOK
  <2> QED BY <2>1, OneHolder DEF LeaseIInv, Held
<1> QED BY LeaseInvariance, <1>1, PTL

\* _reconcile_running_row never marks a run that is in progress.
THEOREM LiveRunsStayRunning == LeaseSpec => []LiveNotInterrupted
<1>1. LeaseIInv => LiveNotInterrupted
  BY DEF LeaseIInv, RunningIsCommitted, LiveNotInterrupted
<1> QED BY LeaseInvariance, <1>1, PTL

\* A finished run is never turned into an interrupted one.
THEOREM InterruptedRunsWereLost == LeaseSpec => []InterruptedMeansLost
<1>1. LeaseIInv => InterruptedMeansLost
  BY DEF LeaseIInv, UnfinishedIsUnclean, InterruptedMeansLost
<1> QED BY LeaseInvariance, <1>1, PTL

-----------------------------------------------------------------------------
(* The requests of a run                                                    *)

AtWork == \E c \in Children : Active(c)

\* A child at work is one level below the agent it works for.
Tree ==
    /\ depth[Root] = 0 /\ st[Root] # "absent"
    /\ \A c \in Children : st[c] # "absent" => /\ depth[c] = depth[parent[c]] + 1
                                               /\ st[parent[c]] # "absent"

\* While a child is at work, the root's combine is reserved.
RootHeld == AtWork => Root \in closures

\* A request with tools is not the last one after a delegation.
LastToolless ==
    /\ st[Root] = "asking" /\ admitted > 0 /\ ~toolless => requests < MaxRequests
    /\ \A c \in Children : st[c] # "absent" => admitted > 0

InTurn == st[Root] \in {"preparing", "asking"} => turns > 0

\* A child whose conclusion request is with the provider has sent one.
Sent == \A c \in Children : st[c] = "asking" /\ synth[c] => c \in concluded

IInv ==
    /\ TypeOK /\ Funded /\ ConclusionFunded /\ SlotsOK /\ Drained
    /\ Tree /\ RootHeld /\ LastToolless /\ InTurn /\ Sent /\ CombineFunded

-----------------------------------------------------------------------------
(* Counting                                                                 *)

LEMMA Finite ==
    ASSUME TypeOK
    PROVE  /\ IsFiniteSet(closures) /\ Cardinality(closures) \in Nat
           /\ IsFiniteSet(Asking) /\ Cardinality(Asking) \in Nat
<1>1. IsFiniteSet(Agents) BY AgentsAssumption, FS_AddElement DEF Agents
<1>2. IsFiniteSet(closures) BY <1>1, FS_Subset DEF TypeOK
<1>3. IsFiniteSet(Asking) BY AgentsAssumption, FS_Subset DEF Asking
<1> QED BY <1>2, <1>3, FS_CardinalityType

\* Room is left for an owner of a reservation that fits under the ceiling.
LEMMA RoomForOwner ==
    ASSUME NEW C, IsFiniteSet(C), NEW r \in Nat, NEW a \in C, r + Cardinality(C) <= MaxRequests
    PROVE  MaxRequests - r - Cardinality(C \ {a}) > 0
<1>1. Cardinality(C \ {a}) = Cardinality(C) - 1 BY FS_RemoveElement
<1>2. Cardinality(C) \in Nat BY FS_CardinalityType
<1> QED BY <1>1, <1>2, LimitsAssumption

\* What reserve_closure does to the reservations.
LEMMA ReservedFits ==
    ASSUME NEW S, IsFiniteSet(S), NEW a, requests \in Nat, requests + Cardinality(S) <= MaxRequests
    PROVE  /\ IsFiniteSet(Reserved(S, a)) /\ Reserved(S, a) \in {S, S \cup {a}}
           /\ requests + Cardinality(Reserved(S, a)) <= MaxRequests
           /\ a \notin Reserved(S, a) => requests + Cardinality(S) = MaxRequests
<1>1. /\ IsFiniteSet(S \cup {a})
      /\ Cardinality(S \cup {a}) = IF a \in S THEN Cardinality(S) ELSE Cardinality(S) + 1
  BY FS_AddElement
<1>2. Cardinality(S) \in Nat BY FS_CardinalityType
<1> QED BY <1>1, <1>2, LimitsAssumption DEF Reserved

\* What before_model_request does to them.
LEMMA SpendFits ==
    ASSUME TypeOK, Funded, NEW a \in Agents, NEW closure \in BOOLEAN, Spend(a, closure)
    PROVE  /\ requests' \in Nat /\ requests' = requests + 1
           /\ closures' \subseteq closures /\ closures \ {a} \subseteq closures'
           /\ ~closure => closures' = closures
           /\ requests' + Cardinality(closures') <= MaxRequests
           /\ IsFiniteSet(closures')
<1>1. IsFiniteSet(closures) /\ Cardinality(closures) \in Nat BY Finite
<1>2. closures' = closures \ Own(a, closure) /\ requests' = requests + 1
  BY DEF Spend
<1>3. closures \ Own(a, closure) \in {closures, closures \ {a}} BY DEF Own
<1>4. IsFiniteSet(closures \ {a}) /\ Cardinality(closures \ {a}) \in Nat
  BY <1>1, FS_RemoveElement, FS_CardinalityType
<1>5. MaxRequests - requests - Cardinality(closures') > 0
  BY <1>2 DEF Spend, Remaining
<1>6. requests \in Nat BY DEF TypeOK
<1>7. IsFiniteSet(closures') /\ Cardinality(closures') \in Nat
  BY <1>1, <1>2, <1>3, <1>4
<1>8. requests' + Cardinality(closures') <= MaxRequests
  BY <1>2, <1>5, <1>6, <1>7, LimitsAssumption
<1>9. closures' \subseteq closures /\ closures \ {a} \subseteq closures' /\ (~closure => closures' = closures)
  BY <1>2 DEF Own
<1> QED BY <1>2, <1>6, <1>7, <1>8, <1>9

\* One agent enters or leaves the set of those that ask.
LEMMA AskingChange ==
    ASSUME TypeOK, NEW c \in Children, NEW s, st' = [st EXCEPT ![c] = s]
    PROVE  Cardinality(Asking') =
              Cardinality(Asking) + (IF s = "asking" /\ st[c] # "asking" THEN 1 ELSE 0)
                                  - (IF s # "asking" /\ st[c] = "asking" THEN 1 ELSE 0)
<1>1. \A d \in Children : st'[d] = IF d = c THEN s ELSE st[d] BY DEF TypeOK, Agents
<1>2. Asking' = IF s = "asking" THEN Asking \cup {c} ELSE Asking \ {c} BY <1>1 DEF Asking
<1>3. c \in Asking <=> st[c] = "asking" BY DEF Asking
<1>4. IsFiniteSet(Asking) /\ Cardinality(Asking) \in Nat BY Finite
<1>5. Cardinality(Asking \cup {c}) = IF c \in Asking THEN Cardinality(Asking) ELSE Cardinality(Asking) + 1
  BY <1>4, FS_AddElement
<1>6. Cardinality(Asking \ {c}) = IF c \in Asking THEN Cardinality(Asking) - 1 ELSE Cardinality(Asking)
  BY <1>4, FS_RemoveElement
<1> QED BY <1>2, <1>3, <1>4, <1>5, <1>6

-----------------------------------------------------------------------------
(* The tree of agents                                                       *)

LEMMA LeastNatural ==
    ASSUME NEW T \in SUBSET Nat, T # {}
    PROVE  \E n \in T : \A m \in T : ~(m < n)
<1> DEFINE F == {0 .. n : n \in T}
<1>1. F \subseteq FiniteSubsetsOf(Nat)
  <2> SUFFICES ASSUME NEW n \in T PROVE 0 .. n \in FiniteSubsetsOf(Nat) OBVIOUS
  <2>1. IsFiniteSet(0 .. n) BY FS_Interval
  <2> QED BY <2>1 DEF FiniteSubsetsOf
<1>2. F # {} OBVIOUS
<1>3. \E x \in F : \A y \in F : <<y, x>> \notin StrictSubsetOrdering(Nat)
  <2>1. IsWellFoundedOn(StrictSubsetOrdering(Nat), FiniteSubsetsOf(Nat))
    BY FS_StrictSubsetOrderingWellFounded
  <2> HIDE DEF F
  <2> QED BY <1>1, <1>2, <2>1, WFMin
<1>4. PICK n \in T : \A y \in F : <<y, 0 .. n>> \notin StrictSubsetOrdering(Nat) BY <1>3
<1>5. ASSUME NEW m \in T, m < n PROVE FALSE
  <2>1. 0 .. m \in F OBVIOUS
  <2>2. 0 .. m \subseteq 0 .. n /\ n \notin 0 .. m /\ n \in 0 .. n BY <1>5
  <2>3. 0 .. m \in SUBSET Nat /\ 0 .. n \in SUBSET Nat OBVIOUS
  <2> HIDE DEF F
  <2>4. <<0 .. m, 0 .. n>> \in StrictSubsetOrdering(Nat) BY <2>2, <2>3 DEF StrictSubsetOrdering
  <2> QED BY <1>4, <2>1, <2>4
<1> QED BY <1>5

\* Where a child is at work, one works for the root: the topmost one does.
LEMMA TopmostChild ==
    ASSUME TypeOK, Drained, Tree, Busy(Root) = {}
    PROVE  ~AtWork
<1> SUFFICES ASSUME AtWork PROVE FALSE OBVIOUS
<1> DEFINE D == {depth[c] : c \in {d \in Children : Active(d)}}
<1>1. D \subseteq Nat /\ D # {} BY LimitsAssumption DEF AtWork, TypeOK, Agents
<1>2. PICK n \in D : \A m \in D : ~(m < n) BY <1>1, LeastNatural
<1>3. PICK c \in Children : Active(c) /\ depth[c] = n BY <1>2
<1>4. st[parent[c]] \in {"tools", "draining"} BY <1>3 DEF Drained
<1>5. parent[c] \in Children /\ Active(parent[c])
  BY <1>3, <1>4 DEF TypeOK, Agents, Active, Busy, ChildrenOf
<1>6. depth[parent[c]] \in D BY <1>5
<1>7. depth[c] = depth[parent[c]] + 1 BY <1>3 DEF Tree, Active
<1>8. depth[parent[c]] < n
  <2>1. depth[parent[c]] \in Nat BY <1>1, <1>6
  <2> HIDE DEF D
  <2> QED BY <1>3, <1>7, <2>1
<1> QED BY <1>2, <1>6, <1>8

\* An agent outside a batch has nobody who works for it.
LEMMA Childless ==
    ASSUME Drained, NEW a, st[a] \notin {"tools", "draining"}
    PROVE  Busy(a) = {}
BY DEF Drained, Busy, ChildrenOf

LEMMA QuietRoot ==
    ASSUME TypeOK, Drained, Tree, st[Root] \notin {"tools", "draining"}
    PROVE  ~AtWork
BY Childless, TopmostChild

\* So while the root is not in a batch, nobody else has a reservation.
LEMMA OnlyRoot ==
    ASSUME TypeOK, Drained, Tree, st[Root] \notin {"tools", "draining"}
    PROVE  closures \ {Root} = {}
BY QuietRoot DEF Drained, TypeOK, Agents, AtWork, Active

-----------------------------------------------------------------------------
(* The steps of the primary loop                                            *)

LEMMA InitIInv == Init => IInv
<1> SUFFICES ASSUME Init PROVE IInv OBVIOUS
<1>1. Asking = {} BY AgentsAssumption DEF Init, Asking, Agents
<1>2. Cardinality({}) = 0 BY FS_EmptySet
<1>3. TypeOK
  <2>1. st \in [Agents -> States] BY DEF Init, States
  <2>2. /\ parent \in [Children -> Agents] /\ depth \in [Agents -> 0 .. MaxDepth]
        /\ limit \in [Children -> 0 .. MaxChildTurns] /\ turn \in [Children -> Nat]
        /\ synth \in [Children -> BOOLEAN] /\ repair \in [Children -> BOOLEAN]
    BY LimitsAssumption DEF Init, Agents
  <2>3. turns \in 0 .. MaxTurns /\ admitted \in 0 .. MaxDescendants /\ slots \in Nat /\ requests \in Nat
    BY LimitsAssumption DEF Init
  <2>4. toolless \in BOOLEAN /\ closures \subseteq Agents /\ concluded \subseteq Children
    BY DEF Init
  <2> QED BY <2>1, <2>2, <2>3, <2>4 DEF TypeOK
<1>4. Funded /\ SlotsOK BY <1>1, <1>2, LimitsAssumption DEF Init, Funded, SlotsOK
<1>5. ConclusionFunded /\ Drained /\ Tree /\ RootHeld /\ LastToolless /\ InTurn /\ Sent /\ CombineFunded
  BY AgentsAssumption DEF Init, Sent, ConclusionFunded, Drained, Tree, RootHeld, LastToolless, InTurn,
     CombineFunded, AtWork, Active, Agents, Working
<1> QED BY <1>3, <1>4, <1>5 DEF IInv

\* When only the root moves, the children are where they were.
LEMMA RootMoves ==
    ASSUME TypeOK, NEW s, Enter(Root, s)
    PROVE  /\ st'[Root] = s /\ \A c \in Children : st'[c] = st[c]
           /\ Asking' = Asking
BY AgentsAssumption DEF TypeOK, Enter, Agents, Asking

\* The root moves to s outside a batch; the children keep their reservations.
LEMMA RootMovesOn ==
    ASSUME IInv, NEW s \in {"ready", "preparing", "asking", "ending", "draining", "done"}, Enter(Root, s),
           s = "draining" => UNCHANGED <<requests, closures>>,
           s = "draining" \/ Busy(Root) = {},
           turns' \in 0 .. MaxTurns, toolless' \in BOOLEAN, s \in {"preparing", "asking"} => turns' > 0,
           requests' \in Nat, requests' + Cardinality(closures') <= MaxRequests,
           closures' \subseteq Agents, closures' \subseteq closures \cup {Root}, closures \ {Root} \subseteq closures',
           s = "done" => Root \notin closures',
           s = "asking" /\ admitted > 0 /\ ~toolless' => requests' < MaxRequests,
           UNCHANGED <<child, admitted, slots>>
    PROVE  IInv'
<1> USE DEF IInv, child
<1>1. /\ st'[Root] = s /\ \A c \in Children : st'[c] = st[c]
      /\ Asking' = Asking
  BY RootMoves
<1>2. s = "draining" \/ ~AtWork BY TopmostChild
<1>3. TypeOK' BY DEF TypeOK, Enter, States
<1>4. Funded' /\ SlotsOK' BY <1>1 DEF Funded, SlotsOK
<1>5. ConclusionFunded' BY <1>1, AgentsAssumption DEF ConclusionFunded
<1>6. Drained'
  <2>1. ASSUME NEW c \in Children, Active(c)' PROVE st'[parent'[c]] \in {"tools", "draining"}
    BY <1>1, <1>2, <2>1, AgentsAssumption DEF Drained, Active, AtWork, TypeOK, Agents
  <2>2. \A a \in closures' : st'[a] \notin {"absent", "done"}
    BY <1>1 DEF Drained, TypeOK, Agents
  <2> QED BY <2>1, <2>2 DEF Drained
<1>7. Tree' BY <1>1, AgentsAssumption DEF Tree, TypeOK, Agents
<1>8. RootHeld' BY <1>1, <1>2 DEF RootHeld, AtWork, Active
<1>9. LastToolless' /\ InTurn' /\ Sent' /\ CombineFunded'
  BY <1>1 DEF LastToolless, InTurn, Sent, CombineFunded
<1> QED BY <1>3, <1>4, <1>5, <1>6, <1>7, <1>8, <1>9

\* Steps without a request or a change of reservations.
LEMMA RootQuietStep ==
    ASSUME IInv, RootCached \/ RootOverflow \/ RootContinues \/ RootStop
    PROVE  IInv'
<1>1. TypeOK /\ InTurn /\ Funded /\ (st[Root] \notin {"tools", "draining"} => Busy(Root) = {})
  BY Childless DEF IInv
<1> USE <1>1, RootMovesOn, LimitsAssumption DEF root, TypeOK, Funded
<1>2. CASE RootCached    BY <1>2 DEF RootCached
<1>3. CASE RootOverflow  BY <1>3 DEF RootOverflow, InTurn
<1>4. CASE RootContinues BY <1>4 DEF RootContinues
<1>5. CASE RootStop      BY <1>5 DEF RootStop
<1> QED BY <1>2, <1>3, <1>4, <1>5

\* Steps that protect the combine, or give it up.
LEMMA RootReserveStep ==
    ASSUME IInv, RootTurn \/ RootFallback \/ RootEnd
    PROVE  IInv'
<1>1. TypeOK /\ InTurn /\ Funded /\ (st[Root] \notin {"tools", "draining"} => Busy(Root) = {})
  BY Childless DEF IInv
<1>2. ASSUME ProtectCombine, UNCHANGED requests
      PROVE  /\ closures' \subseteq Agents
             /\ closures' \subseteq closures \cup {Root} /\ closures \subseteq closures'
             /\ requests + Cardinality(closures') <= MaxRequests
  BY <1>1, <1>2, Finite, ReservedFits DEF ProtectCombine, TypeOK, Funded, Agents
<1>3. CASE RootTurn
  <2>1. turns' \in 0 .. MaxTurns /\ turns' > 0
    BY <1>1, <1>3, LimitsAssumption DEF RootTurn, TypeOK
  <2>2. (turns + 1 = MaxTurns \/ LastRequest) \in BOOLEAN OBVIOUS
  <2>3. toolless' \in BOOLEAN BY <1>3, <2>2, Zenon DEF RootTurn
  <2> QED BY <1>1, <1>2, <1>3, <2>1, <2>3, RootMovesOn DEF RootTurn, TypeOK
<1>4. CASE RootFallback
  BY <1>1, <1>2, <1>4, RootMovesOn DEF RootFallback, root, TypeOK, InTurn
<1>5. CASE RootEnd
  <2>1. requests + Cardinality(closures \ {Root}) <= MaxRequests
    <3>1. Cardinality(closures \ {Root}) <= Cardinality(closures) /\ Cardinality(closures \ {Root}) \in Nat
      <4>1. IsFiniteSet(closures) BY <1>1, Finite
      <4>2. closures \ {Root} \in SUBSET closures OBVIOUS
      <4> QED BY <4>1, <4>2, FS_Subset, FS_CardinalityType
    <3> QED BY <1>1, <3>1, Finite, LimitsAssumption DEF Funded, TypeOK
  <2> QED BY <1>1, <1>5, <2>1, RootMovesOn DEF RootEnd, root, TypeOK
<1> QED BY <1>3, <1>4, <1>5

\* Steps that make a request.
LEMMA RootRequestStep ==
    ASSUME IInv, RootHelper \/ RootAsk \/ RootRetry
    PROVE  IInv'
<1>1. TypeOK /\ InTurn /\ Funded /\ (st[Root] \notin {"tools", "draining"} => Busy(Root) = {})
  BY Childless DEF IInv
<1>2. ASSUME NEW closure \in BOOLEAN, Spend(Root, closure)
      PROVE  /\ requests' \in Nat /\ requests' = requests + 1
             /\ closures' \subseteq Agents
             /\ closures' \subseteq closures /\ closures \ {Root} \subseteq closures'
             /\ requests' + Cardinality(closures') <= MaxRequests
  <2>1. Root \in Agents BY DEF Agents
  <2>2. closures \subseteq Agents BY <1>1 DEF TypeOK
  <2> QED BY <1>1, <1>2, <2>1, <2>2, SpendFits
<1>3. UNCHANGED st => Enter(Root, st[Root]) BY <1>1 DEF Enter, TypeOK, Agents
<1>4. CASE RootHelper
  BY <1>1, <1>2, <1>3, <1>4, RootMovesOn DEF RootHelper, root, TypeOK, InTurn
<1>5. ASSUME toolless' = (toolless \/ LastRequest), requests' = requests + 1, UNCHANGED admitted
      PROVE  toolless' \in BOOLEAN /\ (admitted > 0 /\ ~toolless' => requests' < MaxRequests)
  <2>1. (toolless \/ LastRequest) \in BOOLEAN OBVIOUS
  <2>2. toolless' \in BOOLEAN BY <1>5, <2>1, Zenon
  <2>3. LastRequest <=> admitted > 0 /\ requests + 1 >= MaxRequests BY DEF LastRequest
  <2>4. ~toolless' => ~LastRequest BY <1>5, Zenon
  <2>5. requests \in Nat /\ admitted \in Nat BY <1>1, LimitsAssumption DEF TypeOK
  <2>6. admitted > 0 /\ ~LastRequest => requests' < MaxRequests BY <1>5, <2>3, <2>5, LimitsAssumption
  <2> QED BY <1>5, <2>2, <2>4, <2>6, Zenon
<1>6. CASE RootAsk
  BY <1>1, <1>2, <1>5, <1>6, RootMovesOn DEF RootAsk, TypeOK, InTurn
<1>7. CASE RootRetry
  BY <1>1, <1>2, <1>3, <1>5, <1>7, RootMovesOn DEF RootRetry, TypeOK, InTurn
<1> QED BY <1>4, <1>6, <1>7

\* The batch starts: the root's next request is not the last one, and nobody
\* but the root has a reservation yet.
LEMMA RootBatchStep ==
    ASSUME IInv, RootCallsTools
    PROVE  IInv'
<1> USE DEF IInv, RootCallsTools, child, root
<1>1. /\ st'[Root] = "tools" /\ \A c \in Children : st'[c] = st[c]
      /\ Asking' = Asking
  BY RootMoves
<1>2. closures \ {Root} = {} /\ ~AtWork BY OnlyRoot, QuietRoot
<1>3. TypeOK' BY DEF TypeOK, Enter, States
<1>4. Funded' /\ SlotsOK' BY <1>1 DEF Funded, SlotsOK
<1>5. ConclusionFunded' BY <1>1 DEF ConclusionFunded
<1>6. Drained' BY <1>1, <1>2 DEF Drained, AtWork, Active
<1>7. Tree' BY <1>1, AgentsAssumption DEF Tree, TypeOK, Agents
<1>8. RootHeld' /\ LastToolless' /\ InTurn' /\ Sent'
  BY <1>1, <1>2 DEF RootHeld, LastToolless, InTurn, Sent, AtWork, Active
<1>9. CombineFunded'
  <2>1. ASSUME NEW c \in Children, st'[c] # "absent" PROVE requests < MaxRequests
    BY <1>1, <2>1 DEF LastToolless
  <2>2. Cardinality(closures' \ {Root}) = 0 BY <1>2, FS_EmptySet
  <2> QED BY <2>1, <2>2, LimitsAssumption DEF CombineFunded, Remaining, TypeOK
<1> QED BY <1>3, <1>4, <1>5, <1>6, <1>7, <1>8, <1>9

LEMMA RootStepIInv == ASSUME IInv, RootStep PROVE IInv'
BY RootQuietStep, RootReserveStep, RootRequestStep, RootBatchStep DEF RootStep

-----------------------------------------------------------------------------
(* The steps of a delegated agent                                           *)

\* A child at work moves to s; it may spend its own closure, and only that.
LEMMA ChildMovesOn ==
    ASSUME IInv, NEW c \in Children, Active(c),
           NEW s \in {"ready", "waiting", "asking", "tools", "draining", "ending", "raising"},
           Enter(c, s), s \in Working => st[c] \in Working,
           s \in {"tools", "draining"} \/ Busy(c) = {},
           slots' \in Nat,
           slots' = slots + (IF s # "asking" /\ st[c] = "asking" THEN 1 ELSE 0)
                          - (IF s = "asking" /\ st[c] # "asking" THEN 1 ELSE 0),
           requests' \in Nat, requests' + Cardinality(closures') <= MaxRequests,
           closures' \subseteq closures, closures \ {c} \subseteq closures',
           c \in closures /\ c \notin closures' => c \in concluded',
           concluded \subseteq concluded', concluded' \subseteq Children,
           s = "asking" /\ synth'[c] => c \in concluded', \A d \in Children \ {c} : synth'[d] = synth[d],
           turn' \in [Children -> Nat], synth' \in [Children -> BOOLEAN], repair' \in [Children -> BOOLEAN],
           UNCHANGED <<parent, depth, limit, root, admitted>>
    PROVE  IInv'
<1> USE DEF IInv, root
<1>1. /\ \A a \in Agents : st'[a] = IF a = c THEN s ELSE st[a]
      /\ c \in Agents /\ Root \in Agents /\ c # Root /\ Children \subseteq Agents
  BY AgentsAssumption DEF Enter, TypeOK, Agents
<1>2. Root \in closures /\ Root \in closures' BY <1>1 DEF RootHeld, AtWork
<1>3. TypeOK' BY DEF TypeOK, Enter, States
<1>4. Funded' BY DEF Funded
<1>5. SlotsOK'
  <2>1. Cardinality(Asking') = Cardinality(Asking) + (IF s = "asking" /\ st[c] # "asking" THEN 1 ELSE 0)
                                                  - (IF s # "asking" /\ st[c] = "asking" THEN 1 ELSE 0)
    BY AskingChange DEF Enter
  <2>2. Cardinality(Asking) \in Nat /\ slots \in Nat BY Finite DEF TypeOK
  <2> QED BY <2>1, <2>2, LimitsAssumption DEF SlotsOK
<1>6. ConclusionFunded' BY <1>1 DEF ConclusionFunded, Working
<1>7. Drained'
  <2>1. ASSUME NEW d \in Children, Active(d)' PROVE st'[parent'[d]] \in {"tools", "draining"}
    <3>1. Active(d) BY <1>1, <2>1 DEF Active
    <3>2. parent[d] \in Agents /\ st[parent[d]] \in {"tools", "draining"} BY <3>1 DEF Drained, TypeOK
    <3>3. parent[d] = c => s \in {"tools", "draining"} BY <3>1 DEF Busy, ChildrenOf, Active
    <3> QED BY <1>1, <3>2, <3>3
  <2>2. \A a \in closures' : st'[a] \notin {"absent", "done"} BY <1>1 DEF Drained, TypeOK
  <2> QED BY <2>1, <2>2 DEF Drained
<1>8. Tree' BY <1>1 DEF Tree, TypeOK, Active
<1>9. RootHeld' BY <1>2 DEF RootHeld
<1>10. LastToolless' /\ InTurn' /\ Sent'
  <2>1. st[Root] \in {"tools", "draining"} BY QuietRoot DEF AtWork
  <2> QED BY <1>1, <2>1 DEF LastToolless, InTurn, Sent, Active
<1>11. CombineFunded'
  <2>1. IsFiniteSet(closures') BY Finite, FS_Subset
  <2> QED BY <1>2, <2>1, RoomForOwner DEF CombineFunded, Remaining
<1> QED BY <1>3, <1>4, <1>5, <1>6, <1>7, <1>8, <1>9, <1>10, <1>11

\* The same without a request: c changes its state and its turn only.
LEMMA ChildMovesQuietly ==
    ASSUME IInv, NEW c \in Children, Active(c),
           NEW s \in {"ready", "waiting", "tools", "draining", "ending", "raising"},
           Leave(c, s), s \in Working => st[c] \in Working,
           s \in {"tools", "draining"} \/ Busy(c) = {},
           turn' \in [Children -> Nat], synth' \in [Children -> BOOLEAN], repair' \in [Children -> BOOLEAN],
           \A d \in Children \ {c} : synth'[d] = synth[d],
           UNCHANGED <<parent, depth, limit, concluded, root, requests, closures, admitted>>
    PROVE  IInv'
<1>1. TypeOK /\ Funded BY DEF IInv
<1>2. slots' \in Nat
      /\ slots' = slots + (IF s # "asking" /\ st[c] = "asking" THEN 1 ELSE 0)
                        - (IF s = "asking" /\ st[c] # "asking" THEN 1 ELSE 0)
  BY <1>1 DEF Leave, TypeOK
<1> QED BY <1>1, <1>2, ChildMovesOn DEF Leave, TypeOK, Funded

LEMMA ChildQuietStep ==
    ASSUME IInv, NEW c \in Children,
           \/ ChildPrepares(c) \/ ChildRefused(c) \/ ChildRetryRefused(c)
           \/ ChildOverflows(c) \/ ChildRejected(c) \/ ChildCallsTools(c)
           \/ ChildEnds(c) \/ ChildFatal(c) \/ Cancelled(c) \/ BatchDone(c) \/ BatchRaises(c)
    PROVE  IInv'
<1>1. TypeOK /\ (st[c] \notin {"tools", "draining"} => Busy(c) = {}) /\ c # Root
  BY Childless, AgentsAssumption DEF IInv
<1>2. /\ turn \in [Children -> Nat] /\ synth \in [Children -> BOOLEAN] /\ repair \in [Children -> BOOLEAN]
      /\ [turn EXCEPT ![c] = @ + 1] \in [Children -> Nat]
      /\ [repair EXCEPT ![c] = TRUE] \in [Children -> BOOLEAN]
  BY <1>1 DEF TypeOK
<1>3. ASSUME NEW s, Enter(c, s), UNCHANGED slots, st[c] # "asking" PROVE Leave(c, s)
  BY <1>3 DEF Leave
<1> USE <1>1, <1>2, ChildMovesQuietly DEF child, Active, Working
<1>4. CASE ChildPrepares(c)
  <2>1. [synth EXCEPT ![c] = repair[c] \/ turn[c] >= ClosureStart(limit[c]) \/ Remaining({}) <= 0]
          \in [Children -> BOOLEAN]
    BY <1>2, Zenon
  <2> QED BY <1>3, <1>4, <2>1 DEF ChildPrepares
<1>5. CASE ChildRefused(c)      BY <1>3, <1>5 DEF ChildRefused
<1>6. CASE ChildRetryRefused(c) BY <1>6 DEF ChildRetryRefused
<1>7. CASE ChildOverflows(c)    BY <1>7 DEF ChildOverflows
<1>8. CASE ChildRejected(c)     BY <1>8 DEF ChildRejected
<1>9. CASE ChildCallsTools(c)   BY <1>9 DEF ChildCallsTools
<1>10. CASE ChildEnds(c)        BY <1>10 DEF ChildEnds
<1>11. CASE ChildFatal(c)       BY <1>11 DEF ChildFatal
<1>12. CASE Cancelled(c)        BY <1>12 DEF Cancelled
<1>13. CASE BatchDone(c)        BY <1>3, <1>13 DEF BatchDone
<1>14. CASE BatchRaises(c)      BY <1>3, <1>14 DEF BatchRaises
<1> QED BY <1>4, <1>5, <1>6, <1>7, <1>8, <1>9, <1>10, <1>11, <1>12, <1>13, <1>14

\* A child pays for its conclusion with its own closure, and only for that.
LEMMA ChildRequestStep ==
    ASSUME IInv, NEW c \in Children, ChildAsks(c) \/ ChildRetries(c)
    PROVE  IInv'
<1>1. TypeOK /\ Funded /\ c \in Agents BY DEF IInv, Agents
<1>2. Active(c) /\ Busy(c) = {} BY Childless DEF IInv, ChildAsks, ChildRetries, Active
<1>3. ASSUME NEW closure \in BOOLEAN, Spend(c, closure)
      PROVE  /\ requests' \in Nat /\ requests' + Cardinality(closures') <= MaxRequests
             /\ closures' \subseteq closures /\ closures \ {c} \subseteq closures'
             /\ ~closure => closures' = closures
  BY <1>1, <1>3, SpendFits
<1>4. CASE ChildAsks(c)
  <2>1. Concluding(c) \in BOOLEAN BY DEF Concluding
  <2>2. synth' \in [Children -> BOOLEAN] BY <1>1, <1>4, <2>1 DEF ChildAsks, TypeOK
  <2>3. slots' \in Nat /\ slots' = slots - 1 BY <1>1, <1>4 DEF ChildAsks, TypeOK
  <2>4. concluded \subseteq concluded' /\ concluded' \subseteq Children
        /\ (c \in closures /\ c \notin closures' => c \in concluded')
        /\ (synth'[c] => c \in concluded') /\ \A d \in Children \ {c} : synth'[d] = synth[d]
    BY <1>1, <1>3, <1>4, <2>1 DEF ChildAsks, TypeOK
  <2> QED BY <1>1, <1>2, <1>3, <1>4, <2>1, <2>2, <2>3, <2>4, ChildMovesOn DEF ChildAsks, TypeOK, Working
<1>5. CASE ChildRetries(c)
  <2>1. synth[c] \in BOOLEAN /\ Enter(c, "asking") /\ (synth[c] => c \in concluded)
    BY <1>1, <1>5 DEF ChildRetries, TypeOK, Enter, IInv, Sent
  <2> QED BY <1>1, <1>2, <1>3, <1>5, <2>1, ChildMovesOn DEF ChildRetries, TypeOK, Working, child
<1> QED BY <1>4, <1>5

\* The terminal step of a child; its exception may end the batch it was in.
LEMMA SettleStep ==
    ASSUME IInv, NEW c \in Children, Settle(c)
    PROVE  IInv'
<1> USE DEF IInv, Settle, Forget, root
<1>1. /\ Active(c) /\ Busy(c) = {} BY Childless DEF Active
<1>2. /\ c \in Agents /\ Root \in Agents /\ c # Root /\ Children \subseteq Agents
      /\ parent[c] \in Agents /\ parent[c] # c /\ st[parent[c]] \in {"tools", "draining"}
  BY <1>1, AgentsAssumption, LimitsAssumption DEF TypeOK, Agents, Tree, Active, Drained
<1>3. \A a \in Agents :
        /\ a # c /\ a # parent[c] => st'[a] = st[a]
        /\ st'[c] = "done"
        /\ a = parent[c] => st'[a] \in {st[a], "draining"}
  BY <1>2 DEF TypeOK
<1>4. IsFiniteSet(closures') /\ Cardinality(closures') \in Nat /\ Cardinality(closures') <= Cardinality(closures)
  BY Finite, FS_Subset, FS_CardinalityType
<1>5. TypeOK'
  <2>1. st' \in [Agents -> States] BY DEF TypeOK, States
  <2>2. limit' \in [Children -> 0 .. MaxChildTurns] /\ turn' \in [Children -> Nat]
        /\ synth' \in [Children -> BOOLEAN] /\ repair' \in [Children -> BOOLEAN]
    BY LimitsAssumption DEF TypeOK
  <2> QED BY <2>1, <2>2 DEF TypeOK
<1>6. Funded' BY <1>4, Finite, LimitsAssumption DEF Funded, TypeOK
<1>7. ConclusionFunded' BY <1>2, <1>3 DEF ConclusionFunded, Working
<1>8. SlotsOK'
  <2>1. Asking' = Asking BY <1>2, <1>3 DEF Asking
  <2> QED BY <2>1 DEF SlotsOK
<1>9. Drained'
  <2>1. ASSUME NEW d \in Children, Active(d)' PROVE st'[parent'[d]] \in {"tools", "draining"}
    <3>1. d # c /\ Active(d) BY <1>2, <1>3, <2>1 DEF Active
    <3>2. parent[d] \in Agents /\ st[parent[d]] \in {"tools", "draining"} /\ parent[d] # c
      BY <1>1, <3>1 DEF Drained, TypeOK, Busy, ChildrenOf, Active
    <3> QED BY <1>3, <3>2
  <2>2. \A a \in closures' : st'[a] \notin {"absent", "done"} BY <1>3 DEF Drained, TypeOK
  <2> QED BY <2>1, <2>2 DEF Drained
<1>10. Tree' BY <1>1, <1>2, <1>3 DEF Tree, TypeOK, Active
<1>11. RootHeld' BY <1>1, <1>2 DEF RootHeld, AtWork
<1>12. LastToolless' /\ InTurn' /\ Sent'
  <2>1. st[Root] \in {"tools", "draining"} BY <1>1, QuietRoot DEF AtWork
  <2>2. \A d \in Children : st'[d] = "asking" => d # c /\ st[d] = "asking" BY <1>2, <1>3
  <2> QED BY <1>1, <1>2, <1>3, <2>1, <2>2 DEF LastToolless, InTurn, Sent, Active, TypeOK
<1>13. CombineFunded'
  <2>1. Root \in closures' BY <1>1, <1>2 DEF RootHeld, AtWork
  <2>2. requests' \in Nat /\ requests' + Cardinality(closures') <= MaxRequests
    BY <1>6 DEF TypeOK, Funded
  <2> QED BY <1>4, <2>1, <2>2, RoomForOwner DEF CombineFunded, Remaining
<1> QED BY <1>5, <1>6, <1>7, <1>8, <1>9, <1>10, <1>11, <1>12, <1>13

\* An admission: both reservations fit, or nothing starts.
LEMMA DelegateStep ==
    ASSUME IInv, NEW a \in Agents, NEW c \in Children, NEW n \in 1 .. MaxChildTurns, Delegate(a, c, n)
    PROVE  IInv'
<1> USE DEF IInv, root
<1> DEFINE R == Reserved(closures, Root)
<1>1. /\ c \in Agents /\ Root \in Agents /\ c # Root /\ Children \subseteq Agents
      /\ a # c /\ st[c] = "absent" /\ st[a] \in {"tools", "draining"} /\ c \notin closures
  BY AgentsAssumption DEF Delegate, Agents, Drained
<1>2. /\ IsFiniteSet(R) /\ R \in {closures, closures \cup {Root}} /\ requests + Cardinality(R) <= MaxRequests
      /\ Root \notin R => requests + Cardinality(closures) = MaxRequests
  BY Finite, ReservedFits DEF TypeOK, Funded
<1>3. closures' = Reserved(R, c) BY DEF Delegate
<1> HIDE DEF R
<1>4. /\ IsFiniteSet(closures') /\ closures' \in {R, R \cup {c}} /\ requests + Cardinality(closures') <= MaxRequests
  BY <1>2, <1>3, ReservedFits DEF TypeOK
<1>5. /\ requests' = requests /\ requests \in Nat /\ Cardinality(closures) \in Nat
      /\ admitted' > 0 /\ admitted' \in 0 .. MaxDescendants
      /\ UNCHANGED <<turn, synth, repair, concluded, turns, toolless, slots>>
  BY Finite, LimitsAssumption DEF Delegate, TypeOK
<1>6. CASE c \in closures'
  <2> USE <1>6
  <2>1. Root \in closures' /\ closures \subseteq closures' /\ closures' \subseteq closures \cup {Root, c}
    <3>1. c \notin R BY <1>1, <1>2
    <3>2. MaxRequests - requests - Cardinality(R) > 0 BY <1>3, <3>1 DEF Reserved
    <3>3. Root \in R BY <1>2, <1>5, <3>2, LimitsAssumption
    <3> QED BY <1>2, <1>4, <3>3
  <2>2. /\ \A b \in Agents : st'[b] = IF b = c THEN "ready" ELSE st[b]
        /\ \A b \in Agents : depth'[b] = IF b = c THEN depth[a] + 1 ELSE depth[b]
        /\ \A d \in Children : parent'[d] = IF d = c THEN a ELSE parent[d]
    BY <1>1 DEF Delegate, Enter, TypeOK
  <2>3. TypeOK'
    <3>1. st' \in [Agents -> States] BY DEF Delegate, Enter, TypeOK, States
    <3>2. parent' \in [Children -> Agents] /\ limit' \in [Children -> 0 .. MaxChildTurns]
      BY LimitsAssumption DEF Delegate, TypeOK
    <3>3. depth' \in [Agents -> 0 .. MaxDepth] BY LimitsAssumption DEF Delegate, TypeOK
    <3> QED BY <1>1, <1>5, <2>1, <3>1, <3>2, <3>3 DEF TypeOK
  <2>4. Funded' BY <1>4, <1>5 DEF Funded
  <2>5. ConclusionFunded' BY <1>1, <1>5, <2>1, <2>2 DEF ConclusionFunded
  <2>6. SlotsOK'
    <3>1. Asking' = Asking BY <1>1, <2>2 DEF Asking
    <3> QED BY <1>5, <3>1 DEF SlotsOK
  <2>7. Drained'
    <3>1. ASSUME NEW d \in Children, Active(d)' PROVE st'[parent'[d]] \in {"tools", "draining"}
      BY <1>1, <2>2, <3>1 DEF Drained, Active, TypeOK
    <3>2. \A b \in closures' : st'[b] \notin {"absent", "done"}
      <4>1. st[Root] \in {"tools", "draining"}
        BY <1>1, QuietRoot DEF AtWork, Active, Agents
      <4> QED BY <1>1, <2>1, <2>2, <4>1 DEF Drained, TypeOK
    <3> QED BY <3>1, <3>2 DEF Drained
  <2>8. Tree' BY <1>1, <2>2 DEF Tree, TypeOK
  <2>9. RootHeld' BY <2>1 DEF RootHeld
  <2>10. LastToolless' /\ InTurn' /\ Sent'
    <3>1. st[Root] \in {"tools", "draining"} BY <1>1, QuietRoot DEF AtWork, Active, Agents
    <3> QED BY <1>1, <1>5, <2>2, <3>1 DEF LastToolless, InTurn, Sent
  <2>11. CombineFunded'
    BY <1>4, <1>5, <2>1, RoomForOwner DEF CombineFunded, Remaining
  <2> QED BY <2>3, <2>4, <2>5, <2>6, <2>7, <2>8, <2>9, <2>10, <2>11
<1>7. CASE c \notin closures'
  <2> USE <1>7
  <2>1. /\ UNCHANGED <<st, parent, depth, limit>>
        /\ closures \subseteq closures' /\ closures' \subseteq closures \cup {Root}
    BY <1>2, <1>4 DEF Delegate
  <2>2. st[Root] \in {"tools", "draining"} BY <1>1, QuietRoot DEF AtWork, Active, Agents
  <2>3. TypeOK' BY <1>1, <1>5, <2>1 DEF TypeOK
  <2>4. Funded' /\ SlotsOK' BY <1>4, <1>5, <2>1 DEF Funded, SlotsOK, Asking
  <2>5. ConclusionFunded' /\ Drained'
    BY <1>5, <2>1, <2>2 DEF ConclusionFunded, Drained, Active
  <2>6. Tree' /\ RootHeld' /\ InTurn' /\ Sent' BY <1>5, <2>1 DEF Tree, RootHeld, InTurn, Sent, AtWork, Active
  <2>7. LastToolless' BY <1>5, <2>1, <2>2 DEF LastToolless
  <2>8. CombineFunded'
    <3>1. closures' \ {Root} = closures \ {Root} BY <2>1
    <3> QED BY <1>5, <2>1, <3>1 DEF CombineFunded, Remaining
  <2> QED BY <2>3, <2>4, <2>5, <2>6, <2>7, <2>8
<1> QED BY <1>6, <1>7

-----------------------------------------------------------------------------
LEMMA RootBatchEnds ==
    ASSUME IInv, BatchDone(Root) \/ BatchRaises(Root)
    PROVE  IInv'
<1>1. TypeOK /\ Funded BY DEF IInv
<1> QED BY <1>1, RootMovesOn DEF BatchDone, BatchRaises, root, TypeOK, Funded

LEMMA NextIInv == IInv /\ [Next]_vars => IInv'
<1> SUFFICES ASSUME IInv, [Next]_vars PROVE IInv' OBVIOUS
<1>1. CASE RootStep BY <1>1, RootStepIInv
<1>2. ASSUME NEW c \in Children, ChildStep(c) PROVE IInv'
  BY <1>2, ChildQuietStep, ChildRequestStep, SettleStep DEF ChildStep
<1>3. ASSUME NEW a \in Agents, BatchStep(a) PROVE IInv'
  BY <1>3, ChildQuietStep, RootBatchEnds DEF BatchStep, Agents
<1>4. ASSUME NEW a \in Agents, NEW c \in Children, NEW n \in 1 .. MaxChildTurns, Delegate(a, c, n)
      PROVE  IInv'
  BY <1>4, DelegateStep
<1>5. CASE UNCHANGED vars
  <2> USE <1>5 DEF vars, child, root
  <2>1. TypeOK' /\ Funded' /\ ConclusionFunded' BY DEF IInv, TypeOK, Funded, ConclusionFunded
  <2>2. SlotsOK' /\ Drained' /\ CombineFunded'
    BY DEF IInv, SlotsOK, Asking, Drained, Active, CombineFunded, Remaining
  <2>3. Tree' /\ RootHeld' /\ LastToolless' /\ InTurn' /\ Sent'
    BY DEF IInv, Tree, RootHeld, AtWork, Active, LastToolless, InTurn, Sent
  <2> QED BY <2>1, <2>2, <2>3 DEF IInv
<1> QED BY <1>1, <1>2, <1>3, <1>4, <1>5 DEF Next, Over

\* The strengthened invariant holds in every behaviour.
THEOREM Invariance == Spec => []IInv
BY InitIInv, NextIInv, PTL DEF Spec

\* Every variable keeps its range; turns, admissions and depth their limits.
THEOREM TypeCorrect == Spec => []TypeOK
<1>1. IInv => TypeOK BY DEF IInv
<1> QED BY <1>1, Invariance, PTL

\* Requests and reservations of all agents stay under max_model_requests.
THEOREM CeilingHolds == Spec => []Funded
<1>1. IInv => Funded BY DEF IInv
<1> QED BY <1>1, Invariance, PTL

\* A child at work keeps the request that pays for its first conclusion.
THEOREM ConclusionsPaid == Spec => []ConclusionFunded
<1>1. IInv => ConclusionFunded BY DEF IInv
<1> QED BY <1>1, Invariance, PTL

\* A batch that started a child leaves the root a request for its synthesis.
THEOREM CombinePaid == Spec => []CombineFunded
<1>1. IInv => CombineFunded BY DEF IInv
<1> QED BY <1>1, Invariance, PTL

\* Provider slots are conserved.
THEOREM SlotsConserved == Spec => []SlotsOK
<1>1. IInv => SlotsOK BY DEF IInv
<1> QED BY <1>1, Invariance, PTL

\* Agents outlive those they started, and leave no reservation behind.
THEOREM SubtreeDrained == Spec => []Drained
<1>1. IInv => Drained BY DEF IInv
<1> QED BY <1>1, Invariance, PTL
=============================================================================
