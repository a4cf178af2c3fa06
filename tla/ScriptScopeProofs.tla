-------------------------- MODULE ScriptScopeProofs --------------------------
(***************************************************************************)
(* What ScriptScope promises, for any number of runs, jobs and calls:       *)
(* nothing outlives its run, a stop leaves no more than the calls that had  *)
(* the lock or a turn, and whatever is alive is paid for by a slot.         *)
(***************************************************************************)
EXTENDS ScriptScope, FiniteSetTheorems, SequenceTheorems, TLAPS

\* A job id is given out once, to the run whose scope created it.
Owned == \A j \in Jobs : stage[j] = "none" <=> owner[j] = NoScope

\* From its creation to the end of its cleanup a job has a slot, and as long as its
\* worker lives; its calls are pending only while it exchanges or drains them.
Paid ==
    \A j \in Jobs :
        /\ stage[j] \in {"created", "spawning", "exchange", "cleanup"} => j \in slots
        /\ process[j] = "alive" => j \in slots
        /\ Pending(j) # {} => stage[j] \in {"exchange", "cleanup"}

\* When close() has returned, every job of the run is done and without a slot.
Ended == \A s \in Scopes : root[s] = "over" => Active(s) = {} /\ JobsOf(s) \cap slots = {}

\* Who waits for the lock of the runner, or has it, is pending.
Waiting == \A j \in Jobs, c \in Calls : Contains(queue, <<j, c>>) => c \in Pending(j)

\* A call that writes is admitted, and then runs, as the holder of the lock of the runner.
Granted ==
    \A j \in Jobs, c \in Calls :
        call[j][c] \in {"admitted", "running"} /\ Writes(j, c) => Head(queue) = <<j, c>>

\* The calls that read have a turn each.
ReadsOK == \A s \in Scopes : IsFiniteSet(Reading(s)) /\ Cardinality(Reading(s)) <= ParallelReads

\* The calls of a scope that a stop does not reach any more, whether they have entered
\* their tool since or are still on their way.
Admitted(s) == {p \in JobsOf(s) \X Calls : call[p[1]][p[2]] = "admitted"}
Writers(s) == Late(s, "write") \cup {p \in Admitted(s) : Writes(p[1], p[2])}
Readers(s) == Late(s, "read") \cup {p \in Admitted(s) : ~Writes(p[1], p[2])}

\* They are counted from the stop on, and grow no more.
LateOK ==
    \A s \in Scopes :
        IF Stopped(s) THEN /\ \A p, q \in Writers(s) : p = q
                           /\ IsFiniteSet(Readers(s)) /\ Cardinality(Readers(s)) <= ParallelReads
                      ELSE Late(s, "write") = {} /\ Late(s, "read") = {}

\* What is late belongs to a scope.
LateOwned == \A kind \in {"read", "write"} : \A p \in late[kind] : owner[p[1]] \in Scopes

Counted == IsFiniteSet(slots) /\ Cardinality(slots) <= MaxJobs

Stops == Granted /\ ReadsOK /\ LateOK /\ LateOwned

IInv == TypeOK /\ QueueOK /\ Owned /\ Paid /\ Ended /\ Waiting /\ Counted /\ Stops

-----------------------------------------------------------------------------
(* Queues without repetition                                                *)

\* The only occurrence is the first one.
LEMMA FirstAt ==
    ASSUME NEW T, NEW q \in Seq(T), IsInjective(q), NEW n \in 1 .. Len(q)
    PROVE  RemoveFirst(q, q[n]) = SubSeq(q, 1, n - 1) \o SubSeq(q, n + 1, Len(q))
<1> DEFINE I == {i \in 1 .. Len(q) : q[i] = q[n]}
<1>1. I = {n} BY DEF IsInjective
<1>2. Min({n}) = n BY DEF Min
<1> QED BY <1>1, <1>2 DEF RemoveFirst, RemoveAt, SelectInSeq

\* A waiter that leaves.
LEMMA Removed ==
    ASSUME NEW T, NEW q \in Seq(T), IsInjective(q), NEW e
    PROVE  /\ RemoveFirst(q, e) \in Seq(T) /\ IsInjective(RemoveFirst(q, e))
           /\ \A x : Contains(RemoveFirst(q, e), x) <=> Contains(q, x) /\ x # e
           /\ q # <<>> /\ Head(q) # e => Head(RemoveFirst(q, e)) = Head(q)
<1>1. CASE \A i \in 1 .. Len(q) : q[i] # e
  BY <1>1 DEF RemoveFirst, Contains
<1>2. CASE \E n \in 1 .. Len(q) : q[n] = e
  <2> PICK n \in 1 .. Len(q) : q[n] = e BY <1>2
  <2> DEFINE r == RemoveFirst(q, e)
  <2>1. r = SubSeq(q, 1, n - 1) \o SubSeq(q, n + 1, Len(q)) BY FirstAt
  <2>2. /\ r \in Seq(T) /\ Len(r) = Len(q) - 1
        /\ \A i \in 1 .. Len(r) : r[i] = IF i < n THEN q[i] ELSE q[i + 1]
    <3> DEFINE a == SubSeq(q, 1, n - 1)
               b == SubSeq(q, n + 1, Len(q))
    <3>1. /\ a \in Seq(T) /\ Len(a) = n - 1 /\ \A i \in 1 .. n - 1 : a[i] = q[i]
      OBVIOUS
    <3>2. /\ b \in Seq(T) /\ Len(b) = Len(q) - n /\ \A i \in 1 .. Len(q) - n : b[i] = q[n + i]
      OBVIOUS
    <3> HIDE DEF a, b
    <3>3. r = a \o b BY <2>1 DEF a, b
    <3> HIDE DEF r
    <3>4. r \in Seq(T) /\ Len(r) = Len(q) - 1 BY <3>1, <3>2, <3>3
    <3>5. ASSUME NEW i \in 1 .. Len(r) PROVE r[i] = IF i < n THEN q[i] ELSE q[i + 1]
      <4>1. CASE i < n BY <4>1, <3>1, <3>2, <3>3, <3>4
      <4>2. CASE ~(i < n)
        <5>1. i - (n - 1) \in 1 .. Len(q) - n BY <4>2, <3>4
        <5>2. r[i] = b[i - (n - 1)] BY <4>2, <5>1, <3>1, <3>2, <3>3
        <5> QED BY <4>2, <5>1, <5>2, <3>2
      <4> QED BY <4>1, <4>2
    <3> QED BY <3>4, <3>5
  <2> HIDE DEF r
  <2>3. IsInjective(r)
    <3>1. DOMAIN r = 1 .. Len(r) /\ DOMAIN q = 1 .. Len(q) BY <2>2
    <3> SUFFICES ASSUME NEW i \in 1 .. Len(r), NEW k \in 1 .. Len(r), r[i] = r[k] PROVE i = k
      BY <3>1 DEF IsInjective
    <3>2. Len(q) \in Nat OBVIOUS
    <3>3. PICK a \in 1 .. Len(q) : a = (IF i < n THEN i ELSE i + 1) BY <2>2, <3>2
    <3>4. PICK b \in 1 .. Len(q) : b = (IF k < n THEN k ELSE k + 1) BY <2>2, <3>2
    <3>5. q[a] = q[b] BY <2>2, <3>3, <3>4
    <3>6. a = b BY <3>1, <3>5 DEF IsInjective
    <3> QED BY <3>3, <3>4, <3>6
  <2>4. ASSUME NEW x PROVE Contains(r, x) <=> Contains(q, x) /\ x # e
    <3>1. ASSUME Contains(r, x) PROVE Contains(q, x) /\ x # e
      <4>1. PICK i \in 1 .. Len(r) : r[i] = x BY <3>1 DEF Contains
      <4>2. DOMAIN q = 1 .. Len(q) /\ Len(q) \in Nat OBVIOUS
      <4>3. PICK k \in 1 .. Len(q) : k # n /\ q[k] = x BY <4>1, <4>2, <2>2
      <4> QED BY <4>2, <4>3 DEF IsInjective, Contains
    <3>2. ASSUME Contains(q, x), x # e PROVE Contains(r, x)
      <4>1. PICK k \in 1 .. Len(q) : q[k] = x BY <3>2 DEF Contains
      <4>2. k # n /\ Len(q) \in Nat BY <4>1, <3>2
      <4>3. CASE k < n BY <4>1, <4>2, <4>3, <2>2 DEF Contains
      <4>4. CASE k > n
        <5>1. k - 1 \in 1 .. Len(r) /\ ~(k - 1 < n) BY <4>1, <4>2, <4>4, <2>2
        <5>2. r[k - 1] = q[(k - 1) + 1] BY <5>1, <2>2
        <5> QED BY <5>1, <5>2, <4>1 DEF Contains
      <4> QED BY <4>2, <4>3, <4>4
    <3> QED BY <3>1, <3>2
  <2>5. q # <<>> /\ Head(q) # e => Head(r) = Head(q)
    <3> SUFFICES ASSUME q # <<>>, Head(q) # e PROVE Head(r) = Head(q) OBVIOUS
    <3>1. Head(q) = q[1] /\ Len(q) \in Nat OBVIOUS
    <3>2. n > 1 BY <3>1
    <3>3. 1 \in 1 .. Len(r) /\ r # <<>> BY <3>1, <3>2, <2>2
    <3>4. r[1] = q[1] BY <3>2, <3>3, <2>2
    <3> QED BY <3>1, <3>3, <3>4, <2>2
  <2> QED BY <2>2, <2>3, <2>4, <2>5 DEF r
<1> QED BY <1>1, <1>2

\* A waiter that comes.
LEMMA Appended ==
    ASSUME NEW T, NEW q \in Seq(T), IsInjective(q), NEW e \in T, ~Contains(q, e)
    PROVE  /\ Append(q, e) \in Seq(T) /\ IsInjective(Append(q, e))
           /\ \A x : Contains(Append(q, e), x) <=> Contains(q, x) \/ x = e
           /\ q # <<>> => Head(Append(q, e)) = Head(q)
<1> DEFINE r == Append(q, e)
<1>1. /\ r \in Seq(T) /\ Len(r) = Len(q) + 1 /\ Len(q) \in Nat
      /\ DOMAIN r = 1 .. Len(r) /\ DOMAIN q = 1 .. Len(q)
      /\ \A i \in 1 .. Len(q) : r[i] = q[i]
      /\ r[Len(q) + 1] = e
  OBVIOUS
<1> HIDE DEF r
<1>2. IsInjective(r)
  <2> SUFFICES ASSUME NEW i \in 1 .. Len(r), NEW k \in 1 .. Len(r), r[i] = r[k] PROVE i = k
    BY <1>1 DEF IsInjective
  <2>1. CASE i \in 1 .. Len(q) /\ k \in 1 .. Len(q) BY <2>1, <1>1 DEF IsInjective
  <2>2. CASE i = Len(q) + 1 \/ k = Len(q) + 1 BY <2>2, <1>1 DEF Contains
  <2> QED BY <1>1, <2>1, <2>2
<1>3. ASSUME NEW x PROVE Contains(r, x) <=> Contains(q, x) \/ x = e
  BY <1>1 DEF Contains
<1>4. q # <<>> => Head(r) = Head(q) BY <1>1
<1> QED BY <1>1, <1>2, <1>3, <1>4 DEF r

\* The holder that gives the lock up.
LEMMA Shifted ==
    ASSUME NEW T, NEW q \in Seq(T), IsInjective(q), q # <<>>
    PROVE  /\ Tail(q) \in Seq(T) /\ IsInjective(Tail(q))
           /\ \A x : Contains(Tail(q), x) <=> Contains(q, x) /\ x # Head(q)
<1> DEFINE r == Tail(q)
<1>1. /\ r \in Seq(T) /\ Len(r) = Len(q) - 1 /\ Len(q) \in Nat /\ Len(q) > 0
      /\ DOMAIN r = 1 .. Len(r) /\ DOMAIN q = 1 .. Len(q)
      /\ \A i \in 1 .. Len(r) : r[i] = q[i + 1]
      /\ Head(q) = q[1]
  OBVIOUS
<1> HIDE DEF r
<1>2. IsInjective(r)
  BY <1>1, SMTT(30) DEF IsInjective
<1>3. ASSUME NEW x PROVE Contains(r, x) <=> Contains(q, x) /\ x # Head(q)
  <2>1. ASSUME Contains(r, x) PROVE Contains(q, x) /\ x # Head(q)
    <3>1. PICK i \in 1 .. Len(r) : r[i] = x BY <2>1 DEF Contains
    <3>2. i + 1 \in 1 .. Len(q) /\ i + 1 # 1 /\ q[i + 1] = x BY <3>1, <1>1
    <3> QED BY <3>2, <1>1 DEF Contains, IsInjective
  <2>2. ASSUME Contains(q, x), x # Head(q) PROVE Contains(r, x)
    <3>1. PICK k \in 1 .. Len(q) : q[k] = x BY <2>2 DEF Contains
    <3>2. k - 1 \in 1 .. Len(r) BY <3>1, <2>2, <1>1
    <3>3. r[k - 1] = q[(k - 1) + 1] BY <3>2, <1>1
    <3> QED BY <3>1, <3>2, <3>3, <1>1 DEF Contains
  <2> QED BY <2>1, <2>2
<1> QED BY <1>1, <1>2, <1>3 DEF r

-----------------------------------------------------------------------------
(* What a step leaves alone                                                 *)

\* Calls may become pending, and none of them waits for the lock.
LEMMA QueueStays ==
    ASSUME QueueOK, Waiting, UNCHANGED queue,
           \A s \in Scopes : root'[s] = "writing" <=> root[s] = "writing",
           \A j \in Jobs : Pending(j) \subseteq Pending(j)'
    PROVE  QueueOK' /\ Waiting'
<1>1. QueueOK' BY DEF QueueOK
<1>2. Waiting' BY DEF Waiting
<1> QED BY <1>1, <1>2

\* A part of a set has no more members.
LEMMA FewerThan ==
    ASSUME NEW S, IsFiniteSet(S), NEW T, T \subseteq S, NEW n \in Nat, Cardinality(S) <= n
    PROVE  IsFiniteSet(T) /\ Cardinality(T) <= n
BY FS_Subset, FS_CardinalityType

\* Slots are given back.
LEMMA SlotsFewer == ASSUME Counted, slots' \subseteq slots PROVE Counted'
BY FS_Subset, FS_CardinalityType, ScriptAssumption DEF Counted

\* A call that ends, or is dropped, leaves the lock and its queue.
LEMMA CallLeaves ==
    ASSUME TypeOK, QueueOK, Waiting, NEW j \in Jobs, NEW c \in Calls, queue' = Without(queue, <<j, c>>),
           root' = root, \A i \in Jobs, d \in Calls : <<i, d>> # <<j, c>> => call'[i][d] = call[i][d]
    PROVE  QueueOK' /\ Waiting'
<1>1. /\ queue' \in Seq(Scopes \cup (Jobs \X Calls)) /\ IsInjective(queue')
      /\ \A x : Contains(queue', x) <=> Contains(queue, x) /\ x # <<j, c>>
  BY Removed DEF QueueOK, Without
<1>2. <<j, c>> \notin Scopes BY ScriptAssumption
<1>3. QueueOK' BY <1>1, <1>2 DEF QueueOK
<1>4. Waiting'
  <2> SUFFICES ASSUME NEW i \in Jobs, NEW d \in Calls, Contains(queue', <<i, d>>) PROVE d \in Pending(i)'
    BY DEF Waiting
  <2>1. Contains(queue, <<i, d>>) /\ <<i, d>> # <<j, c>> BY <1>1
  <2> QED BY <2>1 DEF Waiting, Pending
<1> QED BY <1>3, <1>4

\* A step that admits no call and lets none enter its tool.
Calm ==
    /\ late' = late
    /\ \A j \in Jobs : owner[j] \in Scopes => owner'[j] = owner[j]
    /\ \A s \in Scopes : Stopped(s) => Stopped(s)'
    /\ \A j \in Jobs, c \in Calls :
           call'[j][c] \in {"admitted", "running"} =>
               /\ call'[j][c] = call[j][c] /\ owner[j] \in Scopes
               /\ Writes(j, c)' <=> Writes(j, c)
               /\ Writes(j, c) => Head(queue') = Head(queue)

LEMMA StopsStay == ASSUME TypeOK, Stops, Calm PROVE Stops'
<1>1. ASSUME NEW s \in Scopes
      PROVE  /\ Reading(s)' \subseteq Reading(s)
             /\ Admitted(s)' \subseteq Admitted(s)
             /\ \A p \in Admitted(s)' : Writes(p[1], p[2])' <=> Writes(p[1], p[2])
             /\ Late(s, "write")' = Late(s, "write") /\ Late(s, "read")' = Late(s, "read")
  <2>1. \A p \in Reading(s)' : p \in Reading(s) BY DEF Calm, Reading, JobsOf
  <2>2. \A p \in Admitted(s)' : p \in Admitted(s) /\ (Writes(p[1], p[2])' <=> Writes(p[1], p[2]))
    BY DEF Calm, Admitted, JobsOf
  <2>3. ASSUME NEW kind \in {"read", "write"} PROVE Late(s, kind)' = Late(s, kind)
    <3>1. \A p \in late[kind] : p[1] \in Jobs /\ owner'[p[1]] = owner[p[1]]
      BY DEF TypeOK, Stops, LateOwned, Calm
    <3> QED BY <3>1 DEF Calm, Late
  <2> QED BY <2>1, <2>2, <2>3
<1>2. Granted' BY DEF Stops, Granted, Calm
<1>3. ReadsOK'
  <2> SUFFICES ASSUME NEW s \in Scopes
               PROVE  IsFiniteSet(Reading(s)') /\ Cardinality(Reading(s)') <= ParallelReads
    BY DEF ReadsOK
  <2>1. IsFiniteSet(Reading(s)) /\ Cardinality(Reading(s)) <= ParallelReads BY DEF Stops, ReadsOK
  <2> QED BY <1>1, <2>1, FewerThan, ScriptAssumption
<1>4. LateOwned'
  <2>1. \A kind \in {"read", "write"} : \A p \in late[kind] : p[1] \in Jobs BY DEF TypeOK
  <2> QED BY <2>1 DEF Stops, LateOwned, Calm
<1>5. LateOK'
  <2> SUFFICES ASSUME NEW s \in Scopes
               PROVE  IF Stopped(s)' THEN /\ \A p, q \in Writers(s)' : p = q
                                          /\ IsFiniteSet(Readers(s)') /\ Cardinality(Readers(s)') <= ParallelReads
                                     ELSE Late(s, "write")' = {} /\ Late(s, "read")' = {}
    BY DEF LateOK
  <2>1. Writers(s)' \subseteq Writers(s) /\ Readers(s)' \subseteq Readers(s) BY <1>1 DEF Writers, Readers
  <2>2. CASE Stopped(s)
    <3>1. Stopped(s)' BY <2>2 DEF Calm
    <3>2. /\ \A p, q \in Writers(s) : p = q
          /\ IsFiniteSet(Readers(s)) /\ Cardinality(Readers(s)) <= ParallelReads
      BY <2>2 DEF Stops, LateOK
    <3> QED BY <2>1, <3>1, <3>2, FewerThan, ScriptAssumption
  <2>3. CASE ~Stopped(s)
    <3>1. Late(s, "write") = {} /\ Late(s, "read") = {} BY <2>3 DEF Stops, LateOK
    <3>2. \A p, q \in Writers(s)' : p = q
      BY <2>1, <3>1 DEF Stops, Granted, Writers, Admitted, JobsOf
    <3>3. Readers(s)' \subseteq Reading(s) BY <2>1, <3>1 DEF Readers, Admitted, Reading
    <3>4. IsFiniteSet(Reading(s)) /\ Cardinality(Reading(s)) <= ParallelReads BY DEF Stops, ReadsOK
    <3>5. IsFiniteSet(Readers(s)') /\ Cardinality(Readers(s)') <= ParallelReads BY <3>3, <3>4, FewerThan, ScriptAssumption
    <3> QED BY <1>1, <3>1, <3>2, <3>5
  <2> QED BY <2>2, <2>3
<1> QED BY <1>2, <1>3, <1>4, <1>5 DEF Stops

\* Whose calls are pending has an owner.
LEMMA PendingOwned ==
    ASSUME IInv, NEW j \in Jobs, NEW c \in Pending(j)
    PROVE  owner[j] \in Scopes
BY DEF IInv, TypeOK, Owned, Paid

\* Most steps leave the calls and the lock alone.
LEMMA CallsStay ==
    ASSUME IInv, UNCHANGED <<call, queue, late>>,
           \A j \in Jobs : owner[j] \in Scopes => owner'[j] = owner[j],
           \A s \in Scopes : Stopped(s) => Stopped(s)'
    PROVE  Stops'
<1>1. ASSUME NEW j \in Jobs, NEW c \in Calls, call'[j][c] \in {"admitted", "running"} PROVE owner[j] \in Scopes
  BY <1>1, PendingOwned DEF Pending
<1>2. Calm BY <1>1 DEF Calm, Writes
<1> QED BY <1>2, StopsStay DEF IInv

\* A call that ends, or is dropped, leaves the others where they are.
LEMMA CallLeavesStops ==
    ASSUME IInv, NEW j \in Jobs, NEW c \in Calls, queue' = Without(queue, <<j, c>>),
           UNCHANGED <<root, fatal, owner, late>>, call'[j][c] \notin {"admitted", "running"},
           \A i \in Jobs, d \in Calls : <<i, d>> # <<j, c>> => call'[i][d] = call[i][d]
    PROVE  Stops'
<1>1. ASSUME NEW i \in Jobs, NEW d \in Calls, call'[i][d] \in {"admitted", "running"}
      PROVE  /\ call'[i][d] = call[i][d] /\ owner[i] \in Scopes
             /\ Writes(i, d)' <=> Writes(i, d)
             /\ Writes(i, d) => Head(queue') = Head(queue)
  <2>1. <<i, d>> # <<j, c>> /\ call'[i][d] = call[i][d] BY <1>1
  <2>2. owner[i] \in Scopes BY <1>1, <2>1, PendingOwned DEF Pending
  <2>3. /\ Contains(queue', <<i, d>>) <=> Contains(queue, <<i, d>>)
        /\ queue # <<>> /\ Head(queue) # <<j, c>> => Head(queue') = Head(queue)
    BY <2>1, Removed DEF IInv, QueueOK, Without
  <2>4. Writes(i, d) => Head(queue) = <<i, d>> /\ queue # <<>>
    BY <1>1, <2>1 DEF IInv, Stops, Granted, Writes, Contains
  <2> QED BY <2>1, <2>2, <2>3, <2>4 DEF Writes
<1>2. \A s \in Scopes : Stopped(s) => Stopped(s)' BY DEF Stopped, Closed
<1>3. Calm BY <1>1, <1>2 DEF Calm
<1> QED BY <1>3, StopsStay DEF IInv

-----------------------------------------------------------------------------
(* The run                                                                  *)

LEMMA StartJobStep == ASSUME IInv, NEW s \in Scopes, NEW j \in Jobs, StartJob(s, j) PROVE IInv'
<1> USE DEF StartJob, runs, jobs, Check
<1>1. TypeOK' BY ScriptAssumption DEF IInv, TypeOK
<1>2. Owned' /\ Paid' /\ Ended'
  <2>1. Owned' BY ScriptAssumption DEF IInv, TypeOK, Owned
  <2>2. Paid'
    <3>1. \A i \in Jobs : Pending(i)' = Pending(i) BY DEF Pending
    <3>2. stage[j] = "none" BY DEF IInv, Owned
    <3>3. Pending(j) = {} BY <3>2 DEF IInv, Paid
    <3> QED BY <3>1, <3>3 DEF IInv, TypeOK, Paid
  <2>3. Ended' BY DEF IInv, TypeOK, Ended, Active, JobsOf
  <2> QED BY <2>1, <2>2, <2>3
<1>3. QueueOK' /\ Waiting' BY QueueStays DEF IInv, TypeOK, Pending
<1>4. Counted'
  <2>1. j \notin slots => Cardinality(slots') = Cardinality(slots) + 1 BY FS_AddElement DEF IInv, Counted
  <2>2. IsFiniteSet(slots') BY FS_AddElement DEF IInv, Counted
  <2>3. j \in slots => slots' = slots OBVIOUS
  <2>4. Cardinality(slots) \in Nat BY FS_CardinalityType DEF IInv, Counted
  <2>5. Cardinality(slots) < MaxJobs /\ MaxJobs \in Nat BY ScriptAssumption
  <2>6. Cardinality(slots') <= MaxJobs BY <2>1, <2>3, <2>4, <2>5
  <2> QED BY <2>2, <2>6 DEF Counted
<1>5. Stops'
  <2>1. \A t \in Scopes : Stopped(t) => Stopped(t)' BY DEF Stopped, Closed
  <2> QED BY <2>1, CallsStay, ScriptAssumption DEF IInv, TypeOK
<1> QED BY <1>1, <1>2, <1>3, <1>4, <1>5 DEF IInv

LEMMA StopJobStep == ASSUME IInv, NEW s \in Scopes, NEW j \in Jobs, StopJob(s, j) PROVE IInv'
<1> USE DEF StopJob, runs, jobs, Active, JobsOf
<1>1. TypeOK' BY ScriptAssumption DEF IInv, TypeOK, Owned, Active, JobsOf
<1>2. Owned' /\ Paid' /\ Ended'
  <2>1. Owned' BY DEF IInv, TypeOK, Owned
  <2>2. Paid' BY DEF IInv, TypeOK, Paid, Pending
  <2>3. Ended' BY DEF IInv, TypeOK, Ended, Active, JobsOf
  <2> QED BY <2>1, <2>2, <2>3
<1>3. QueueOK' /\ Waiting' BY QueueStays DEF IInv, TypeOK, Pending
<1>4. Counted' BY SlotsFewer DEF IInv
<1>5. Stops'
  <2>1. \A t \in Scopes : Stopped(t) => Stopped(t)' BY DEF IInv, TypeOK, Stopped, Closed
  <2> QED BY <2>1, CallsStay DEF IInv, TypeOK
<1> QED BY <1>1, <1>2, <1>3, <1>4, <1>5 DEF IInv

LEMMA SettleStep == ASSUME IInv, NEW s \in Scopes, Settle(s) PROVE IInv'
<1> USE DEF Settle, runs, jobs, Active, JobsOf
<1>1. TypeOK' BY ScriptAssumption DEF IInv, TypeOK
<1>2. Owned' /\ Paid' /\ Ended'
  <2>1. Owned' BY DEF IInv, TypeOK, Owned
  <2>2. Paid' BY DEF IInv, TypeOK, Paid, Pending
  <2>3. Ended' BY DEF IInv, TypeOK, Ended, Active, JobsOf
  <2> QED BY <2>1, <2>2, <2>3
<1>3. QueueOK' /\ Waiting' BY QueueStays DEF IInv, TypeOK, Pending
<1>4. Counted' BY SlotsFewer DEF IInv
<1>5. Stops'
  <2>1. \A t \in Scopes : Stopped(t) => Stopped(t)' BY DEF IInv, TypeOK, Stopped, Closed
  <2> QED BY <2>1, CallsStay DEF IInv, TypeOK
<1> QED BY <1>1, <1>2, <1>3, <1>4, <1>5 DEF IInv

LEMMA CancelSettleStep == ASSUME IInv, NEW s \in Scopes, CancelSettle(s) PROVE IInv'
<1> USE DEF CancelSettle, runs, jobs
<1>1. TypeOK' BY ScriptAssumption DEF IInv, TypeOK, Owned, Active, JobsOf
<1>2. Owned' /\ Paid' /\ Ended'
  <2>1. Owned' BY DEF IInv, TypeOK, Owned
  <2>2. Paid' BY DEF IInv, TypeOK, Paid, Pending
  <2>3. Ended' BY DEF IInv, TypeOK, Ended, Active, JobsOf
  <2> QED BY <2>1, <2>2, <2>3
<1>3. QueueOK' /\ Waiting' BY QueueStays DEF IInv, TypeOK, Pending
<1>4. Counted' BY SlotsFewer DEF IInv
<1>5. Stops'
  <2>1. \A t \in Scopes : Stopped(t) => Stopped(t)' BY DEF IInv, TypeOK, Stopped, Closed
  <2> QED BY <2>1, CallsStay DEF IInv, TypeOK
<1> QED BY <1>1, <1>2, <1>3, <1>4, <1>5 DEF IInv

LEMMA WaitedStep == ASSUME IInv, NEW s \in Scopes, Waited(s) PROVE IInv'
<1> USE DEF Waited, runs, jobs
<1>1. TypeOK' BY ScriptAssumption DEF IInv, TypeOK
<1>2. Owned' /\ Paid' /\ Ended'
  <2>1. Owned' BY DEF IInv, TypeOK, Owned
  <2>2. Paid' BY DEF IInv, TypeOK, Paid, Pending
  <2>3. Ended' BY DEF IInv, TypeOK, Ended, Active, JobsOf
  <2> QED BY <2>1, <2>2, <2>3
<1>3. QueueOK' /\ Waiting' BY QueueStays DEF IInv, TypeOK, Pending
<1>4. Counted' BY SlotsFewer DEF IInv
<1>5. Stops'
  <2>1. \A t \in Scopes : Stopped(t) => Stopped(t)' BY DEF IInv, TypeOK, Stopped, Closed
  <2> QED BY <2>1, CallsStay DEF IInv, TypeOK
<1> QED BY <1>1, <1>2, <1>3, <1>4, <1>5 DEF IInv

LEMMA WantWriteStep == ASSUME IInv, NEW s \in Scopes, WantWrite(s) PROVE IInv'
<1> USE DEF WantWrite, runs, jobs
<1>1. TypeOK' BY ScriptAssumption DEF IInv, TypeOK
<1>2. Owned' /\ Paid' /\ Ended'
  <2>1. Owned' BY DEF IInv, TypeOK, Owned
  <2>2. Paid' BY DEF IInv, TypeOK, Paid, Pending
  <2>3. Ended' BY DEF IInv, TypeOK, Ended, Active, JobsOf
  <2> QED BY <2>1, <2>2, <2>3
<1>3. QueueOK' /\ Waiting'
  <2>1. s \in Scopes \cup (Jobs \X Calls) /\ ~Contains(queue, s) BY DEF IInv, QueueOK
  <2>2. /\ queue' \in Seq(Scopes \cup (Jobs \X Calls)) /\ IsInjective(queue')
        /\ \A x : Contains(queue', x) <=> Contains(queue, x) \/ x = s
    BY <2>1, Appended DEF IInv, QueueOK
  <2>3. QueueOK' BY <2>2 DEF IInv, TypeOK, QueueOK
  <2>4. s \notin Jobs \X Calls BY ScriptAssumption
  <2>5. Waiting' BY <2>2, <2>4 DEF IInv, Waiting, Pending
  <2> QED BY <2>3, <2>5
<1>4. Counted' BY SlotsFewer DEF IInv
<1>5. Stops'
  <2>1. \A t \in Scopes : Stopped(t) => Stopped(t)' BY DEF IInv, TypeOK, Stopped, Closed
  <2>2. ASSUME NEW i \in Jobs, NEW d \in Calls, call'[i][d] \in {"admitted", "running"}
        PROVE  /\ call'[i][d] = call[i][d] /\ owner[i] \in Scopes
               /\ Writes(i, d)' <=> Writes(i, d)
               /\ Writes(i, d) => Head(queue') = Head(queue)
    <3>1. call'[i][d] = call[i][d] /\ owner[i] \in Scopes BY <2>2, PendingOwned DEF Pending
    <3>2. <<i, d>> # s BY ScriptAssumption
    <3>3. Writes(i, d) => Head(queue) = <<i, d>> /\ queue # <<>>
      BY <2>2, <3>1 DEF IInv, Stops, Granted, Writes, Contains
    <3>4. /\ Contains(queue', <<i, d>>) <=> Contains(queue, <<i, d>>)
          /\ queue # <<>> => Head(queue') = Head(queue)
      BY <3>2, Appended DEF IInv, QueueOK
    <3> QED BY <3>1, <3>2, <3>3, <3>4 DEF Writes
  <2>3. Calm BY <2>1, <2>2 DEF Calm
  <2> QED BY <2>3, StopsStay DEF IInv
<1> QED BY <1>1, <1>2, <1>3, <1>4, <1>5 DEF IInv

LEMMA WrittenStep == ASSUME IInv, NEW s \in Scopes, Written(s) PROVE IInv'
<1> USE DEF Written, runs, jobs
<1>1. TypeOK' BY ScriptAssumption DEF IInv, TypeOK
<1>2. Owned' /\ Paid' /\ Ended'
  <2>1. Owned' BY DEF IInv, TypeOK, Owned
  <2>2. Paid' BY DEF IInv, TypeOK, Paid, Pending
  <2>3. Ended' BY DEF IInv, TypeOK, Ended, Active, JobsOf
  <2> QED BY <2>1, <2>2, <2>3
<1>3. QueueOK' /\ Waiting'
  <2>1. Contains(queue, s) /\ queue # <<>> BY DEF IInv, QueueOK, Contains
  <2>2. /\ queue' \in Seq(Scopes \cup (Jobs \X Calls)) /\ IsInjective(queue')
        /\ \A x : Contains(queue', x) <=> Contains(queue, x) /\ x # s
    BY <2>1, Shifted DEF IInv, QueueOK
  <2>3. QueueOK' BY <2>2 DEF IInv, TypeOK, QueueOK
  <2>4. Waiting' BY <2>2 DEF IInv, Waiting, Pending
  <2> QED BY <2>3, <2>4
<1>4. Counted' BY SlotsFewer DEF IInv
<1>5. Stops'
  <2>1. \A t \in Scopes : Stopped(t) => Stopped(t)' BY DEF IInv, TypeOK, Stopped, Closed
  <2>2. ASSUME NEW i \in Jobs, NEW d \in Calls, call'[i][d] \in {"admitted", "running"}
        PROVE  /\ call'[i][d] = call[i][d] /\ owner[i] \in Scopes
               /\ Writes(i, d)' <=> Writes(i, d)
               /\ Writes(i, d) => Head(queue') = Head(queue)
    <3>1. call'[i][d] = call[i][d] /\ owner[i] \in Scopes BY <2>2, PendingOwned DEF Pending
    <3>2. <<i, d>> # s BY ScriptAssumption
    <3>3. Writes(i, d) => Head(queue) = <<i, d>> /\ queue # <<>>
      BY <2>2, <3>1 DEF IInv, Stops, Granted, Writes, Contains
    <3>4. Contains(queue', <<i, d>>) <=> Contains(queue, <<i, d>>)
      <4>1. queue # <<>> BY DEF IInv, QueueOK, Contains
      <4> QED BY <3>2, <4>1, Shifted DEF IInv, QueueOK
    <3> QED BY <3>1, <3>2, <3>3, <3>4 DEF Writes
  <2>3. Calm BY <2>1, <2>2 DEF Calm
  <2> QED BY <2>3, StopsStay DEF IInv
<1> QED BY <1>1, <1>2, <1>3, <1>4, <1>5 DEF IInv

LEMMA CloseStep == ASSUME IInv, NEW s \in Scopes, Close(s) PROVE IInv'
<1> USE DEF Close, runs, jobs, Interruptible
<1>1. TypeOK' BY ScriptAssumption DEF IInv, TypeOK, Owned, Active, JobsOf
<1>2. Owned' /\ Paid' /\ Ended'
  <2>1. Owned' BY DEF IInv, TypeOK, Owned
  <2>2. Paid' BY DEF IInv, TypeOK, Paid, Pending
  <2>3. Ended' BY DEF IInv, TypeOK, Ended, Active, JobsOf
  <2> QED BY <2>1, <2>2, <2>3
<1>3. QueueOK' /\ Waiting'
  <2>1. /\ queue' \in Seq(Scopes \cup (Jobs \X Calls)) /\ IsInjective(queue')
        /\ \A x : Contains(queue', x) <=> Contains(queue, x) /\ x # s
    BY Removed DEF IInv, QueueOK, Without
  <2>2. QueueOK' BY <2>1 DEF IInv, TypeOK, QueueOK
  <2>3. Waiting' BY <2>1 DEF IInv, Waiting, Pending
  <2> QED BY <2>2, <2>3
<1>4. Counted' BY SlotsFewer DEF IInv
<1>5. Stops'
  <2>1. \A t \in Scopes : Stopped(t) => Stopped(t)' BY DEF IInv, TypeOK, Stopped, Closed
  <2>2. ASSUME NEW i \in Jobs, NEW d \in Calls, call'[i][d] \in {"admitted", "running"}
        PROVE  /\ call'[i][d] = call[i][d] /\ owner[i] \in Scopes
               /\ Writes(i, d)' <=> Writes(i, d)
               /\ Writes(i, d) => Head(queue') = Head(queue)
    <3>1. call'[i][d] = call[i][d] /\ owner[i] \in Scopes BY <2>2, PendingOwned DEF Pending
    <3>2. <<i, d>> # s BY ScriptAssumption
    <3>3. Writes(i, d) => Head(queue) = <<i, d>> /\ queue # <<>>
      BY <2>2, <3>1 DEF IInv, Stops, Granted, Writes, Contains
    <3>4. /\ Contains(queue', <<i, d>>) <=> Contains(queue, <<i, d>>)
          /\ queue # <<>> /\ Head(queue) # s => Head(queue') = Head(queue)
      BY <3>2, Removed DEF IInv, QueueOK, Without
    <3> QED BY <3>1, <3>2, <3>3, <3>4 DEF Writes
  <2>3. Calm BY <2>1, <2>2 DEF Calm
  <2> QED BY <2>3, StopsStay DEF IInv
<1> QED BY <1>1, <1>2, <1>3, <1>4, <1>5 DEF IInv

LEMMA RetryStep == ASSUME IInv, NEW s \in Scopes, NEW j \in Jobs, Retry(s, j) PROVE IInv'
<1> USE DEF Retry, runs, jobs
<1>1. TypeOK' BY ScriptAssumption DEF IInv, TypeOK
<1>2. Owned' /\ Paid' /\ Ended'
  <2>1. stage[j] = "done" BY DEF Active, JobsOf
  <2>2. Owned' BY DEF IInv, Owned
  <2>3. Paid'
    <3>1. \A i \in Jobs : Pending(i)' = Pending(i) BY DEF Pending
    <3> QED BY <2>1, <3>1 DEF IInv, TypeOK, Paid
  <2>4. Ended' BY DEF IInv, TypeOK, Ended, Active, JobsOf
  <2> QED BY <2>2, <2>3, <2>4
<1>3. QueueOK' /\ Waiting' BY QueueStays DEF IInv, TypeOK, Pending
<1>4. Counted' BY SlotsFewer DEF IInv
<1>5. Stops'
  <2>1. \A t \in Scopes : Stopped(t) => Stopped(t)' BY DEF IInv, TypeOK, Stopped, Closed
  <2> QED BY <2>1, CallsStay DEF IInv, TypeOK
<1> QED BY <1>1, <1>2, <1>3, <1>4, <1>5 DEF IInv

LEMMA RetryFailsStep == ASSUME IInv, NEW s \in Scopes, NEW j \in Jobs, RetryFails(s, j) PROVE IInv'
<1> USE DEF RetryFails, runs, jobs
<1>1. TypeOK' BY ScriptAssumption DEF IInv, TypeOK
<1>2. Owned' /\ Paid' /\ Ended'
  <2>1. Owned' BY DEF IInv, TypeOK, Owned
  <2>2. Paid' BY DEF IInv, TypeOK, Paid, Pending
  <2>3. Ended' BY DEF IInv, TypeOK, Ended, Active, JobsOf
  <2> QED BY <2>1, <2>2, <2>3
<1>3. QueueOK' /\ Waiting' BY QueueStays DEF IInv, TypeOK, Pending
<1>4. Counted' BY SlotsFewer DEF IInv
<1>5. Stops'
  <2>1. \A t \in Scopes : Stopped(t) => Stopped(t)' BY DEF IInv, TypeOK, Stopped, Closed
  <2> QED BY <2>1, CallsStay DEF IInv, TypeOK
<1> QED BY <1>1, <1>2, <1>3, <1>4, <1>5 DEF IInv

LEMMA CloseEndsStep == ASSUME IInv, NEW s \in Scopes, CloseEnds(s) PROVE IInv'
<1> USE DEF CloseEnds, runs, jobs
<1>1. TypeOK' BY ScriptAssumption DEF IInv, TypeOK
<1>2. Owned' /\ Paid' /\ Ended'
  <2>1. Owned' BY DEF IInv, TypeOK, Owned
  <2>2. Paid' BY DEF IInv, TypeOK, Paid, Pending
  <2>3. Ended' BY DEF IInv, TypeOK, Ended, Active, JobsOf
  <2> QED BY <2>1, <2>2, <2>3
<1>3. QueueOK' /\ Waiting' BY QueueStays DEF IInv, TypeOK, Pending
<1>4. Counted' BY SlotsFewer DEF IInv
<1>5. Stops'
  <2>1. \A t \in Scopes : Stopped(t) => Stopped(t)' BY DEF IInv, TypeOK, Stopped, Closed
  <2> QED BY <2>1, CallsStay DEF IInv, TypeOK
<1> QED BY <1>1, <1>2, <1>3, <1>4, <1>5 DEF IInv

-----------------------------------------------------------------------------
(* The task of a job                                                        *)

LEMMA BeginStep == ASSUME IInv, NEW j \in Jobs, Begin(j) PROVE IInv'
<1> USE DEF Begin, runs, jobs
<1>1. TypeOK' BY ScriptAssumption DEF IInv, TypeOK
<1>2. Owned' /\ Paid' /\ Ended'
  <2>1. Owned' BY DEF IInv, TypeOK, Owned
  <2>2. Paid' BY DEF IInv, TypeOK, Paid, Pending
  <2>3. Ended' BY DEF IInv, TypeOK, Ended, Active, JobsOf
  <2> QED BY <2>1, <2>2, <2>3
<1>3. QueueOK' /\ Waiting' BY QueueStays DEF IInv, TypeOK, Pending
<1>4. Counted' BY SlotsFewer DEF IInv
<1>5. Stops'
  <2>1. \A t \in Scopes : Stopped(t) => Stopped(t)' BY DEF IInv, TypeOK, Stopped, Closed
  <2> QED BY <2>1, CallsStay DEF IInv, TypeOK
<1> QED BY <1>1, <1>2, <1>3, <1>4, <1>5 DEF IInv

LEMMA SpawnedStep == ASSUME IInv, NEW j \in Jobs, Spawned(j) PROVE IInv'
<1> USE DEF Spawned, runs, jobs, CleanUp
<1>1. TypeOK' BY ScriptAssumption DEF IInv, TypeOK
<1>2. Owned' /\ Paid' /\ Ended'
  <2>1. Owned' BY DEF IInv, TypeOK, Owned
  <2>2. Paid' BY DEF IInv, TypeOK, Paid, Pending
  <2>3. Ended' BY DEF IInv, TypeOK, Ended, Active, JobsOf
  <2> QED BY <2>1, <2>2, <2>3
<1>3. QueueOK' /\ Waiting' BY QueueStays DEF IInv, TypeOK, Pending
<1>4. Counted' BY SlotsFewer DEF IInv
<1>5. Stops'
  <2>1. \A t \in Scopes : Stopped(t) => Stopped(t)' BY DEF IInv, TypeOK, Stopped, Closed
  <2> QED BY <2>1, CallsStay DEF IInv, TypeOK
<1> QED BY <1>1, <1>2, <1>3, <1>4, <1>5 DEF IInv

LEMMA SpawnFailsStep == ASSUME IInv, NEW j \in Jobs, SpawnFails(j) PROVE IInv'
<1> USE DEF SpawnFails, runs, jobs, CleanUp
<1>1. TypeOK' BY ScriptAssumption DEF IInv, TypeOK
<1>2. Owned' /\ Paid' /\ Ended'
  <2>1. Owned' BY DEF IInv, TypeOK, Owned
  <2>2. Paid' BY DEF IInv, TypeOK, Paid, Pending
  <2>3. Ended' BY DEF IInv, TypeOK, Ended, Active, JobsOf
  <2> QED BY <2>1, <2>2, <2>3
<1>3. QueueOK' /\ Waiting' BY QueueStays DEF IInv, TypeOK, Pending
<1>4. Counted' BY SlotsFewer DEF IInv
<1>5. Stops'
  <2>1. \A t \in Scopes : Stopped(t) => Stopped(t)' BY DEF IInv, TypeOK, Stopped, Closed
  <2> QED BY <2>1, CallsStay DEF IInv, TypeOK
<1> QED BY <1>1, <1>2, <1>3, <1>4, <1>5 DEF IInv

LEMMA ReceivedStep == ASSUME IInv, NEW j \in Jobs, Received(j) PROVE IInv'
<1> USE DEF Received, runs, jobs, CleanUp
<1>1. TypeOK' BY ScriptAssumption DEF IInv, TypeOK
<1>2. Owned' /\ Paid' /\ Ended'
  <2>1. Owned' BY DEF IInv, TypeOK, Owned
  <2>2. Paid' BY DEF IInv, TypeOK, Paid, Pending
  <2>3. Ended' BY DEF IInv, TypeOK, Ended, Active, JobsOf
  <2> QED BY <2>1, <2>2, <2>3
<1>3. QueueOK' /\ Waiting' BY QueueStays DEF IInv, TypeOK, Pending
<1>4. Counted' BY SlotsFewer DEF IInv
<1>5. Stops'
  <2>1. \A t \in Scopes : Stopped(t) => Stopped(t)' BY DEF IInv, TypeOK, Stopped, Closed
  <2> QED BY <2>1, CallsStay DEF IInv, TypeOK
<1> QED BY <1>1, <1>2, <1>3, <1>4, <1>5 DEF IInv

LEMMA ExchangedStep == ASSUME IInv, NEW j \in Jobs, Exchanged(j) PROVE IInv'
<1> USE DEF Exchanged, runs, jobs, CleanUp, Fail
<1>1. TypeOK'
  <2>1. owner[j] \in Scopes BY DEF IInv, TypeOK, Owned
  <2>2. Active(owner[j]) \subseteq {i \in Jobs : stage[i] \notin {"none", "done"}}
    BY <2>1, ScriptAssumption DEF IInv, Owned, Active, JobsOf
  <2>3. fatal' \in [Scopes -> {"none", "run", "host"}] BY <2>1 DEF IInv, TypeOK
  <2>4. stage' = [stage EXCEPT ![j] = "cleanup"] /\ process' \in [Jobs -> {"none", "alive", "dead"}]
    BY DEF IInv, TypeOK
  <2>5. cancelled' \subseteq {i \in Jobs : stage'[i] \notin {"none", "done"}}
    BY <2>2, <2>4 DEF IInv, TypeOK
  <2> QED BY <2>3, <2>4, <2>5 DEF IInv, TypeOK
<1>2. Owned' /\ Paid' /\ Ended'
  <2>1. Owned' BY DEF IInv, TypeOK, Owned
  <2>2. Paid' BY DEF IInv, TypeOK, Paid, Pending
  <2>3. Ended' BY DEF IInv, TypeOK, Ended, Active, JobsOf
  <2> QED BY <2>1, <2>2, <2>3
<1>3. QueueOK' /\ Waiting' BY QueueStays DEF IInv, TypeOK, Pending
<1>4. Counted' BY SlotsFewer DEF IInv
<1>5. Stops'
  <2>1. \A t \in Scopes : Stopped(t) => Stopped(t)' BY DEF IInv, TypeOK, Stopped, Closed
  <2> QED BY <2>1, CallsStay DEF IInv, TypeOK
<1> QED BY <1>1, <1>2, <1>3, <1>4, <1>5 DEF IInv

LEMMA CleanedUpStep == ASSUME IInv, NEW j \in Jobs, CleanedUp(j) PROVE IInv'
<1> USE DEF CleanedUp, runs, jobs
<1>1. TypeOK' BY ScriptAssumption DEF IInv, TypeOK
<1>2. Owned' /\ Paid' /\ Ended'
  <2>1. Owned' BY DEF IInv, TypeOK, Owned
  <2>2. Paid' BY DEF IInv, TypeOK, Paid, Pending
  <2>3. Ended' BY DEF IInv, TypeOK, Ended, Active, JobsOf
  <2> QED BY <2>1, <2>2, <2>3
<1>3. QueueOK' /\ Waiting'
  <2>1. \A i \in Jobs : Pending(i) \subseteq Pending(i)' BY DEF IInv, TypeOK, Pending
  <2> QED BY <2>1, QueueStays DEF IInv
<1>4. Counted' BY SlotsFewer DEF IInv
<1>5. Stops'
  <2>1. \A t \in Scopes : Stopped(t) => Stopped(t)' BY DEF IInv, TypeOK, Stopped, Closed
  <2>2. ASSUME NEW i \in Jobs, NEW c \in Calls, call'[i][c] \in {"admitted", "running"}
        PROVE  call'[i][c] = call[i][c] /\ owner[i] \in Scopes
    <3>1. call'[i][c] = call[i][c] BY <2>2 DEF IInv, TypeOK
    <3> QED BY <2>2, <3>1, PendingOwned DEF Pending
  <2>3. Calm BY <2>1, <2>2 DEF Calm, Writes
  <2> QED BY <2>3, StopsStay DEF IInv
<1> QED BY <1>1, <1>2, <1>3, <1>4, <1>5 DEF IInv

LEMMA CleanUpFailsStep == ASSUME IInv, NEW j \in Jobs, CleanUpFails(j) PROVE IInv'
<1> USE DEF CleanUpFails, runs, jobs, Fail
<1>1. TypeOK'
  <2>1. owner[j] \in Scopes BY DEF IInv, TypeOK, Owned
  <2>2. Active(owner[j]) \subseteq {i \in Jobs : stage[i] \notin {"none", "done"}}
    BY <2>1, ScriptAssumption DEF IInv, Owned, Active, JobsOf
  <2>3. fatal' \in [Scopes -> {"none", "run", "host"}] BY <2>1 DEF IInv, TypeOK
  <2>4. /\ process' \in [Jobs -> {"none", "alive", "dead"}] /\ slots' \subseteq Jobs
        /\ call' \in [Jobs -> [Calls -> {"none", "queued", "admitted", "running", "raised"}]]
    BY DEF IInv, TypeOK
  <2>5. cancelled' \subseteq {i \in Jobs : stage'[i] \notin {"none", "done"}}
    <3>1. CASE j \in cancelled BY <3>1 DEF IInv, TypeOK
    <3>2. CASE j \notin cancelled
      <4>1. \A i \in cancelled : stage'[i] \notin {"none", "done"} BY <3>2 DEF IInv, TypeOK
      <4>2. \A i \in Active(owner[j]) \ {j} : stage'[i] \notin {"none", "done"} BY <2>2, <3>2 DEF IInv, TypeOK
      <4>3. \A i \in cancelled' : i \in Jobs /\ (i \in cancelled \/ i \in Active(owner[j]) \ {j})
        BY <2>2, <3>2 DEF IInv, TypeOK
      <4> QED BY <4>1, <4>2, <4>3
    <3> QED BY <3>1, <3>2
  <2>6. stage' \in [Jobs -> {"none", "created", "spawning", "exchange", "cleanup", "recording", "done"}]
    BY DEF IInv, TypeOK
  <2> QED BY <2>3, <2>4, <2>5, <2>6 DEF IInv, TypeOK
<1>2. Owned' /\ Paid' /\ Ended'
  <2>1. Owned' BY DEF IInv, TypeOK, Owned
  <2>2. Paid' BY DEF IInv, TypeOK, Paid, Pending
  <2>3. Ended' BY DEF IInv, TypeOK, Ended, Active, JobsOf
  <2> QED BY <2>1, <2>2, <2>3
<1>3. QueueOK' /\ Waiting'
  <2>1. \A i \in Jobs : Pending(i) \subseteq Pending(i)' BY DEF IInv, TypeOK, Pending
  <2> QED BY <2>1, QueueStays DEF IInv
<1>4. Counted' BY SlotsFewer DEF IInv
<1>5. Stops'
  <2>1. \A t \in Scopes : Stopped(t) => Stopped(t)' BY DEF IInv, TypeOK, Stopped, Closed
  <2>2. ASSUME NEW i \in Jobs, NEW c \in Calls, call'[i][c] \in {"admitted", "running"}
        PROVE  call'[i][c] = call[i][c] /\ owner[i] \in Scopes
    <3>1. call'[i][c] = call[i][c] BY <2>2 DEF IInv, TypeOK
    <3> QED BY <2>2, <3>1, PendingOwned DEF Pending
  <2>3. Calm BY <2>1, <2>2 DEF Calm, Writes
  <2> QED BY <2>3, StopsStay DEF IInv
<1> QED BY <1>1, <1>2, <1>3, <1>4, <1>5 DEF IInv

LEMMA RecordedStep == ASSUME IInv, NEW j \in Jobs, Recorded(j) PROVE IInv'
<1> USE DEF Recorded, runs, jobs
<1>1. TypeOK' BY ScriptAssumption DEF IInv, TypeOK
<1>2. Owned' /\ Paid' /\ Ended'
  <2>1. Owned' BY DEF IInv, TypeOK, Owned
  <2>2. Paid' BY DEF IInv, TypeOK, Paid, Pending
  <2>3. Ended' BY DEF IInv, TypeOK, Ended, Active, JobsOf
  <2> QED BY <2>1, <2>2, <2>3
<1>3. QueueOK' /\ Waiting' BY QueueStays DEF IInv, TypeOK, Pending
<1>4. Counted' BY SlotsFewer DEF IInv
<1>5. Stops'
  <2>1. \A t \in Scopes : Stopped(t) => Stopped(t)' BY DEF IInv, TypeOK, Stopped, Closed
  <2> QED BY <2>1, CallsStay DEF IInv, TypeOK
<1> QED BY <1>1, <1>2, <1>3, <1>4, <1>5 DEF IInv

LEMMA RecordFailsStep == ASSUME IInv, NEW j \in Jobs, RecordFails(j) PROVE IInv'
<1> USE DEF RecordFails, runs, jobs, Fail
<1>1. TypeOK' BY ScriptAssumption DEF IInv, TypeOK, Owned, Active, JobsOf
<1>2. Owned' /\ Paid' /\ Ended'
  <2>1. Owned' BY DEF IInv, TypeOK, Owned
  <2>2. Paid' BY DEF IInv, TypeOK, Paid, Pending
  <2>3. Ended' BY DEF IInv, TypeOK, Ended, Active, JobsOf
  <2> QED BY <2>1, <2>2, <2>3
<1>3. QueueOK' /\ Waiting' BY QueueStays DEF IInv, TypeOK, Pending
<1>4. Counted' BY SlotsFewer DEF IInv
<1>5. Stops'
  <2>1. \A t \in Scopes : Stopped(t) => Stopped(t)' BY DEF IInv, TypeOK, Stopped, Closed
  <2> QED BY <2>1, CallsStay DEF IInv, TypeOK
<1> QED BY <1>1, <1>2, <1>3, <1>4, <1>5 DEF IInv

-----------------------------------------------------------------------------
(* A nested call                                                            *)

LEMMA RequestStep == ASSUME IInv, NEW j \in Jobs, NEW c \in Calls, Request(j, c) PROVE IInv'
<1> USE DEF Request, runs, jobs
<1>1. TypeOK' BY ScriptAssumption DEF IInv, TypeOK
<1>2. Owned' /\ Paid' /\ Ended'
  <2>1. Owned' BY DEF IInv, TypeOK, Owned
  <2>2. Paid' BY DEF IInv, TypeOK, Paid, Pending
  <2>3. Ended' BY DEF IInv, TypeOK, Ended, Active, JobsOf
  <2> QED BY <2>1, <2>2, <2>3
<1>3. QueueOK' /\ Waiting'
  <2>1. Pending(j)' = Pending(j) \cup {c} /\ c \notin Pending(j) /\ \A i \in Jobs \ {j} : Pending(i)' = Pending(i)
    BY DEF IInv, TypeOK, Pending
  <2>2. CASE UNCHANGED queue BY <2>1, <2>2, QueueStays DEF IInv
  <2>3. CASE queue' = Append(queue, <<j, c>>)
    <3>1. ~Contains(queue, <<j, c>>) BY <2>1 DEF IInv, Waiting
    <3>2. /\ queue' \in Seq(Scopes \cup (Jobs \X Calls)) /\ IsInjective(queue')
          /\ \A x : Contains(queue', x) <=> Contains(queue, x) \/ x = <<j, c>>
      BY <2>3, <3>1, Appended, SMTT(30) DEF IInv, QueueOK
    <3>3. <<j, c>> \notin Scopes BY ScriptAssumption
    <3>4. QueueOK' BY <3>2, <3>3 DEF IInv, QueueOK
    <3>5. Waiting' BY <2>1, <3>2 DEF IInv, Waiting
    <3> QED BY <3>4, <3>5
  <2> QED BY <2>2, <2>3
<1>4. Counted' BY SlotsFewer DEF IInv
<1>5. Stops'
  <2>1. \A t \in Scopes : Stopped(t) => Stopped(t)' BY DEF Stopped, Closed
  <2>2. ASSUME NEW i \in Jobs, NEW d \in Calls, call'[i][d] \in {"admitted", "running"}
        PROVE  /\ call'[i][d] = call[i][d] /\ owner[i] \in Scopes
               /\ Writes(i, d)' <=> Writes(i, d)
               /\ Writes(i, d) => Head(queue') = Head(queue)
    <3>1. call'[i][d] = call[i][d] /\ <<i, d>> # <<j, c>> BY <2>2 DEF IInv, TypeOK
    <3>2. owner[i] \in Scopes BY <2>2, <3>1, PendingOwned DEF Pending
    <3>3. Writes(i, d) => queue # <<>> BY DEF Writes, Contains
    <3>4. CASE queue' = queue BY <3>1, <3>2, <3>4 DEF Writes
    <3>5. CASE queue' = Append(queue, <<j, c>>)
      <4>1. ~Contains(queue, <<j, c>>) BY DEF IInv, TypeOK, Waiting, Pending
      <4>2. /\ Contains(queue', <<i, d>>) <=> Contains(queue, <<i, d>>)
            /\ queue # <<>> => Head(queue') = Head(queue)
        BY <3>1, <3>5, <4>1, Appended, SMTT(30) DEF IInv, QueueOK
      <4> QED BY <3>1, <3>2, <3>3, <4>2 DEF Writes
    <3> QED BY <3>4, <3>5
  <2>3. Calm BY <2>1, <2>2 DEF Calm
  <2> QED BY <2>3, StopsStay DEF IInv
<1> QED BY <1>1, <1>2, <1>3, <1>4, <1>5 DEF IInv

\* A call that is admitted holds the lock, or takes a free turn, in a scope that goes on.
LEMMA AdmittedStops ==
    ASSUME IInv, NEW j \in Jobs, NEW c \in Calls, Turn(j, c), Check(owner[j]) = "ok",
           call' = [call EXCEPT ![j][c] = "admitted"], UNCHANGED <<root, fatal, owner, queue, late>>
    PROVE  Stops'
<1>1. /\ call'[j][c] = "admitted"
      /\ \A i \in Jobs, d \in Calls : <<i, d>> # <<j, c>> => call'[i][d] = call[i][d]
  BY DEF IInv, TypeOK
<1>2. owner[j] \in Scopes /\ call[j][c] = "queued" BY PendingOwned DEF Turn, Pending
<1>3. ~Stopped(owner[j])
  BY <1>2 DEF Check, Stopped, IInv, TypeOK
<1>4. Granted' BY <1>1 DEF IInv, Stops, Granted, Turn, Writes
<1>5. ReadsOK'
  <2> SUFFICES ASSUME NEW s \in Scopes
               PROVE  IsFiniteSet(Reading(s)') /\ Cardinality(Reading(s)') <= ParallelReads
    BY DEF ReadsOK
  <2>1. IsFiniteSet(Reading(s)) /\ Cardinality(Reading(s)) <= ParallelReads BY DEF IInv, Stops, ReadsOK
  <2>2. CASE owner[j] # s \/ Writes(j, c)
    <3>1. Reading(s)' \subseteq Reading(s) BY <1>1, <2>2 DEF Reading, JobsOf, Writes
    <3> QED BY <2>1, <3>1, FewerThan, ScriptAssumption
  <2>3. CASE owner[j] = s /\ ~Writes(j, c)
    <3>1. Reading(s)' \subseteq Reading(s) \cup {<<j, c>>} BY <1>1 DEF Reading, JobsOf, Writes
    <3>2. Cardinality(Reading(s)) < ParallelReads BY <2>3 DEF Turn
    <3>3. Cardinality(Reading(s)) \in Nat BY <2>1, FS_CardinalityType
    <3>4. /\ IsFiniteSet(Reading(s) \cup {<<j, c>>})
          /\ \/ Cardinality(Reading(s) \cup {<<j, c>>}) = Cardinality(Reading(s))
             \/ Cardinality(Reading(s) \cup {<<j, c>>}) = Cardinality(Reading(s)) + 1
      BY <2>1, FS_AddElement
    <3>5. Cardinality(Reading(s) \cup {<<j, c>>}) <= ParallelReads
      BY <3>2, <3>3, <3>4, ScriptAssumption
    <3> QED BY <3>1, <3>4, <3>5, FewerThan, ScriptAssumption
  <2> QED BY <2>2, <2>3
<1>6. LateOwned' BY DEF IInv, Stops, LateOwned
<1>7. LateOK'
  <2> SUFFICES ASSUME NEW s \in Scopes
               PROVE  IF Stopped(s)' THEN /\ \A p, q \in Writers(s)' : p = q
                                          /\ IsFiniteSet(Readers(s)') /\ Cardinality(Readers(s)') <= ParallelReads
                                     ELSE Late(s, "write")' = {} /\ Late(s, "read")' = {}
    BY DEF LateOK
  <2>1. /\ Stopped(s)' <=> Stopped(s)
        /\ Late(s, "write")' = Late(s, "write") /\ Late(s, "read")' = Late(s, "read")
    BY DEF Stopped, Closed, Late
  <2>2. CASE ~Stopped(s) BY <2>1, <2>2 DEF IInv, Stops, LateOK
  <2>3. CASE Stopped(s)
    <3>1. owner[j] # s BY <1>3, <2>3
    <3>2. \A p \in Admitted(s)' : p \in Admitted(s) /\ (Writes(p[1], p[2])' <=> Writes(p[1], p[2]))
      BY <1>1, <3>1 DEF Admitted, JobsOf, Writes
    <3>3. Writers(s)' \subseteq Writers(s) /\ Readers(s)' \subseteq Readers(s)
      BY <2>1, <3>2 DEF Writers, Readers
    <3>4. /\ \A p, q \in Writers(s) : p = q
          /\ IsFiniteSet(Readers(s)) /\ Cardinality(Readers(s)) <= ParallelReads
      BY <2>3 DEF IInv, Stops, LateOK
    <3> QED BY <2>1, <2>3, <3>3, <3>4, FewerThan, ScriptAssumption
  <2> QED BY <2>2, <2>3
<1> QED BY <1>4, <1>5, <1>6, <1>7 DEF Stops

LEMMA AdmitStep == ASSUME IInv, NEW j \in Jobs, NEW c \in Calls, Admit(j, c) PROVE IInv'
<1> USE DEF Admit, runs, jobs, Turn, EndCall
<1>1. TypeOK'
  <2>1. PICK how \in {"admitted", "raised"} : call' = [call EXCEPT ![j][c] = how] OBVIOUS
  <2>2. call' \in [Jobs -> [Calls -> {"none", "queued", "admitted", "running", "raised"}]] BY <2>1 DEF IInv, TypeOK
  <2> QED BY <2>2 DEF IInv, TypeOK
<1>2. Owned' /\ Paid' /\ Ended'
  <2>1. Owned' BY DEF IInv, TypeOK, Owned
  <2>2. Paid' BY DEF IInv, TypeOK, Paid, Pending
  <2>3. Ended' BY DEF IInv, TypeOK, Ended, Active, JobsOf
  <2> QED BY <2>1, <2>2, <2>3
<1>3. QueueOK' /\ Waiting'
  <2>1. CASE UNCHANGED queue /\ call' = [call EXCEPT ![j][c] = "admitted"]
    <3>1. \A i \in Jobs : Pending(i) \subseteq Pending(i)' BY <2>1 DEF IInv, TypeOK, Pending
    <3> QED BY <2>1, <3>1, QueueStays DEF IInv
  <2>2. CASE EndCall(j, c, "raised")
    <3>1. \A i \in Jobs, d \in Calls : <<i, d>> # <<j, c>> => call'[i][d] = call[i][d]
      BY <2>2 DEF IInv, TypeOK
    <3> QED BY <2>2, <3>1, CallLeaves DEF IInv
  <2> QED BY <2>1, <2>2
<1>4. Counted' BY SlotsFewer DEF IInv
<1>5. Stops'
  <2>1. CASE /\ Check(owner[j]) = "ok" /\ UNCHANGED queue
             /\ call' = [call EXCEPT ![j][c] = "admitted"]
    BY <2>1, AdmittedStops
  <2>2. CASE EndCall(j, c, "raised")
    <3>1. /\ \A i \in Jobs, d \in Calls : <<i, d>> # <<j, c>> => call'[i][d] = call[i][d]
          /\ call'[j][c] \notin {"admitted", "running"}
      BY <2>2 DEF IInv, TypeOK
    <3> QED BY <2>2, <3>1, CallLeavesStops DEF IInv
  <2> QED BY <2>1, <2>2
<1> QED BY <1>1, <1>2, <1>3, <1>4, <1>5 DEF IInv

LEMMA EnterStep == ASSUME IInv, NEW j \in Jobs, NEW c \in Calls, Enter(j, c) PROVE IInv'
<1> USE DEF Enter, runs, jobs
<1>0. /\ call'[j][c] = "running" /\ call[j][c] = "admitted"
      /\ \A i \in Jobs, d \in Calls : <<i, d>> # <<j, c>> => call'[i][d] = call[i][d]
  BY DEF IInv, TypeOK
<1>1. TypeOK'
  <2>1. late' \in [{"read", "write"} -> SUBSET (Jobs \X Calls)] BY DEF IInv, TypeOK
  <2>2. call' \in [Jobs -> [Calls -> {"none", "queued", "admitted", "running", "raised"}]] BY DEF IInv, TypeOK
  <2> QED BY <2>1, <2>2 DEF IInv, TypeOK
<1>2. Owned' /\ Paid' /\ Ended'
  <2>1. Owned' BY DEF IInv, TypeOK, Owned
  <2>2. Paid' BY DEF IInv, TypeOK, Paid, Pending
  <2>3. Ended' BY DEF IInv, TypeOK, Ended, Active, JobsOf
  <2> QED BY <2>1, <2>2, <2>3
<1>3. QueueOK' /\ Waiting'
  <2>1. \A i \in Jobs : Pending(i) \subseteq Pending(i)' BY DEF IInv, TypeOK, Pending
  <2> QED BY <2>1, QueueStays DEF IInv
<1>4. Counted' BY SlotsFewer DEF IInv
<1>5. Stops'
  <2>1. owner[j] \in Scopes BY <1>0, PendingOwned DEF Pending
  <2>2. Granted' BY <1>0 DEF IInv, Stops, Granted, Writes
  <2>3. ReadsOK'
    <3>1. \A s \in Scopes : Reading(s)' = Reading(s) BY <1>0 DEF Reading, JobsOf, Writes
    <3> QED BY <3>1 DEF IInv, Stops, ReadsOK
  <2>4. LateOwned' BY <2>1 DEF IInv, TypeOK, Stops, LateOwned
  <2>5. LateOK'
    <3> SUFFICES ASSUME NEW s \in Scopes
                 PROVE  IF Stopped(s)' THEN /\ \A p, q \in Writers(s)' : p = q
                                            /\ IsFiniteSet(Readers(s)') /\ Cardinality(Readers(s)') <= ParallelReads
                                       ELSE Late(s, "write")' = {} /\ Late(s, "read")' = {}
      BY DEF LateOK
    <3>1. Stopped(s)' <=> Stopped(s) BY DEF Stopped, Closed
    <3>2. CASE ~Stopped(s)
      <4>1. Late(s, "write")' = Late(s, "write") /\ Late(s, "read")' = Late(s, "read")
        BY <3>2 DEF IInv, TypeOK, Late
      <4> QED BY <3>1, <3>2, <4>1 DEF IInv, Stops, LateOK
    <3>3. CASE Stopped(s)
      <4>0. /\ \A p \in Admitted(s)' : p \in Admitted(s) /\ (Writes(p[1], p[2])' <=> Writes(p[1], p[2]))
            /\ owner[j] = s => <<j, c>> \in Admitted(s)
        BY <1>0 DEF Admitted, JobsOf, Writes
      <4>5. /\ late'["write"] \subseteq late["write"] \cup (IF Writes(j, c) THEN {<<j, c>>} ELSE {})
            /\ late'["read"] \subseteq late["read"] \cup (IF Writes(j, c) THEN {} ELSE {<<j, c>>})
        BY DEF IInv, TypeOK
      <4>1. Writers(s)' \subseteq Writers(s)
        <5>1. Late(s, "write")' \subseteq Writers(s) BY <4>0, <4>5 DEF Late, Writers
        <5>2. \A p \in Writers(s)' : p \in Writers(s) BY <4>0, <5>1 DEF Writers
        <5> QED BY <5>2
      <4>2. Readers(s)' \subseteq Readers(s)
        <5>1. Late(s, "read")' \subseteq Readers(s) BY <4>0, <4>5 DEF Late, Readers
        <5>2. \A p \in Readers(s)' : p \in Readers(s) BY <4>0, <5>1 DEF Readers
        <5> QED BY <5>2
      <4>3. /\ \A p, q \in Writers(s) : p = q
            /\ IsFiniteSet(Readers(s)) /\ Cardinality(Readers(s)) <= ParallelReads
        BY <3>3 DEF IInv, Stops, LateOK
      <4> QED BY <3>1, <3>3, <4>1, <4>2, <4>3, FewerThan, ScriptAssumption
    <3> QED BY <3>2, <3>3
  <2> QED BY <2>2, <2>3, <2>4, <2>5 DEF Stops
<1> QED BY <1>1, <1>2, <1>3, <1>4, <1>5 DEF IInv

LEMMA ReturnStep == ASSUME IInv, NEW j \in Jobs, NEW c \in Calls, Return(j, c) PROVE IInv'
<1> USE DEF Return, runs, jobs, EndCall
<1>1. TypeOK' BY ScriptAssumption DEF IInv, TypeOK
<1>2. Owned' /\ Paid' /\ Ended'
  <2>1. Owned' BY DEF IInv, TypeOK, Owned
  <2>2. Paid' BY DEF IInv, TypeOK, Paid, Pending
  <2>3. Ended' BY DEF IInv, TypeOK, Ended, Active, JobsOf
  <2> QED BY <2>1, <2>2, <2>3
<1>3. QueueOK' /\ Waiting'
  <2>1. \A i \in Jobs, d \in Calls : <<i, d>> # <<j, c>> => call'[i][d] = call[i][d]
    BY DEF IInv, TypeOK
  <2> QED BY <2>1, CallLeaves DEF IInv
<1>4. Counted' BY SlotsFewer DEF IInv
<1>5. Stops'
  <2>1. /\ \A i \in Jobs, d \in Calls : <<i, d>> # <<j, c>> => call'[i][d] = call[i][d]
        /\ call'[j][c] \notin {"admitted", "running"}
    BY DEF IInv, TypeOK
  <2> QED BY <2>1, CallLeavesStops DEF IInv
<1> QED BY <1>1, <1>2, <1>3, <1>4, <1>5 DEF IInv

LEMMA DropStep == ASSUME IInv, NEW j \in Jobs, NEW c \in Calls, Drop(j, c) PROVE IInv'
<1> USE DEF Drop, runs, jobs, EndCall
<1>1. TypeOK' BY ScriptAssumption DEF IInv, TypeOK
<1>2. Owned' /\ Paid' /\ Ended'
  <2>1. Owned' BY DEF IInv, TypeOK, Owned
  <2>2. Paid' BY DEF IInv, TypeOK, Paid, Pending
  <2>3. Ended' BY DEF IInv, TypeOK, Ended, Active, JobsOf
  <2> QED BY <2>1, <2>2, <2>3
<1>3. QueueOK' /\ Waiting'
  <2>1. \A i \in Jobs, d \in Calls : <<i, d>> # <<j, c>> => call'[i][d] = call[i][d]
    BY DEF IInv, TypeOK
  <2> QED BY <2>1, CallLeaves DEF IInv
<1>4. Counted' BY SlotsFewer DEF IInv
<1>5. Stops'
  <2>1. /\ \A i \in Jobs, d \in Calls : <<i, d>> # <<j, c>> => call'[i][d] = call[i][d]
        /\ call'[j][c] \notin {"admitted", "running"}
    BY DEF IInv, TypeOK
  <2> QED BY <2>1, CallLeavesStops DEF IInv
<1> QED BY <1>1, <1>2, <1>3, <1>4, <1>5 DEF IInv

-----------------------------------------------------------------------------
(* The theorems                                                             *)

LEMMA InitIInv == Init => IInv
<1> SUFFICES ASSUME Init PROVE IInv OBVIOUS
<1>1. TypeOK BY ScriptAssumption DEF Init, TypeOK
<1>2. QueueOK BY DEF Init, QueueOK, IsInjective, Contains
<1>3. Owned /\ Paid /\ Ended BY DEF Init, Owned, Paid, Ended, Pending
<1>4. Waiting BY DEF Init, Waiting, Contains
<1>5. Counted BY FS_EmptySet, ScriptAssumption DEF Init, Counted
<1>6. Stops
  <2>1. ASSUME NEW s \in Scopes
        PROVE  Reading(s) = {} /\ Late(s, "write") = {} /\ Late(s, "read") = {} /\ ~Stopped(s)
    <3>1. \A j \in Jobs, c \in Calls : call[j][c] = "none" BY DEF Init
    <3>2. Reading(s) = {} BY <3>1 DEF Reading, JobsOf
    <3>3. late["write"] = {} /\ late["read"] = {} BY DEF Init
    <3>4. ~Stopped(s) BY DEF Init, Stopped, Closed
    <3> QED BY <3>2, <3>3, <3>4 DEF Late
  <2>2. ReadsOK BY <2>1, FS_EmptySet, ScriptAssumption DEF ReadsOK
  <2>3. Granted /\ LateOK /\ LateOwned BY <2>1 DEF Init, Granted, LateOK, LateOwned
  <2> QED BY <2>2, <2>3 DEF Stops
<1> QED BY <1>1, <1>2, <1>3, <1>4, <1>5, <1>6 DEF IInv

LEMMA StepIInv == IInv /\ [Next]_vars => IInv'
<1> SUFFICES ASSUME IInv, [Next]_vars PROVE IInv' OBVIOUS
<1>1. CASE UNCHANGED vars
  <2>1. (TypeOK /\ QueueOK /\ Owned /\ Paid /\ Ended /\ Waiting /\ Counted)'
    BY <1>1 DEF vars, runs, jobs, IInv, TypeOK, QueueOK, Owned, Paid, Ended, Waiting, Counted, Pending, Active,
                JobsOf
  <2>2. \A s \in Scopes : Stopped(s) => Stopped(s)' BY <1>1 DEF vars, runs, Stopped, Closed
  <2>3. Stops' BY <1>1, <2>2, CallsStay DEF vars, jobs
  <2> QED BY <2>1, <2>3 DEF IInv
<1>2. ASSUME NEW s \in Scopes, RootStep(s) PROVE IInv'
  BY <1>2, StartJobStep, StopJobStep, SettleStep, CancelSettleStep, WaitedStep, WantWriteStep, WrittenStep,
     CloseStep, RetryStep, RetryFailsStep, CloseEndsStep DEF RootStep
<1>3. ASSUME NEW j \in Jobs, JobStep(j) PROVE IInv'
  BY <1>3, BeginStep, SpawnedStep, SpawnFailsStep, ReceivedStep, ExchangedStep, CleanedUpStep, CleanUpFailsStep,
     RecordedStep, RecordFailsStep DEF JobStep
<1>4. ASSUME NEW j \in Jobs, NEW c \in Calls, CallStep(j, c) PROVE IInv'
  BY <1>4, RequestStep, AdmitStep, EnterStep, ReturnStep, DropStep DEF CallStep
<1> QED BY <1>1, <1>2, <1>3, <1>4 DEF Next, Idle

\* In every reachable state the invariant holds.
LEMMA Invariant == Spec => []IInv
BY InitIInv, StepIInv, PTL DEF Spec

\* The variables have their types; a cancellation is kept only for a task that can receive it.
THEOREM TypeCorrect == Spec => []TypeOK
<1>1. IInv => TypeOK BY DEF IInv
<1> QED BY Invariant, <1>1, PTL

\* Once close() has returned, no job, worker, nested call or slot of the run is left:
\* _run_locked and its finalize may rely on it, however the run ended.
THEOREM ScopeDrained == Spec => []NothingOutlivesRun
<1>1. ASSUME IInv PROVE NothingOutlivesRun
  BY <1>1 DEF IInv, Ended, Paid, NothingOutlivesRun, Active, JobsOf
<1> QED BY Invariant, <1>1, PTL

\* Whatever is alive is paid for by a slot, of which there are no more than max_jobs
\* for all the runs of the runner.
THEOREM SlotsPay == Spec => []SlotsHeld
<1>1. ASSUME IInv PROVE SlotsHeld
  BY <1>1 DEF IInv, Paid, Counted, SlotsHeld
<1> QED BY Invariant, <1>1, PTL

\* A stop reaches every nested call but those that were on their way from _invoke's
\* check under the lock to their tool: one that writes, as it has the lock of the
\* runner, and as many that read as may read at a time.
THEOREM StopsEffects == Spec => []LateEffectsBounded
<1>1. ASSUME IInv PROVE LateEffectsBounded
  <2> SUFFICES ASSUME NEW s \in Scopes
               PROVE  Cardinality(Late(s, "write")) <= 1 /\ Cardinality(Late(s, "read")) <= ParallelReads
    BY DEF LateEffectsBounded
  <2>1. CASE ~Stopped(s) BY <1>1, <2>1, FS_EmptySet, ScriptAssumption DEF IInv, Stops, LateOK
  <2>2. CASE Stopped(s)
    <3>1. /\ \A p, q \in Late(s, "write") : p = q
          /\ IsFiniteSet(Readers(s)) /\ Cardinality(Readers(s)) <= ParallelReads
      BY <1>1, <2>2 DEF IInv, Stops, LateOK, Writers
    <3>2. Cardinality(Late(s, "write")) <= 1
      <4>1. CASE Late(s, "write") = {} BY <4>1, FS_EmptySet
      <4>2. CASE Late(s, "write") # {}
        <5>1. PICK p : Late(s, "write") = {p} BY <3>1, <4>2
        <5> QED BY <5>1, FS_Singleton
      <4> QED BY <4>1, <4>2
    <3>3. Late(s, "read") \subseteq Readers(s) BY DEF Readers
    <3> QED BY <3>1, <3>2, <3>3, FewerThan, ScriptAssumption
  <2> QED BY <2>1, <2>2
<1> QED BY Invariant, <1>1, PTL
=============================================================================
