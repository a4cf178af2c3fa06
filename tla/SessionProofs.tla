--------------------------- MODULE SessionProofs ---------------------------
(***************************************************************************)
(* What is kept of a session and what is sent of it, for all limits.  The   *)
(* events table of EventBus is a gapless range of what was emitted, the     *)
(* trace keeps the end of what was written, and observers are told of what  *)
(* is stored.  A request of ContextCompaction carries every message of the  *)
(* session once, the evidence of its artifacts is that of the whole         *)
(* conversation, and its compactions hold their targets.                    *)
(***************************************************************************)
EXTENDS EventBus, ContextCompaction, FiniteSetTheorems, SequenceTheorems, WellFoundedInduction, TLAPS

-----------------------------------------------------------------------------
(* Sequences without some of their elements                                 *)

LEMMA LeastNatural ==
    ASSUME NEW T \in SUBSET Nat, T # {}
    PROVE  \E n \in T : \A m \in T : ~(m < n)
<1> DEFINE F == {0 .. n : n \in T}
<1>1. F \subseteq FiniteSubsetsOf(Nat)
  <2> SUFFICES ASSUME NEW n \in T PROVE 0 .. n \in FiniteSubsetsOf(Nat) OBVIOUS
  <2>1. IsFiniteSet(0 .. n) BY FS_Interval
  <2> QED BY <2>1 DEF FiniteSubsetsOf
<1>2. F # {} OBVIOUS
<1>3. \E x \in F : \A y \in F : <<y, x>> \notin StrictSubsetOrdering(Nat)
  <2>1. IsWellFoundedOn(StrictSubsetOrdering(Nat), FiniteSubsetsOf(Nat))
    BY FS_StrictSubsetOrderingWellFounded
  <2> HIDE DEF F
  <2> QED BY <1>1, <1>2, <2>1, WFMin
<1>4. PICK n \in T : \A y \in F : <<y, 0 .. n>> \notin StrictSubsetOrdering(Nat) BY <1>3
<1>5. ASSUME NEW m \in T, m < n PROVE FALSE
  <2>1. 0 .. m \in F OBVIOUS
  <2>2. 0 .. m \subseteq 0 .. n /\ n \notin 0 .. m /\ n \in 0 .. n BY <1>5
  <2>3. 0 .. m \in SUBSET Nat /\ 0 .. n \in SUBSET Nat OBVIOUS
  <2>4. 0 .. m # 0 .. n BY <2>2
  <2>5. <<0 .. m, 0 .. n>> \in StrictSubsetOrdering(Nat)
    BY <2>2, <2>3, <2>4 DEF StrictSubsetOrdering
  <2> QED BY <1>4, <2>1, <2>5
<1> QED BY <1>4, <1>5

\* What is kept of the first i elements of s.
Keeps(g, s, S) ==
    /\ g[0] = <<>>
    /\ \A i \in 1 .. Len(s) : g[i] = IF s[i] \in S THEN g[i - 1] ELSE Append(g[i - 1], s[i])

LEMMA KeepsUnique ==
    ASSUME NEW T, NEW s \in Seq(T), NEW S, NEW g, NEW h, Keeps(g, s, S), Keeps(h, s, S)
    PROVE  \A i \in 0 .. Len(s) : g[i] = h[i]
<1> DEFINE Bad == {i \in 0 .. Len(s) : g[i] # h[i]}
<1> SUFFICES ASSUME Bad # {} PROVE FALSE OBVIOUS
<1>1. Len(s) \in Nat OBVIOUS
<1>2. Bad \in SUBSET Nat BY <1>1
<1>3. PICK i \in Bad : \A j \in Bad : ~(j < i)
  <2> HIDE DEF Bad
  <2> QED BY <1>2, LeastNatural
<1>4. i # 0 BY DEF Keeps
<1>5. i \in 1 .. Len(s) /\ i - 1 \in 0 .. Len(s) BY <1>1, <1>4
<1>6. i - 1 \notin Bad BY <1>3, <1>5
<1> QED BY <1>5, <1>6 DEF Keeps

LEMMA KeepsExists ==
    ASSUME NEW T, NEW s \in Seq(T), NEW S
    PROVE  \E g : Keeps(g, s, S)
<1> DEFINE Upto(g, n) == /\ g[0] = <<>>
                         /\ \A i \in 1 .. n : g[i] = IF s[i] \in S THEN g[i - 1] ELSE Append(g[i - 1], s[i])
           Bad == {n \in 0 .. Len(s) : ~\E g : Upto(g, n)}
<1>1. Len(s) \in Nat OBVIOUS
<1>2. Bad = {}
  <2> SUFFICES ASSUME Bad # {} PROVE FALSE OBVIOUS
  <2>1. Bad \in SUBSET Nat BY <1>1
  <2>2. PICK n \in Bad : \A j \in Bad : ~(j < n)
    <3> HIDE DEF Bad
    <3> QED BY <2>1, LeastNatural
  <2>3. n # 0
    <3>1. Upto([i \in {0} |-> <<>>], 0) OBVIOUS
    <3> QED BY <3>1
  <2>4. n \in 1 .. Len(s) /\ n - 1 \in 0 .. Len(s) /\ n - 1 < n BY <1>1, <2>3
  <2>5. PICK g : Upto(g, n - 1) BY <2>2, <2>4
  <2> DEFINE h == [i \in 0 .. n |-> IF i < n THEN g[i]
                                    ELSE IF s[n] \in S THEN g[n - 1] ELSE Append(g[n - 1], s[n])]
  <2>6. Upto(h, n)
    <3>1. h[0] = <<>> BY <2>4, <2>5
    <3>2. ASSUME NEW i \in 1 .. n
          PROVE  h[i] = IF s[i] \in S THEN h[i - 1] ELSE Append(h[i - 1], s[i])
      <4>1. h[i - 1] = g[i - 1] BY <2>4
      <4>2. CASE i < n BY <2>4, <2>5, <4>1, <4>2
      <4>3. CASE i = n BY <2>4, <4>1, <4>3
      <4> QED BY <2>4, <4>2, <4>3
    <3> QED BY <3>1, <3>2
  <2> QED BY <2>6
<1>3. Len(s) \notin Bad BY <1>2
<1> QED BY <1>1, <1>3 DEF Keeps

LEMMA WithoutIs ==
    ASSUME NEW T, NEW s \in Seq(T), NEW S, NEW g, Keeps(g, s, S)
    PROVE  Without(s, S) = g[Len(s)]
<1> DEFINE Body(h) == [i \in 0 .. Len(s) |->
                          IF i = 0 THEN <<>> ELSE IF s[i] \in S THEN h[i - 1] ELSE Append(h[i - 1], s[i])]
           kept == CHOOSE h : h = Body(h)
           f == [i \in 0 .. Len(s) |-> g[i]]
<1>1. Without(s, S) = kept[Len(s)] BY DEF Without
<1>2. Len(s) \in Nat OBVIOUS
<1>3. f = Body(f)
  <2>1. \A i \in 0 .. Len(s) :
            f[i] = IF i = 0 THEN <<>> ELSE IF s[i] \in S THEN f[i - 1] ELSE Append(f[i - 1], s[i])
    BY <1>2 DEF Keeps
  <2> QED BY <2>1
<1>4. kept = Body(kept)
  <2> HIDE DEF Body, f
  <2> QED BY <1>3
<1>5. Keeps(kept, s, S)
  <2> HIDE DEF kept
  <2>1. kept[0] = <<>> BY <1>2, <1>4
  <2>2. ASSUME NEW i \in 1 .. Len(s)
        PROVE  kept[i] = IF s[i] \in S THEN kept[i - 1] ELSE Append(kept[i - 1], s[i])
    <3>1. i \in 0 .. Len(s) /\ i # 0 BY <1>2
    <3>2. Body(kept)[i] = IF s[i] \in S THEN kept[i - 1] ELSE Append(kept[i - 1], s[i])
      BY <3>1
    <3> HIDE DEF Body
    <3> QED BY <1>4, <3>2
  <2> QED BY <2>1, <2>2 DEF Keeps
<1> HIDE DEF kept
<1> QED BY <1>1, <1>2, <1>5, KeepsUnique

\* One element more.
LEMMA WithoutAppend ==
    ASSUME NEW T, NEW s \in Seq(T), NEW x \in T, NEW R, NEW S,
           \A i \in 1 .. Len(s) : s[i] \in R <=> s[i] \in S
    PROVE  /\ x \in S => Without(Append(s, x), S) = Without(s, R)
           /\ x \notin S => Without(Append(s, x), S) = Append(Without(s, R), x)
<1> DEFINE r == Append(s, x)
<1>1. r \in Seq(T) /\ Len(r) = Len(s) + 1 /\ r[Len(s) + 1] = x /\ Len(s) \in Nat
      /\ \A i \in 1 .. Len(s) : r[i] = s[i]
  OBVIOUS
<1>2. PICK g : Keeps(g, s, R) BY KeepsExists
<1> DEFINE h == [i \in 0 .. Len(s) + 1 |->
                    IF i <= Len(s) THEN g[i] ELSE IF x \in S THEN g[Len(s)] ELSE Append(g[Len(s)], x)]
<1> HIDE DEF r
<1>3. Keeps(h, r, S)
  <2>1. h[0] = <<>> BY <1>1, <1>2 DEF Keeps
  <2>2. ASSUME NEW i \in 1 .. Len(r)
        PROVE  h[i] = IF r[i] \in S THEN h[i - 1] ELSE Append(h[i - 1], r[i])
    <3>1. h[i - 1] = g[i - 1] BY <1>1
    <3>2. CASE i <= Len(s)
      <4>1. i \in 1 .. Len(s) BY <1>1, <3>2
      <4>2. h[i] = g[i] BY <1>1, <4>1
      <4> QED BY <1>1, <1>2, <3>1, <4>1, <4>2 DEF Keeps
    <3>3. CASE i = Len(s) + 1 BY <1>1, <3>1, <3>3
    <3> QED BY <1>1, <3>2, <3>3
  <2> QED BY <2>1, <2>2 DEF Keeps
<1>4. Without(r, S) = h[Len(s) + 1] BY <1>1, <1>3, WithoutIs
<1>5. Without(s, R) = g[Len(s)] BY <1>2, WithoutIs
<1> QED BY <1>1, <1>4, <1>5 DEF r

\* What follows the first n elements.
LEMMA DropFirst ==
    ASSUME NEW T, NEW s \in Seq(T), NEW n \in 0 .. Len(s), NEW r, r = SubSeq(s, n + 1, Len(s))
    PROVE  r \in Seq(T) /\ Len(r) = Len(s) - n /\ \A k \in 1 .. Len(s) - n : r[k] = s[n + k]
<1>1. Len(s) \in Nat /\ n \in Nat /\ n <= Len(s) OBVIOUS
<1>2. r \in Seq(T) BY <1>1
<1>3. Len(r) = Len(s) - n BY <1>1
<1>4. ASSUME NEW k \in 1 .. Len(s) - n PROVE r[k] = s[n + k] BY <1>1, SMTT(20)
<1> QED BY <1>2, <1>3, <1>4

\* The elements of S come first.
LEMMA WithoutFirst ==
    ASSUME NEW T, NEW s \in Seq(T), NEW S, NEW c \in 0 .. Len(s),
           \A i \in 1 .. Len(s) : s[i] \in S <=> i <= c
    PROVE  Without(s, S) = SubSeq(s, c + 1, Len(s))
<1> DEFINE g == [i \in 0 .. Len(s) |-> SubSeq(s, c + 1, i)]
<1>1. Len(s) \in Nat /\ c \in Nat OBVIOUS
<1>2. Keeps(g, s, S)
  <2>1. g[0] = <<>> BY <1>1
  <2>2. ASSUME NEW i \in 1 .. Len(s)
        PROVE  g[i] = IF s[i] \in S THEN g[i - 1] ELSE Append(g[i - 1], s[i])
    <3>1. g[i] = SubSeq(s, c + 1, i) /\ g[i - 1] = SubSeq(s, c + 1, i - 1) BY <1>1
    <3>2. CASE i <= c
      <4>1. SubSeq(s, c + 1, i) = <<>> /\ SubSeq(s, c + 1, i - 1) = <<>> BY <1>1, <3>2
      <4> QED BY <3>1, <3>2, <4>1
    <3>3. CASE i > c
      <4>1. SubSeq(s, c + 1, i) = Append(SubSeq(s, c + 1, i - 1), s[i])
        <5> DEFINE u == SubSeq(s, c + 1, i)
                   v == Append(SubSeq(s, c + 1, i - 1), s[i])
        <5>1. u \in Seq(T) /\ Len(u) = i - c /\ \A k \in 1 .. i - c : u[k] = s[c + k]
          BY <1>1, <3>3
        <5>2. /\ SubSeq(s, c + 1, i - 1) \in Seq(T) /\ Len(SubSeq(s, c + 1, i - 1)) = i - 1 - c
              /\ \A k \in 1 .. i - 1 - c : SubSeq(s, c + 1, i - 1)[k] = s[c + k]
          BY <1>1, <3>3
        <5>3. v \in Seq(T) /\ Len(v) = i - c BY <1>1, <3>3, <5>2
        <5>4. \A k \in 1 .. i - c : v[k] = s[c + k] BY <1>1, <3>3, <5>2
        <5> HIDE DEF u, v
        <5> QED BY <5>1, <5>3, <5>4, SeqEqual DEF u, v
      <4>2. s[i] \notin S BY <1>1, <3>3
      <4> HIDE DEF g
      <4> QED BY <3>1, <4>1, <4>2
    <3> QED BY <1>1, <3>2, <3>3
  <2> QED BY <2>1, <2>2 DEF Keeps
<1> HIDE DEF g
<1>3. Without(s, S) = g[Len(s)] BY <1>2, WithoutIs
<1> QED BY <1>1, <1>3 DEF g

\* A waiter that leaves: who was first stays first.
LEMMA WithoutHead ==
    ASSUME NEW T, NEW s \in Seq(T), NEW S
    PROVE  /\ Without(s, S) \in Seq(T)
           /\ s # <<>> /\ Head(s) \notin S => Without(s, S) # <<>> /\ Head(Without(s, S)) = Head(s)
           /\ \A j \in 1 .. Len(s) : s[j] \notin S =>
                 \E k \in 1 .. Len(Without(s, S)) : Without(s, S)[k] = s[j]
<1>1. Len(s) \in Nat OBVIOUS
<1>2. PICK g : Keeps(g, s, S) BY KeepsExists
<1> DEFINE Fine(i) == /\ g[i] \in Seq(T)
                      /\ i > 0 /\ s[1] \notin S => g[i] # <<>> /\ Head(g[i]) = s[1]
                      /\ \A j \in 1 .. i : s[j] \notin S => \E k \in 1 .. Len(g[i]) : g[i][k] = s[j]
           Bad == {i \in 0 .. Len(s) : ~Fine(i)}
<1>3. Bad = {}
  <2> SUFFICES ASSUME Bad # {} PROVE FALSE OBVIOUS
  <2>1. Bad \in SUBSET Nat BY <1>1
  <2>2. PICK i \in Bad : \A j \in Bad : ~(j < i)
    <3> HIDE DEF Bad
    <3> QED BY <2>1, LeastNatural
  <2>3. i # 0
    <3>1. g[0] = <<>> /\ <<>> \in Seq(T) BY <1>2 DEF Keeps
    <3>2. Fine(0) BY <3>1
    <3> QED BY <2>2, <3>2
  <2>4. i \in 1 .. Len(s) /\ i - 1 \in 0 .. Len(s) /\ i - 1 < i BY <1>1, <2>3
  <2>5. Fine(i - 1) BY <2>2, <2>4
  <2>6. g[i] = IF s[i] \in S THEN g[i - 1] ELSE Append(g[i - 1], s[i]) BY <1>2, <2>4 DEF Keeps
  <2>7. s[i] \in T BY <2>4
  <2>8. g[i] \in Seq(T) BY <2>5, <2>6, <2>7
  <2>9. ASSUME s[1] \notin S PROVE g[i] # <<>> /\ Head(g[i]) = s[1]
    <3>1. CASE i = 1
      <4>1. g[0] = <<>> /\ g[1] = Append(<<>>, s[1]) BY <1>2, <2>6, <2>9, <3>1 DEF Keeps
      <4> QED BY <3>1, <4>1
    <3>2. CASE i > 1
      <4>1. g[i - 1] # <<>> /\ Head(g[i - 1]) = s[1] /\ g[i - 1] \in Seq(T)
        BY <2>4, <2>5, <2>9, <3>2
      <4>2. CASE s[i] \in S BY <2>6, <4>1, <4>2
      <4>3. CASE s[i] \notin S
        <5> DEFINE q == g[i - 1]
        <5>1. q \in Seq(T) /\ Len(q) \in Nat /\ Len(q) > 0 /\ q[1] = s[1] BY <4>1
        <5>2. g[i] = Append(q, s[i]) BY <2>6, <4>3
        <5> HIDE DEF q
        <5>3. Append(q, s[i]) # <<>> /\ Head(Append(q, s[i])) = q[1] BY <2>7, <5>1
        <5> QED BY <5>1, <5>2, <5>3
      <4> QED BY <4>2, <4>3
    <3> QED BY <2>4, <3>1, <3>2
  <2>10. ASSUME NEW j \in 1 .. i, s[j] \notin S PROVE \E k \in 1 .. Len(g[i]) : g[i][k] = s[j]
    <3>1. g[i - 1] \in Seq(T) /\ Len(g[i - 1]) \in Nat BY <2>5
    <3>2. CASE s[i] \in S
      <4>1. j \in 1 .. i - 1 BY <2>4, <2>10, <3>2
      <4> QED BY <2>5, <2>6, <2>10, <3>2, <4>1
    <3>3. CASE s[i] \notin S
      <4>1. PICK q : q = g[i - 1] OBVIOUS
      <4>2. /\ Len(Append(q, s[i])) = Len(q) + 1 /\ Append(q, s[i])[Len(q) + 1] = s[i]
            /\ \A k \in 1 .. Len(q) : Append(q, s[i])[k] = q[k] /\ k \in 1 .. Len(q) + 1
        BY <2>7, <3>1, <4>1
      <4>3. g[i] = Append(q, s[i]) BY <2>6, <3>3, <4>1
      <4>4. CASE j = i
        <5>1. Len(q) + 1 \in 1 .. Len(q) + 1 BY <3>1, <4>1
        <5> QED BY <4>2, <4>3, <4>4, <5>1
      <4>5. CASE j # i
        <5>1. j \in 1 .. i - 1 BY <2>4, <4>5
        <5>2. PICK k \in 1 .. Len(q) : q[k] = s[j] BY <2>5, <2>10, <4>1, <5>1
        <5> QED BY <4>2, <4>3, <5>2
      <4> QED BY <4>4, <4>5
    <3> QED BY <3>2, <3>3
  <2> QED BY <2>2, <2>8, <2>9, <2>10
<1>4. Fine(Len(s)) BY <1>1, <1>3
<1>5. Without(s, S) = g[Len(s)] BY <1>2, WithoutIs
<1>6. s # <<>> => Len(s) > 0 /\ Head(s) = s[1] BY <1>1
<1> QED BY <1>4, <1>5, <1>6

-----------------------------------------------------------------------------
(* The invariant.  Positions in Due order all that the store has to do      *)
(* with: what has left the pending batch, what the table has come to, and   *)
(* where the batches of threads begin.                                      *)

Shipped == Len(Due) - Len(pending["store"])
Rows == pruned + Len(db)

\* s is what follows the first i events of d.
Stretch(d, s, i) == /\ i + Len(s) <= Len(d)
                    /\ \A p \in 1 .. Len(s) : s[p] = d[i + p]

\* Every event of d up to e is among its first n.
Reached(d, e, n) == \A p \in 1 .. Len(d) : d[p] <= e => p <= n

Places == Sinks \cup {"idle", "locking", "stored", "traced"}
Typed ==
    /\ emitted \in Seq(Kinds) /\ pending \in [Sinks -> Seq(Nat)]
    /\ db \in Seq(Nat) /\ pruned \in Nat
    /\ queue \in Seq(Tasks) /\ batch \in Seq(Nat)
    /\ at \in [Tasks -> Places] /\ event \in [Tasks -> Nat]
    /\ \A t \in Tasks : event[t] <= Len(emitted) /\ (at[t] # "idle" => event[t] > 0)
    /\ \A w \in orphans : w.batch \in Seq(Nat)

DueOK ==
    /\ Due \in Seq(Nat) /\ \A p \in 1 .. Len(Due) : Due[p] \in 1 .. Len(emitted)
    /\ \A p, q \in 1 .. Len(Due) : p < q => Due[p] < Due[q]
    /\ \A e \in 1 .. Len(emitted) : Durable(emitted[e]) => \E p \in 1 .. Len(Due) : Due[p] = e

CursorsOK ==
    /\ Shipped \in Nat /\ Stretch(Due, pending["store"], Shipped) /\ Stretch(Due, db, pruned)
    /\ pruned <= Shipped /\ Shipped <= Rows

\* Who emits and is not done is in the queue; only its first has a thread.
Working == {"store", "stored", "trace", "traced"}
LockOK == \A t \in Tasks :
    /\ at[t] # "idle" => \E i \in 1 .. Len(queue) : queue[i] = t
    /\ at[t] \in Working => Head(queue) = t

HolderOK == \A t \in Tasks :
    /\ at[t] \in {"store", "stored"} => /\ Len(batch) > 0 /\ Stretch(Due, batch, Shipped)
                                        /\ Reached(Due, event[t], Shipped + Len(batch))
    /\ at[t] = "stored" => Shipped + Len(batch) <= Rows
    /\ at[t] \in {"trace", "traced"} => Reached(Due, event[t], Shipped)

\* A thread that was left behind writes nothing that has been removed, and leaves no gap.
OrphansOK == \A w \in orphans : w.sink = "store" =>
    Len(w.batch) > 0 /\ \E i \in pruned .. Shipped : Stretch(Due, w.batch, i)

SeenOK == \A e \in seen : e \in 1 .. Len(emitted) /\ (emitted[e] = "event" => Reached(Due, e, Rows))

IInv == Typed /\ DueOK /\ CursorsOK /\ LockOK /\ HolderOK /\ OrphansOK /\ SeenOK

-----------------------------------------------------------------------------
(* What is due                                                              *)

LEMMA DueUnchanged == emitted' = emitted => Due' = Due
BY DEF Due

LEMMA DueStep ==
    ASSUME emitted \in Seq(Kinds), NEW kind \in Kinds, emitted' = Append(emitted, kind)
    PROVE  Due' = IF Durable(kind) THEN Append(Due, Len(emitted) + 1) ELSE Due
<1>1. PICK n : n = Len(emitted) OBVIOUS
<1>2. PICK s : s = [i \in DOMAIN emitted |-> i] OBVIOUS
<1>3. PICK R : R = {i \in DOMAIN emitted : ~Durable(emitted[i])} OBVIOUS
<1>4. PICK S : S = {i \in DOMAIN emitted' : ~Durable(emitted'[i])} OBVIOUS
<1>5. /\ n \in Nat /\ DOMAIN emitted = 1 .. n /\ DOMAIN emitted' = 1 .. n + 1
      /\ \A i \in 1 .. n : emitted'[i] = emitted[i]
      /\ emitted'[n + 1] = kind
  BY <1>1
<1>6. s \in Seq(Nat) /\ Len(s) = n /\ \A i \in 1 .. n : s[i] = i BY <1>2, <1>5
<1>7. [i \in DOMAIN emitted' |-> i] = Append(s, n + 1)
  <2>1. PICK r : r = [i \in DOMAIN emitted' |-> i] OBVIOUS
  <2>2. r \in Seq(Nat) /\ Len(r) = n + 1 /\ \A i \in 1 .. n + 1 : r[i] = i BY <1>5, <2>1
  <2>3. /\ Append(s, n + 1) \in Seq(Nat) /\ Len(Append(s, n + 1)) = n + 1
        /\ \A i \in 1 .. n + 1 : Append(s, n + 1)[i] = i
    BY <1>5, <1>6
  <2>4. r = Append(s, n + 1) BY <2>2, <2>3, SeqEqual
  <2> QED BY <2>1, <2>4
<1>8. \A i \in 1 .. Len(s) : s[i] \in R <=> s[i] \in S BY <1>3, <1>4, <1>5, <1>6
<1>9. n + 1 \in S <=> ~Durable(kind) BY <1>4, <1>5
<1>10. Due' = Without(Append(s, n + 1), S) BY <1>4, <1>7 DEF Due
<1>11. Due = Without(s, R) BY <1>2, <1>3 DEF Due
<1>12. n + 1 \in Nat BY <1>5
<1>13. /\ n + 1 \in S => Without(Append(s, n + 1), S) = Without(s, R)
       /\ n + 1 \notin S => Without(Append(s, n + 1), S) = Append(Without(s, R), n + 1)
  BY <1>6, <1>8, <1>12, WithoutAppend, SMTT(20)
<1> QED BY <1>1, <1>9, <1>10, <1>11, <1>13

\* Due events keep their order.
LEMMA DueIsInjective ==
    ASSUME DueOK, NEW p \in 1 .. Len(Due), NEW q \in 1 .. Len(Due), Due[p] = Due[q]
    PROVE  p = q
<1>1. Len(Due) \in Nat /\ Due[p] \in Nat /\ Due[q] \in Nat BY DEF DueOK
<1>2. ~(p < q) /\ ~(q < p) BY <1>1 DEF DueOK
<1> QED BY <1>1, <1>2

\* A batch that continues the table, or repeats its end, leaves a table without gaps.
LEMMA InsertContinues ==
    ASSUME DueOK, db \in Seq(Nat), pruned \in Nat, Stretch(Due, db, pruned),
           NEW b \in Seq(Nat), NEW i \in Nat, Stretch(Due, b, i), pruned <= i, i <= Rows
    PROVE  /\ Insert(db, b) \in Seq(Nat) /\ Stretch(Due, Insert(db, b), pruned)
           /\ Rows <= pruned + Len(Insert(db, b)) /\ i + Len(b) <= pruned + Len(Insert(db, b))
<1> DEFINE c == IF Rows - i < Len(b) THEN Rows - i ELSE Len(b)
           u == SubSeq(b, c + 1, Len(b))
           r == db \o u
<1>1. Len(db) \in Nat /\ Len(b) \in Nat /\ Len(Due) \in Nat /\ Rows \in Nat BY DEF DueOK, Rows
<1>2. c \in 0 .. Len(b) /\ c <= Rows - i /\ (c = Rows - i \/ c = Len(b)) BY <1>1
<1>3. ASSUME NEW p \in 1 .. Len(b) PROVE b[p] \in ToSet(db) <=> p <= c
  <2>1. i + p \in 1 .. Len(Due) /\ b[p] = Due[i + p] BY <1>1 DEF Stretch
  <2>2. ASSUME b[p] \in ToSet(db) PROVE p <= c
    <3>1. PICK q \in 1 .. Len(db) : db[q] = b[p] BY <1>1, <2>2, LenProperties DEF ToSet
    <3>2. pruned + q \in 1 .. Len(Due) /\ db[q] = Due[pruned + q]
      <4>1. pruned + Len(db) <= Len(Due) /\ db[q] = Due[pruned + q] BY <3>1 DEF Stretch
      <4> QED BY <1>1, <3>1, <4>1
    <3>3. pruned + q = i + p BY <2>1, <3>1, <3>2, DueIsInjective
    <3> QED BY <1>1, <1>2, <3>3 DEF Rows
  <2>3. ASSUME p <= c PROVE b[p] \in ToSet(db)
    <3> DEFINE q == i + p - pruned
    <3>1. q \in 1 .. Len(db) /\ pruned + q = i + p BY <1>1, <1>2, <2>3 DEF Rows
    <3>2. db[q] = Due[i + p] BY <3>1 DEF Stretch
    <3>3. db[q] = b[p] BY <2>1, <3>2
    <3> QED BY <1>1, <3>1, <3>3, LenProperties DEF ToSet
  <2> QED BY <2>2, <2>3
<1>4. Insert(db, b) = r
  <2>1. Without(b, ToSet(db)) = u
    <3> HIDE DEF c
    <3> QED BY <1>2, <1>3, WithoutFirst
  <2> QED BY <2>1 DEF Insert
<1>5. u \in Seq(Nat) /\ Len(u) = Len(b) - c /\ \A k \in 1 .. Len(b) - c : u[k] = b[c + k]
  <2> HIDE DEF c
  <2> QED BY <1>1, <1>2
<1>6. /\ r \in Seq(Nat) /\ Len(r) = Len(db) + Len(b) - c
      /\ \A k \in 1 .. Len(db) : r[k] = db[k]
      /\ \A k \in 1 .. Len(b) - c : r[Len(db) + k] = b[c + k]
  <2> HIDE DEF c, u
  <2>0. u \in Seq(Nat) BY <1>5
  <2>1. r \in Seq(Nat) /\ Len(r) = Len(db) + Len(u) BY <2>0, ConcatProperties
  <2>2. \A k \in 1 .. Len(db) : r[k] = db[k] BY <1>1, <1>5
  <2>3. \A k \in 1 .. Len(u) : r[Len(db) + k] = u[k] BY <1>1, <1>5
  <2> HIDE DEF r
  <2> QED BY <1>1, <1>2, <1>5, <2>1, <2>2, <2>3
<1> HIDE DEF r, u, c
<1>7. Stretch(Due, r, pruned)
  <2>1. pruned + Len(r) <= Len(Due)
    BY <1>1, <1>2, <1>6 DEF Stretch, Rows
  <2>2. ASSUME NEW k \in 1 .. Len(r) PROVE r[k] = Due[pruned + k]
    <3>1. CASE k <= Len(db)
      <4>1. k \in 1 .. Len(db) BY <1>1, <1>2, <1>6, <3>1
      <4>2. db[k] = Due[pruned + k] BY <4>1 DEF Stretch
      <4> QED BY <1>6, <4>1, <4>2
    <3>2. CASE k > Len(db)
      <4> DEFINE j == k - Len(db)
      <4>1. j \in 1 .. Len(b) - c /\ k = Len(db) + j BY <1>1, <1>2, <1>6, <3>2
      <4>2. r[k] = b[c + j] BY <1>6, <4>1
      <4>3. c + j \in 1 .. Len(b) BY <1>1, <1>2, <4>1
      <4>4. b[c + j] = Due[i + (c + j)] BY <4>3 DEF Stretch
      <4>5. i + (c + j) = pruned + k
        <5>1. c = Rows - i BY <1>1, <1>2, <4>1
        <5> QED BY <1>1, <1>2, <5>1 DEF Rows
      <4> QED BY <4>2, <4>4, <4>5
    <3> QED BY <1>1, <1>6, <3>1, <3>2
  <2> QED BY <2>1, <2>2 DEF Stretch
<1> QED BY <1>1, <1>2, <1>4, <1>6, <1>7 DEF Rows

-----------------------------------------------------------------------------
(* The parts of the steps                                                   *)

\* Whoever has a thread is alone in having one.
LEMMA OneHolder ==
    ASSUME LockOK, NEW t \in Tasks, NEW u \in Tasks, at[t] \in Working, at[u] \in Working
    PROVE  t = u
BY DEF LockOK

\* A task that leaves takes nothing from the one that holds the lock.
LEMMA LeaveKeeps ==
    ASSUME Typed, LockOK, NEW t \in Tasks, at[t] # "idle", Leave(t)
    PROVE  /\ queue' \in Seq(Tasks) /\ batch' \in Seq(Nat)
           /\ at' \in [Tasks -> Places] /\ event' \in [Tasks -> Nat]
           /\ at'[t] = "idle" /\ event'[t] = 0
           /\ \A u \in Tasks \ {t} : at'[u] = at[u] /\ event'[u] = event[u]
           /\ \A u \in Tasks : at'[u] \in Working => ~(at[t] \in Working) /\ batch' = batch
           /\ LockOK'
<1>1. queue' = Without(queue, {t}) /\ queue \in Seq(Tasks) BY DEF Leave, Typed
<1>2. at' = [at EXCEPT ![t] = "idle"] /\ event' = [event EXCEPT ![t] = 0] BY DEF Leave
<1>3. at \in [Tasks -> Places] /\ event \in [Tasks -> Nat] /\ batch \in Seq(Nat) BY DEF Typed
<1>4. /\ queue' \in Seq(Tasks)
      /\ queue # <<>> /\ Head(queue) \notin {t} => queue' # <<>> /\ Head(queue') = Head(queue)
      /\ \A j \in 1 .. Len(queue) : queue[j] \notin {t} =>
            \E k \in 1 .. Len(queue') : queue'[k] = queue[j]
  <2>0. PICK S : S = {t} OBVIOUS
  <2>1. PICK r : r = Without(queue, S) OBVIOUS
  <2>2. /\ r \in Seq(Tasks)
        /\ queue # <<>> /\ Head(queue) \notin S => r # <<>> /\ Head(r) = Head(queue)
        /\ \A j \in 1 .. Len(queue) : queue[j] \notin S => \E k \in 1 .. Len(r) : r[k] = queue[j]
    BY <1>1, <2>1, WithoutHead, SMTT(20)
  <2>3. queue' = r BY <1>1, <2>0, <2>1
  <2> QED BY <2>0, <2>2, <2>3
<1>5. batch' \in Seq(Nat) BY <1>3 DEF Leave
<1>6. at' \in [Tasks -> Places] /\ event' \in [Tasks -> Nat] BY <1>2, <1>3 DEF Places
<1>7. /\ at'[t] = "idle" /\ event'[t] = 0
      /\ \A u \in Tasks \ {t} : at'[u] = at[u] /\ event'[u] = event[u]
  BY <1>2, <1>3
<1>8. ASSUME NEW u \in Tasks, at'[u] \in Working
      PROVE  ~(at[t] \in Working) /\ batch' = batch /\ Head(queue') = u
  <2>1. u # t BY <1>7, <1>8 DEF Working
  <2>2. at[u] \in Working BY <1>7, <1>8, <2>1
  <2>3. ~(at[t] \in Working) BY <2>1, <2>2, OneHolder
  <2>4. at[t] = "locking" BY <1>3, <2>3 DEF Places, Sinks, Working
  <2>5. Head(queue) = u BY <2>2 DEF LockOK
  <2>6. queue # <<>>
    <3>1. at[u] # "idle" BY <2>2 DEF Working
    <3> QED BY <1>1, <3>1 DEF LockOK
  <2> QED BY <1>4, <2>1, <2>3, <2>4, <2>5, <2>6 DEF Leave
<1>9. LockOK'
  <2>1. ASSUME NEW u \in Tasks, at'[u] # "idle" PROVE \E k \in 1 .. Len(queue') : queue'[k] = u
    <3>1. u # t /\ at[u] # "idle" BY <1>7, <2>1
    <3>2. PICK j \in 1 .. Len(queue) : queue[j] = u BY <3>1 DEF LockOK
    <3> QED BY <1>4, <3>1, <3>2
  <2> QED BY <1>8, <2>1 DEF LockOK
<1> QED BY <1>4, <1>5, <1>6, <1>7, <1>8, <1>9

LEMMA LeaveTypes ==
    ASSUME Typed, LockOK, NEW t \in Tasks, at[t] # "idle", Leave(t), UNCHANGED <<emitted, table>>,
           pending' \in [Sinks -> Seq(Nat)], \A w \in orphans' : w.batch \in Seq(Nat)
    PROVE  Typed'
<1>1. /\ queue' \in Seq(Tasks) /\ batch' \in Seq(Nat)
      /\ at' \in [Tasks -> Places] /\ event' \in [Tasks -> Nat]
      /\ at'[t] = "idle" /\ event'[t] = 0
      /\ \A u \in Tasks \ {t} : at'[u] = at[u] /\ event'[u] = event[u]
  BY LeaveKeeps
<1>2. emitted' = emitted /\ emitted \in Seq(Kinds) /\ db' \in Seq(Nat) /\ pruned' \in Nat
  BY DEF Typed, table
<1>3. ASSUME NEW u \in Tasks
      PROVE  event'[u] <= Len(emitted) /\ (at'[u] # "idle" => event'[u] > 0)
  <2>1. CASE u = t BY <1>1, <1>2, <2>1
  <2>2. CASE u # t BY <1>1, <2>2 DEF Typed
  <2> QED BY <2>1, <2>2
<1> QED BY <1>1, <1>2, <1>3 DEF Typed

\* The holder, and what it does, where neither the events nor the pending ones change.
LEMMA HolderKept ==
    ASSUME HolderOK, LockOK, emitted' = emitted, pending'["store"] = pending["store"],
           Rows <= Rows', Rows \in Nat, Rows' \in Nat, Typed, CursorsOK,
           NEW t \in Tasks, at[t] # "idle", Leave(t)
    PROVE  HolderOK'
<1>1. Due' = Due /\ Shipped' = Shipped BY DueUnchanged DEF Shipped
<1>2. ASSUME NEW u \in Tasks, at'[u] \in Working
      PROVE  at'[u] = at[u] /\ event'[u] = event[u] /\ batch' = batch
  <2>1. u # t BY <1>2, LeaveKeeps DEF Working
  <2> QED BY <1>2, <2>1, LeaveKeeps
<1>3. batch \in Seq(Nat) /\ Shipped \in Nat BY DEF Typed, CursorsOK
<1>4. Len(batch) \in Nat BY <1>3
<1> SUFFICES ASSUME NEW u \in Tasks
             PROVE  /\ at'[u] \in {"store", "stored"} =>
                          /\ Len(batch') > 0 /\ Stretch(Due', batch', Shipped')
                          /\ Reached(Due', event'[u], Shipped' + Len(batch'))
                    /\ at'[u] = "stored" => Shipped' + Len(batch') <= Rows'
                    /\ at'[u] \in {"trace", "traced"} => Reached(Due', event'[u], Shipped')
  BY DEF HolderOK
<1>5. CASE at'[u] \in Working
  <2>1. at'[u] = at[u] /\ event'[u] = event[u] /\ batch' = batch BY <1>2, <1>5
  <2>2. at[u] = "stored" => Shipped + Len(batch) <= Rows' BY <1>3, <1>4 DEF HolderOK
  <2> QED BY <1>1, <2>1, <2>2 DEF HolderOK
<1>6. CASE ~(at'[u] \in Working) BY <1>6 DEF Working
<1> QED BY <1>5, <1>6

\* A task that takes the lock starts with the store if anything is pending for it.
LEMMA SubmitStarts ==
    ASSUME Typed, CursorsOK', DueOK', NEW t \in Tasks, NEW sink \in Sinks,
           pending' \in [Sinks -> Seq(Nat)],
           at' = [at EXCEPT ![t] = sink],
           \A u \in Tasks \ {t} : ~(at[u] \in Working),
           sink = "store" => batch' = pending'["store"] /\ batch' # <<>>,
           sink = "trace" => pending'["store"] = <<>> \/ Reached(Due', event'[t], Shipped')
    PROVE  HolderOK'
<1>1. at'[t] = sink /\ \A u \in Tasks \ {t} : at'[u] = at[u] BY DEF Typed
<1>2. Due' \in Seq(Nat) /\ pending'["store"] \in Seq(Nat) BY DEF DueOK, Sinks
<1>3. Len(Due') \in Nat /\ Len(pending'["store"]) \in Nat BY <1>2
<1>4. Shipped' + Len(pending'["store"]) = Len(Due') BY <1>3 DEF Shipped
<1>5. \A e : Reached(Due', e, Len(Due')) BY <1>3 DEF Reached
<1>6. CASE sink = "store"
  <2>1. Len(batch') > 0 BY <1>2, <1>6
  <2>2. Stretch(Due', batch', Shipped') BY <1>6 DEF CursorsOK
  <2>3. Reached(Due', event'[t], Shipped' + Len(batch')) BY <1>4, <1>5, <1>6
  <2> QED BY <1>1, <1>6, <2>1, <2>2, <2>3 DEF HolderOK, Working
<1>7. CASE sink = "trace"
  <2>1. ASSUME pending'["store"] = <<>> PROVE Shipped' = Len(Due')
    <3>1. Len(pending'["store"]) = 0 BY <2>1
    <3> QED BY <1>3, <3>1 DEF Shipped
  <2>2. Reached(Due', event'[t], Shipped') BY <1>5, <1>7, <2>1
  <2> QED BY <1>1, <1>7, <2>2 DEF HolderOK, Working
<1> QED BY <1>6, <1>7 DEF Sinks

\* The table may only grow, in the order in which events are due.
LEMMA TableGrows ==
    ASSUME IInv, emitted' = emitted, pending'["store"] = pending["store"], pruned' = pruned,
           db' \in Seq(Nat), Stretch(Due, db', pruned), Rows <= Rows'
    PROVE  /\ Due' = Due /\ Shipped' = Shipped /\ Rows \in Nat /\ Rows' \in Nat
           /\ DueOK' /\ CursorsOK'
           /\ orphans' \subseteq orphans => OrphansOK'
           /\ seen' = seen => SeenOK'
<1>1. Due' = Due /\ Shipped' = Shipped BY DueUnchanged DEF Shipped
<1>2. Rows \in Nat /\ Rows' \in Nat BY DEF IInv, Typed, Rows
<1>3. DueOK' BY <1>1 DEF IInv, DueOK
<1>4. CursorsOK'
  <2>1. Shipped \in Nat BY DEF IInv, CursorsOK
  <2> QED BY <1>1, <1>2, <2>1 DEF IInv, CursorsOK
<1>5. orphans' \subseteq orphans => OrphansOK' BY <1>1 DEF IInv, OrphansOK
<1>6. ASSUME seen' = seen PROVE SeenOK'
  <2> SUFFICES ASSUME NEW e \in seen
               PROVE  e \in 1 .. Len(emitted) /\ (emitted[e] = "event" => Reached(Due, e, Rows'))
    BY <1>1, <1>6 DEF SeenOK
  <2>1. e \in 1 .. Len(emitted) /\ (emitted[e] = "event" => Reached(Due, e, Rows)) BY DEF IInv, SeenOK
  <2>2. Len(Due) \in Nat BY DEF IInv, DueOK
  <2>3. Reached(Due, e, Rows) => Reached(Due, e, Rows') BY <1>2, <2>2 DEF Reached
  <2> QED BY <2>1, <2>3
<1> QED BY <1>1, <1>2, <1>3, <1>4, <1>5, <1>6

LEMMA Kept ==
    ASSUME IInv, emitted' = emitted, pending'["store"] = pending["store"], UNCHANGED table
    PROVE  /\ Due' = Due /\ Shipped' = Shipped /\ Rows \in Nat /\ Rows' = Rows
           /\ DueOK' /\ CursorsOK'
           /\ orphans' \subseteq orphans => OrphansOK'
           /\ seen' = seen => SeenOK'
<1>1. pruned' = pruned /\ db' = db /\ db' \in Seq(Nat) BY DEF table, IInv, Typed
<1>2. Rows' = Rows /\ Rows \in Nat BY <1>1 DEF Rows, IInv, Typed
<1>3. Stretch(Due, db', pruned) BY <1>1 DEF IInv, CursorsOK
<1> QED BY <1>1, <1>2, <1>3, TableGrows

LEMMA HolderStays ==
    ASSUME IInv, UNCHANGED <<at, event, batch, queue>>, Due' = Due, Shipped' = Shipped,
           Rows \in Nat, Rows' \in Nat, Rows <= Rows'
    PROVE  LockOK' /\ HolderOK'
<1>1. LockOK' BY DEF IInv, LockOK
<1>2. Shipped \in Nat /\ Len(batch) \in Nat BY DEF IInv, CursorsOK, Typed
<1>3. HolderOK' BY <1>2 DEF IInv, HolderOK
<1> QED BY <1>1, <1>3

-----------------------------------------------------------------------------
(* The steps                                                                *)

LEMMA InitHolds == Init => IInv
<1> SUFFICES ASSUME Init PROVE IInv OBVIOUS
<1>1. Due = <<>>
  <2>1. PICK s : s = [i \in DOMAIN emitted |-> i] OBVIOUS
  <2>2. PICK S : S = {i \in DOMAIN emitted : ~Durable(emitted[i])} OBVIOUS
  <2>3. s \in Seq(Nat) /\ Len(s) = 0 BY <2>1 DEF Init
  <2>4. 0 \in 0 .. Len(s) /\ \A i \in 1 .. Len(s) : s[i] \in S <=> i <= 0 BY <2>3
  <2>5. Without(s, S) = SubSeq(s, 0 + 1, Len(s)) BY <2>3, <2>4, WithoutFirst
  <2>6. SubSeq(s, 0 + 1, Len(s)) = <<>> BY <2>3
  <2> QED BY <2>1, <2>2, <2>5, <2>6 DEF Due
<1>2. Typed BY DEF Init, Typed, Places
<1>3. DueOK BY <1>1 DEF Init, DueOK
<1>4. CursorsOK BY <1>1 DEF Init, CursorsOK, Shipped, Rows, Stretch, Sinks
<1>5. LockOK /\ HolderOK BY DEF Init, LockOK, HolderOK, Working
<1>6. OrphansOK /\ SeenOK BY DEF Init, OrphansOK, SeenOK
<1> QED BY <1>2, <1>3, <1>4, <1>5, <1>6 DEF IInv

LEMMA StoredKeeps ==
    ASSUME IInv, NEW t \in Tasks, Stored(t)
    PROVE  IInv'
<1>1. /\ at[t] = "store" /\ at' = [at EXCEPT ![t] = "stored"]
      /\ db' = Insert(db, batch) /\ pruned' = pruned
      /\ UNCHANGED <<emitted, pending, queue, event, batch, orphans, seen>>
  BY DEF Stored, StoreBatch
<1>2. Len(batch) > 0 /\ Stretch(Due, batch, Shipped) /\ Reached(Due, event[t], Shipped + Len(batch))
  BY <1>1 DEF IInv, HolderOK
<1>3. /\ Shipped \in Nat /\ Stretch(Due, db, pruned) /\ pruned <= Shipped /\ Shipped <= Rows
      /\ batch \in Seq(Nat) /\ db \in Seq(Nat) /\ pruned \in Nat
  BY DEF IInv, CursorsOK, Typed
<1>4. /\ db' \in Seq(Nat) /\ Stretch(Due, db', pruned)
      /\ Rows <= pruned + Len(db') /\ Shipped + Len(batch) <= pruned + Len(db')
  BY <1>1, <1>2, <1>3, InsertContinues DEF IInv
<1>5. Rows <= Rows' /\ Shipped + Len(batch) <= Rows' BY <1>1, <1>4 DEF Rows
<1>6. /\ Due' = Due /\ Shipped' = Shipped /\ DueOK' /\ CursorsOK' /\ OrphansOK' /\ SeenOK'
  BY <1>1, <1>4, <1>5, TableGrows
<1>7. Typed' BY <1>1, <1>4 DEF IInv, Typed, Places
<1>8. at'[t] = "stored" /\ \A u \in Tasks \ {t} : at'[u] = at[u] BY <1>1 DEF IInv, Typed
<1>9. LockOK' BY <1>1, <1>8 DEF IInv, LockOK, Working
<1>10. HolderOK'
  <2>1. \A u \in Tasks \ {t} : ~(at'[u] \in Working) BY <1>1, <1>8, OneHolder DEF IInv, Working
  <2> QED BY <1>1, <1>2, <1>5, <1>6, <1>8, <2>1 DEF HolderOK, Working
<1> QED BY <1>6, <1>7, <1>9, <1>10 DEF IInv

LEMMA TracedKeeps ==
    ASSUME IInv, NEW t \in Tasks, Traced(t)
    PROVE  IInv'
<1>1. /\ at[t] = "trace" /\ at' = [at EXCEPT ![t] = "traced"]
      /\ UNCHANGED <<emitted, pending, table, queue, event, batch, orphans, seen>>
  BY DEF Traced
<1>2. Due' = Due /\ Shipped' = Shipped /\ DueOK' /\ CursorsOK' /\ OrphansOK' /\ SeenOK'
  BY <1>1, Kept
<1>3. Typed' BY <1>1 DEF IInv, Typed, Places, table
<1>4. at'[t] = "traced" /\ \A u \in Tasks \ {t} : at'[u] = at[u] BY <1>1 DEF IInv, Typed
<1>5. LockOK' BY <1>1, <1>4 DEF IInv, LockOK, Working
<1>6. HolderOK'
  <2>1. \A u \in Tasks \ {t} : ~(at'[u] \in Working) BY <1>1, <1>4, OneHolder DEF IInv, Working
  <2> QED BY <1>1, <1>2, <1>4, <2>1 DEF IInv, HolderOK, Working
<1> QED BY <1>2, <1>3, <1>5, <1>6 DEF IInv

LEMMA SinkFailsKeeps ==
    ASSUME IInv, NEW t \in Tasks, SinkFails(t)
    PROVE  IInv'
<1>1. /\ at[t] \in Sinks /\ Leave(t)
      /\ UNCHANGED <<emitted, pending, table, orphans, seen>>
  BY DEF SinkFails
<1>2. at[t] # "idle" BY <1>1 DEF Sinks
<1>3. /\ Rows' = Rows /\ Rows \in Nat
      /\ DueOK' /\ CursorsOK' /\ OrphansOK' /\ SeenOK'
  BY <1>1, Kept
<1>4. Typed' BY <1>1, <1>2, LeaveTypes DEF IInv, Typed
<1>5. LockOK' BY <1>1, <1>2, LeaveKeeps DEF IInv
<1>6. HolderOK' BY <1>1, <1>2, <1>3, HolderKept DEF IInv
<1> QED BY <1>3, <1>4, <1>5, <1>6 DEF IInv

LEMMA CancelKeeps ==
    ASSUME IInv, NEW t \in Tasks, Cancel(t)
    PROVE  IInv'
<1>1. /\ at[t] # "idle" /\ Leave(t)
      /\ UNCHANGED <<emitted, pending, table, seen>>
      /\ orphans' = orphans \cup (IF at[t] \in Sinks
                                  THEN {[sink |-> at[t], batch |-> batch, nth |-> cancels]} ELSE {})
  BY DEF Cancel
<1>2. /\ Due' = Due /\ Shipped' = Shipped /\ Rows' = Rows /\ Rows \in Nat
      /\ DueOK' /\ CursorsOK' /\ SeenOK'
  BY <1>1, Kept
<1>3. \A w \in orphans' \ orphans : w.sink = at[t] /\ w.batch = batch BY <1>1
<1>4. Typed'
  <2>1. batch \in Seq(Nat) BY DEF IInv, Typed
  <2>2. \A w \in orphans' : w.batch \in Seq(Nat) BY <1>3, <2>1 DEF IInv, Typed
  <2> QED BY <1>1, <2>2, LeaveTypes DEF IInv, Typed
<1>5. LockOK' BY <1>1, LeaveKeeps DEF IInv
<1>6. HolderOK' BY <1>1, <1>2, HolderKept DEF IInv
<1>7. OrphansOK'
  <2> SUFFICES ASSUME NEW w \in orphans', w.sink = "store"
               PROVE  Len(w.batch) > 0 /\ \E i \in pruned .. Shipped : Stretch(Due, w.batch, i)
    BY <1>1, <1>2 DEF OrphansOK, table
  <2>1. CASE w \in orphans BY <2>1 DEF IInv, OrphansOK
  <2>2. CASE w \notin orphans
    <3>1. at[t] = "store" /\ w.batch = batch BY <1>3, <2>2
    <3>2. Shipped \in pruned .. Shipped BY DEF IInv, CursorsOK, Typed
    <3> QED BY <3>1, <3>2 DEF IInv, HolderOK
  <2> QED BY <2>1, <2>2
<1> QED BY <1>2, <1>4, <1>5, <1>6, <1>7 DEF IInv

LEMMA LateWriteKeeps ==
    ASSUME IInv, NEW w \in orphans, LateWrite(w)
    PROVE  IInv'
<1>1. /\ orphans' \subseteq orphans
      /\ UNCHANGED <<emitted, pending, queue, at, event, batch, seen>>
      /\ \/ w.sink = "store" /\ db' = Insert(db, w.batch) /\ pruned' = pruned
         \/ UNCHANGED table
  BY DEF LateWrite, StoreBatch
<1>2. CASE w.sink = "store" /\ db' = Insert(db, w.batch) /\ pruned' = pruned
  <2>1. PICK i \in pruned .. Shipped : Stretch(Due, w.batch, i) BY <1>2 DEF IInv, OrphansOK
  <2>2. /\ Shipped \in Nat /\ Stretch(Due, db, pruned) /\ Shipped <= Rows /\ Rows \in Nat
        /\ w.batch \in Seq(Nat) /\ db \in Seq(Nat) /\ pruned \in Nat
    BY DEF IInv, CursorsOK, Typed, Rows
  <2>3. i \in Nat /\ pruned <= i /\ i <= Rows BY <2>2
  <2>4. db' \in Seq(Nat) /\ Stretch(Due, db', pruned) /\ Rows <= pruned + Len(db')
    BY <1>2, <2>1, <2>2, <2>3, InsertContinues DEF IInv
  <2>5. Rows <= Rows' BY <1>2, <2>4 DEF Rows
  <2>6. /\ Due' = Due /\ Shipped' = Shipped /\ Rows \in Nat /\ Rows' \in Nat
        /\ DueOK' /\ CursorsOK' /\ OrphansOK' /\ SeenOK'
    BY <1>1, <1>2, <2>4, <2>5, TableGrows
  <2>7. Typed' BY <1>1, <1>2, <2>4 DEF IInv, Typed
  <2>8. LockOK' /\ HolderOK' BY <1>1, <2>5, <2>6, HolderStays
  <2> QED BY <2>6, <2>7, <2>8 DEF IInv
<1>3. CASE UNCHANGED table
  <2>1. /\ Due' = Due /\ Shipped' = Shipped /\ Rows' = Rows /\ Rows \in Nat
        /\ DueOK' /\ CursorsOK' /\ OrphansOK' /\ SeenOK'
    BY <1>1, <1>3, Kept
  <2>2. Typed' BY <1>1, <1>3 DEF IInv, Typed, table
  <2>3. LockOK' /\ HolderOK' BY <1>1, <2>1, HolderStays
  <2> QED BY <2>1, <2>2, <2>3 DEF IInv
<1> QED BY <1>1, <1>2, <1>3

LEMMA StutterKeeps ==
    ASSUME IInv, UNCHANGED <<emitted, pending, table, queue, at, event, batch, orphans, seen>>
    PROVE  IInv'
<1>1. /\ Due' = Due /\ Shipped' = Shipped /\ Rows' = Rows /\ Rows \in Nat
      /\ DueOK' /\ CursorsOK' /\ OrphansOK' /\ SeenOK'
  BY Kept
<1>2. Typed' BY DEF IInv, Typed, table
<1>3. LockOK' /\ HolderOK' BY <1>1, HolderStays
<1> QED BY <1>1, <1>2, <1>3 DEF IInv

\* The one who has left had the whole table, so its observers learn nothing too early.
LEMMA FinishSees ==
    ASSUME SeenOK, NEW t \in Tasks, seen' = seen \cup {event[t]}, emitted' = emitted,
           event[t] \in 1 .. Len(emitted), Reached(Due, event[t], Rows), Due' = Due, Rows' = Rows
    PROVE  SeenOK'
BY DEF SeenOK

\* Nobody has a thread when a task takes the lock.
LEMMA FirstIsAlone ==
    ASSUME Typed, LockOK, NEW t \in Tasks, Head(queue) = t, NEW u \in Tasks \ {t}
    PROVE  ~(at[u] \in Working)
BY DEF LockOK

LEMMA TakeLockKeeps ==
    ASSUME IInv, NEW t \in Tasks, TakeLock(t)
    PROVE  IInv'
<1>1. /\ at[t] = "locking" /\ Head(queue) = t
      /\ UNCHANGED <<emitted, pending, table, orphans>>
  BY DEF TakeLock
<1>2. /\ Due' = Due /\ Shipped' = Shipped /\ Rows' = Rows /\ Rows \in Nat
      /\ DueOK' /\ CursorsOK' /\ OrphansOK' /\ (seen' = seen => SeenOK')
  BY <1>1, Kept
<1>3. /\ pending \in [Sinks -> Seq(Nat)] /\ pending["store"] \in Seq(Nat) /\ pending["trace"] \in Seq(Nat)
      /\ event[t] \in 1 .. Len(emitted)
  <2>1. pending \in [Sinks -> Seq(Nat)] BY DEF IInv, Typed
  <2>2. event[t] \in Nat /\ event[t] <= Len(emitted) /\ event[t] > 0 /\ Len(emitted) \in Nat
    BY <1>1 DEF IInv, Typed
  <2> QED BY <2>1, <2>2 DEF Sinks
<1>4. CASE \E s \in Sinks : pending[s] # <<>>
  <2> DEFINE sink == FirstSink(pending)
  <2>1. /\ at' = [at EXCEPT ![t] = sink] /\ batch' = pending[sink] /\ queue' = queue
        /\ seen' = seen /\ event' = event
    BY <1>4 DEF TakeLock, Submit
  <2>2. sink \in Sinks BY DEF FirstSink, Sinks
  <2>3. /\ sink = "store" => pending["store"] # <<>>
        /\ sink = "trace" => pending["store"] = <<>>
    BY DEF FirstSink
  <2> HIDE DEF sink
  <2>4. HolderOK'
    <3>1. \A u \in Tasks \ {t} : ~(at[u] \in Working) BY <1>1, FirstIsAlone DEF IInv
    <3> QED BY <1>1, <1>2, <1>3, <2>1, <2>2, <2>3, <3>1, SubmitStarts DEF IInv
  <2>5. Typed'
    <3>1. at' \in [Tasks -> Places] BY <2>1, <2>2 DEF IInv, Typed, Places
    <3>2. batch' \in Seq(Nat) BY <1>3, <2>1, <2>2
    <3>3. \A u \in Tasks : at'[u] # "idle" => at[u] # "idle" BY <1>1, <2>1 DEF IInv, Typed
    <3> QED BY <1>1, <2>1, <3>1, <3>2, <3>3 DEF IInv, Typed, table
  <2>6. LockOK'
    <3>1. \A u \in Tasks \ {t} : at'[u] = at[u] BY <2>1 DEF IInv, Typed
    <3> QED BY <1>1, <2>1, <3>1 DEF IInv, LockOK
  <2> QED BY <1>2, <2>1, <2>4, <2>5, <2>6 DEF IInv
<1>5. CASE ~\E s \in Sinks : pending[s] # <<>>
  <2>1. Leave(t) /\ seen' = seen \cup {event[t]} BY <1>5 DEF TakeLock, Finish
  <2>2. Typed' BY <1>1, <1>3, <2>1, LeaveTypes DEF IInv, Typed
  <2>3. LockOK' BY <1>1, <2>1, LeaveKeeps DEF IInv
  <2>4. HolderOK' BY <1>1, <1>2, <2>1, HolderKept DEF IInv
  <2>5. SeenOK'
    <3>1. pending["store"] = <<>> BY <1>5 DEF Sinks
    <3>2. Len(Due) \in Nat /\ Len(Due) <= Rows
      <4>1. Len(Due) \in Nat /\ Len(pending["store"]) = 0 BY <3>1 DEF IInv, DueOK
      <4>2. Shipped = Len(Due) BY <4>1 DEF Shipped
      <4> QED BY <4>1, <4>2 DEF IInv, CursorsOK
    <3>3. Reached(Due, event[t], Rows) BY <1>2, <3>2 DEF Reached
    <3> QED BY <1>1, <1>2, <1>3, <2>1, <3>3, FinishSees DEF IInv
  <2> QED BY <1>2, <2>2, <2>3, <2>4, <2>5 DEF IInv
<1> QED BY <1>4, <1>5

\* What the store has taken is no longer pending.
LEMMA StoreAdvances ==
    ASSUME IInv, NEW t \in Tasks, at[t] = "stored", emitted' = emitted, UNCHANGED <<table, orphans>>,
           pending' = [pending EXCEPT !["store"] = Rest(@, batch)]
    PROVE  /\ Due' = Due /\ Shipped' = Shipped + Len(batch) /\ Rows' = Rows /\ Rows \in Nat
           /\ pending' \in [Sinks -> Seq(Nat)]
           /\ DueOK' /\ CursorsOK' /\ OrphansOK' /\ (seen' = seen => SeenOK')
<1>1. PICK p : p = pending["store"] OBVIOUS
<1>2. PICK b : b = batch OBVIOUS
<1>3. p \in Seq(Nat) /\ Len(p) \in Nat /\ b \in Seq(Nat) /\ Len(b) \in Nat
  BY <1>1, <1>2 DEF IInv, Typed, Sinks
<1>4. Due' = Due /\ Due \in Seq(Nat) /\ Len(Due) \in Nat BY DueUnchanged DEF IInv, DueOK
<1>5. Shipped = Len(Due) - Len(p) /\ Shipped \in Nat BY <1>1 DEF Shipped, IInv, CursorsOK
<1>6. Len(b) > 0 /\ Shipped + Len(b) <= Len(Due) /\ Shipped + Len(b) <= Rows
  BY <1>2 DEF IInv, HolderOK, Stretch
<1>7. Len(b) <= Len(p) BY <1>3, <1>4, <1>5, <1>6
<1>8. PICK r : r = SubSeq(p, Len(b) + 1, Len(p)) OBVIOUS
<1>9. r \in Seq(Nat) /\ Len(r) = Len(p) - Len(b) /\ \A k \in 1 .. Len(p) - Len(b) : r[k] = p[Len(b) + k]
  <2>1. Len(b) \in 0 .. Len(p) BY <1>3, <1>7
  <2>2. p \in Seq(Nat) BY <1>3
  <2>3. r \in Seq(Nat) /\ Len(r) = Len(p) - Len(b) /\ \A k \in 1 .. Len(p) - Len(b) : r[k] = p[Len(b) + k]
    BY <1>8, <2>1, <2>2, DropFirst, SMTT(20)
  <2> QED BY <2>3
<1>10. pending'["store"] = r /\ pending' \in [Sinks -> Seq(Nat)]
  BY <1>1, <1>2, <1>8, <1>9 DEF IInv, Typed, Rest, Sinks
<1>11. Shipped' = Shipped + Len(b)
  <2>1. Shipped' = Len(Due) - Len(r) BY <1>4, <1>10 DEF Shipped
  <2> QED BY <1>3, <1>4, <1>5, <1>9, <2>1
<1>12. pruned' = pruned /\ db' = db /\ Rows' = Rows BY DEF table, Rows
<1>13. Rows \in Nat /\ pruned \in Nat BY DEF IInv, Typed, Rows
<1>14. Stretch(Due, r, Shipped + Len(b))
  <2>1. Stretch(Due, p, Shipped) BY <1>1 DEF IInv, CursorsOK
  <2>2. ASSUME NEW k \in 1 .. Len(r) PROVE r[k] = Due[Shipped + Len(b) + k]
    <3>1. k \in 1 .. Len(p) - Len(b) /\ Len(b) + k \in 1 .. Len(p) BY <1>3, <1>7, <1>9
    <3>2. r[k] = p[Len(b) + k] BY <1>9, <3>1
    <3>3. p[Len(b) + k] = Due[Shipped + (Len(b) + k)] BY <2>1, <3>1 DEF Stretch
    <3>4. Shipped + (Len(b) + k) = Shipped + Len(b) + k BY <1>3, <1>5, <3>1
    <3> QED BY <3>2, <3>3, <3>4
  <2>3. Shipped + Len(b) + Len(r) <= Len(Due) BY <1>3, <1>4, <1>5, <1>9
  <2> QED BY <2>2, <2>3 DEF Stretch
<1>15. DueOK' BY <1>4 DEF IInv, DueOK
<1>16. CursorsOK'
  <2>1. Shipped' \in Nat BY <1>3, <1>5, <1>11
  <2>2. Stretch(Due', pending'["store"], Shipped') BY <1>4, <1>10, <1>11, <1>14
  <2>3. Stretch(Due', db', pruned') BY <1>4, <1>12 DEF IInv, CursorsOK
  <2>4. pruned <= Shipped + Len(b) BY <1>3, <1>5, <1>13 DEF IInv, CursorsOK
  <2>5. pruned' <= Shipped' /\ Shipped' <= Rows' BY <1>6, <1>11, <1>12, <2>4
  <2> QED BY <2>1, <2>2, <2>3, <2>5 DEF CursorsOK
<1>17. OrphansOK'
  <2>1. pruned .. Shipped \subseteq pruned' .. Shipped' BY <1>3, <1>5, <1>11, <1>12, <1>13
  <2> QED BY <1>4, <2>1 DEF IInv, OrphansOK
<1>18. seen' = seen => SeenOK' BY <1>4, <1>12 DEF IInv, SeenOK
<1> QED BY <1>2, <1>4, <1>10, <1>11, <1>12, <1>13, <1>15, <1>16, <1>17, <1>18

LEMMA ResumeKeeps ==
    ASSUME IInv, NEW t \in Tasks, Resume(t)
    PROVE  IInv'
<1>1. UNCHANGED <<emitted, table, orphans>> BY DEF Resume
<1>2. /\ event[t] \in Nat /\ Shipped \in Nat /\ Rows \in Nat /\ Shipped <= Rows /\ Len(batch) \in Nat
      /\ Len(Due) \in Nat
      /\ at[t] # "idle" => event[t] \in 1 .. Len(emitted)
  BY DEF IInv, Typed, CursorsOK, DueOK, Rows
<1>3. ASSUME at[t] \in Working PROVE \A u \in Tasks \ {t} : ~(at[u] \in Working)
  BY <1>3, OneHolder DEF IInv
\* Nobody is left with a thread.
<1>4. ASSUME at[t] \in Working, Leave(t), pending' \in [Sinks -> Seq(Nat)]
      PROVE  Typed' /\ LockOK' /\ HolderOK'
  <2>1. at[t] # "idle" BY <1>4 DEF Working
  <2>2. Typed' BY <1>1, <1>4, <2>1, LeaveTypes DEF IInv, Typed
  <2>3. LockOK' /\ \A u \in Tasks : ~(at'[u] \in Working) BY <1>4, <2>1, LeaveKeeps DEF IInv
  <2>4. HolderOK' BY <2>3 DEF HolderOK, Working
  <2> QED BY <2>2, <2>3, <2>4
<1>5. CASE at[t] = "stored"
  <2>1. pending' = [pending EXCEPT !["store"] = Rest(@, batch)] BY <1>5 DEF Resume
  <2>2. /\ Due' = Due /\ Shipped' = Shipped + Len(batch) /\ Rows' = Rows
        /\ pending' \in [Sinks -> Seq(Nat)]
        /\ DueOK' /\ CursorsOK' /\ OrphansOK' /\ (seen' = seen => SeenOK')
    BY <1>1, <1>5, <2>1, StoreAdvances
  <2>3. Reached(Due, event[t], Shipped + Len(batch)) /\ Shipped + Len(batch) <= Rows
    BY <1>5 DEF IInv, HolderOK
  <2>4. CASE pending["trace"] # <<>>
    <3>1. /\ at' = [at EXCEPT ![t] = "trace"] /\ batch' = pending["trace"] /\ queue' = queue
          /\ seen' = seen /\ event' = event
      BY <1>5, <2>4 DEF Resume, Submit
    <3>2. HolderOK'
      <4>1. "trace" \in Sinks BY DEF Sinks
      <4>2. \A u \in Tasks \ {t} : ~(at[u] \in Working) BY <1>3, <1>5 DEF Working
      <4>3. Reached(Due', event'[t], Shipped') BY <2>2, <2>3, <3>1
      <4> QED BY <2>2, <3>1, <4>1, <4>2, <4>3, SubmitStarts DEF IInv
    <3>3. Typed'
      <4>1. at' \in [Tasks -> Places] BY <3>1 DEF IInv, Typed, Places, Sinks
      <4>2. batch' \in Seq(Nat) BY <3>1 DEF IInv, Typed, Sinks
      <4>3. \A u \in Tasks : at'[u] # "idle" => at[u] # "idle" BY <1>5, <3>1 DEF IInv, Typed
      <4> QED BY <1>1, <2>2, <3>1, <4>1, <4>2, <4>3 DEF IInv, Typed, table
    <3>4. LockOK'
      <4>1. \A u \in Tasks \ {t} : at'[u] = at[u] BY <3>1 DEF IInv, Typed
      <4> QED BY <1>5, <3>1, <4>1 DEF IInv, LockOK, Working
    <3> QED BY <2>2, <3>1, <3>2, <3>3, <3>4 DEF IInv
  <2>5. CASE pending["trace"] = <<>>
    <3>1. Leave(t) /\ seen' = seen \cup {event[t]} BY <1>5, <2>5 DEF Resume, Finish
    <3>2. Reached(Due, event[t], Rows) BY <1>2, <2>3 DEF Reached
    <3>3. SeenOK' BY <1>1, <1>2, <1>5, <2>2, <3>1, <3>2, FinishSees DEF IInv
    <3> QED BY <1>4, <1>5, <2>2, <3>1, <3>3 DEF IInv, Working
  <2> QED BY <2>4, <2>5
<1>6. CASE at[t] = "traced"
  <2>1. /\ pending' = [pending EXCEPT !["trace"] = Rest(@, batch)]
        /\ Leave(t) /\ seen' = seen \cup {event[t]}
    BY <1>6 DEF Resume, Finish
  <2>2. pending'["store"] = pending["store"] /\ pending' \in [Sinks -> Seq(Nat)]
    <3>1. Rest(pending["trace"], batch) \in Seq(Nat) BY DEF IInv, Typed, Rest, Sinks
    <3> QED BY <2>1, <3>1 DEF IInv, Typed, Sinks
  <2>3. Due' = Due /\ Rows' = Rows /\ DueOK' /\ CursorsOK' /\ OrphansOK' BY <1>1, <2>2, Kept
  <2>4. Reached(Due, event[t], Shipped) BY <1>6 DEF IInv, HolderOK
  <2>5. Reached(Due, event[t], Rows) BY <1>2, <2>4 DEF Reached
  <2>6. SeenOK' BY <1>1, <1>2, <1>6, <2>1, <2>3, <2>5, FinishSees DEF IInv
  <2> QED BY <1>4, <1>6, <2>1, <2>2, <2>3, <2>6 DEF IInv, Working
<1> QED BY <1>5, <1>6 DEF Resume

LEMMA PruneKeeps ==
    ASSUME IInv, Prune
    PROVE  IInv'
<1>1. PICK n \in Excess .. Len(db) :
          /\ \A i \in 1 .. n : ~Contains(pending["store"], db[i]) /\ \A w \in orphans : ~Contains(w.batch, db[i])
          /\ db' = SubSeq(db, n + 1, Len(db)) /\ pruned' = pruned + n
  BY DEF Prune
<1>2. UNCHANGED <<emitted, pending, queue, at, event, batch, orphans, seen>> BY DEF Prune
<1>3. Due' = Due /\ Shipped' = Shipped BY <1>2, DueUnchanged DEF Shipped
<1>4. /\ db \in Seq(Nat) /\ Len(db) \in Nat /\ pruned \in Nat /\ Shipped \in Nat
      /\ Rows = pruned + Len(db) /\ Rows \in Nat /\ Due \in Seq(Nat) /\ Len(Due) \in Nat
      /\ pending["store"] \in Seq(Nat) /\ Len(pending["store"]) \in Nat
      /\ Shipped = Len(Due) - Len(pending["store"])
      /\ pruned <= Shipped /\ Shipped <= Rows
  BY DEF IInv, Typed, CursorsOK, DueOK, Rows, Shipped, Sinks
<1>5. n \in Nat /\ n <= Len(db) /\ pruned' = pruned + n BY <1>1, <1>4, BusAssumption DEF Excess
<1>6. db' \in Seq(Nat) /\ Len(db') = Len(db) - n /\ \A k \in 1 .. Len(db) - n : db'[k] = db[n + k]
  <2>1. PICK r : r = SubSeq(db, n + 1, Len(db)) OBVIOUS
  <2>2. r \in Seq(Nat) /\ Len(r) = Len(db) - n /\ \A k \in 1 .. Len(db) - n : r[k] = db[n + k]
    <3>1. n \in 0 .. Len(db) /\ db \in Seq(Nat) BY <1>4, <1>5
    <3> QED BY <2>1, <3>1, DropFirst
  <2>3. db' = r BY <1>1, <2>1
  <2> QED BY <2>2, <2>3
<1>7. Rows' = Rows /\ pruned' \in Nat
  <2>1. Rows' = pruned' + Len(db') BY DEF Rows
  <2> QED BY <1>4, <1>5, <1>6, <2>1
<1>8. Stretch(Due, db, pruned) /\ Stretch(Due, pending["store"], Shipped) BY DEF IInv, CursorsOK
<1>9. Stretch(Due, db', pruned')
  <2>1. pruned + Len(db) <= Len(Due) BY <1>8 DEF Stretch
  <2>2. ASSUME NEW k \in 1 .. Len(db') PROVE db'[k] = Due[pruned' + k]
    <3>1. n + k \in 1 .. Len(db) /\ k \in 1 .. Len(db) - n
      <4>1. Len(db) \in Nat /\ Len(db') = Len(db) - n BY <1>4, <1>6
      <4> QED BY <1>5, <4>1
    <3>2. db[n + k] = Due[pruned + (n + k)] BY <1>8, <3>1 DEF Stretch
    <3>3. pruned + (n + k) = pruned' + k BY <1>1, <1>4, <1>5, <3>1
    <3> QED BY <1>6, <3>1, <3>2, <3>3
  <2>3. pruned' + Len(db') <= Len(Due) BY <1>4, <1>5, <1>6, <2>1
  <2> QED BY <2>2, <2>3 DEF Stretch
\* What is removed is before everything that is pending or may be repeated.
<1>10. pruned' <= Shipped
  <2>0. PICK k : k = Shipped OBVIOUS
  <2>1. k \in Nat /\ pruned \in Nat /\ Len(db) \in Nat /\ pruned <= k BY <1>4, <2>0
  <2> SUFFICES ASSUME k < pruned + n PROVE FALSE BY <1>5, <2>0, <2>1
  <2> DEFINE i == k + 1 - pruned
  <2>2. i \in 1 .. n /\ i \in 1 .. Len(db) /\ pruned + i = k + 1 BY <1>5, <2>1
  <2> HIDE DEF i
  <2>3. db[i] = Due[k + 1] BY <1>8, <2>2 DEF Stretch
  <2>4. pruned + Len(db) <= Len(Due) BY <1>8 DEF Stretch
  <2>5. 1 \in 1 .. Len(pending["store"]) BY <1>4, <1>5, <2>0, <2>4
  <2>6. pending["store"][1] = Due[k + 1] BY <1>8, <2>0, <2>5 DEF Stretch
  <2> QED BY <1>1, <2>2, <2>3, <2>5, <2>6 DEF Contains
<1>11. OrphansOK'
  <2> SUFFICES ASSUME NEW w \in orphans, w.sink = "store"
               PROVE  Len(w.batch) > 0 /\ \E i \in pruned' .. Shipped : Stretch(Due, w.batch, i)
    BY <1>2, <1>3 DEF OrphansOK
  <2>1. Len(w.batch) > 0 BY DEF IInv, OrphansOK
  <2>2. PICK j \in pruned .. Shipped : Stretch(Due, w.batch, j) BY DEF IInv, OrphansOK
  <2>3. w.batch \in Seq(Nat) /\ Len(w.batch) \in Nat BY DEF IInv, Typed
  <2>4. pruned + n <= j
    <3> SUFFICES ASSUME j < pruned + n PROVE FALSE BY <1>4, <1>5, <2>2
    <3>1. PICK i : i = j + 1 - pruned OBVIOUS
    <3>2. i \in 1 .. n /\ i \in 1 .. Len(db) /\ pruned + i = j + 1 BY <1>4, <1>5, <2>2, <3>1
    <3>3. db[i] = Due[j + 1] BY <1>8, <3>2 DEF Stretch
    <3>4. 1 \in 1 .. Len(w.batch) BY <2>1, <2>3
    <3>5. w.batch[1] = Due[j + 1] BY <2>2, <3>4 DEF Stretch
    <3> QED BY <1>1, <3>2, <3>3, <3>4, <3>5 DEF Contains
  <2>5. j \in pruned' .. Shipped BY <1>1, <1>4, <1>5, <2>2, <2>4
  <2> QED BY <2>1, <2>2, <2>5
<1>12. CursorsOK' BY <1>2, <1>3, <1>4, <1>7, <1>8, <1>9, <1>10 DEF CursorsOK
<1>13. Typed' BY <1>2, <1>6, <1>7 DEF IInv, Typed
<1>14. DueOK' BY <1>2, <1>3 DEF IInv, DueOK
<1>15. SeenOK' BY <1>2, <1>3, <1>7 DEF IInv, SeenOK
<1>16. LockOK' /\ HolderOK' BY <1>2, <1>3, <1>4, <1>7, HolderStays
<1> QED BY <1>11, <1>12, <1>13, <1>14, <1>15, <1>16 DEF IInv

\* An event more: what is stored, pending or on its way keeps its place.
LEMMA DueGrows ==
    ASSUME IInv, NEW kind \in Kinds, emitted' = Append(emitted, kind),
           pending' = [s \in Sinks |-> IF s = "trace" \/ Durable(kind)
                                       THEN Append(pending[s], Len(emitted) + 1) ELSE pending[s]]
    PROVE  /\ Len(emitted') = Len(emitted) + 1
           /\ emitted'[Len(emitted) + 1] = kind /\ \A e \in 1 .. Len(emitted) : emitted'[e] = emitted[e]
           /\ pending' \in [Sinks -> Seq(Nat)] /\ Shipped' = Shipped
           /\ DueOK' /\ Stretch(Due', pending'["store"], Shipped)
           /\ \A s, i : i \in Nat /\ Len(s) \in Nat /\ Stretch(Due, s, i) => Stretch(Due', s, i)
           /\ \A e, n : e \in Nat /\ e <= Len(emitted) /\ Reached(Due, e, n) => Reached(Due', e, n)
<1>1. PICK m : m = Len(emitted) OBVIOUS
<1>2. emitted \in Seq(Kinds) /\ m \in Nat BY <1>1 DEF IInv, Typed
<1>3. Len(emitted') = m + 1 /\ emitted'[m + 1] = kind /\ \A e \in 1 .. m : emitted'[e] = emitted[e]
  BY <1>1, <1>2
<1>4. PICK p : p = pending["store"] OBVIOUS
<1>5. p \in Seq(Nat) /\ Len(p) \in Nat /\ pending["trace"] \in Seq(Nat) BY <1>4 DEF IInv, Typed, Sinks
<1>6. pending' \in [Sinks -> Seq(Nat)]
  <2>1. m + 1 \in Nat BY <1>2
  <2>2. Append(p, m + 1) \in Seq(Nat) /\ Append(pending["trace"], m + 1) \in Seq(Nat) BY <1>5, <2>1
  <2> QED BY <1>1, <1>4, <1>5, <2>2 DEF Sinks
<1>7. PICK d : d = Due OBVIOUS
<1>8. d \in Seq(Nat) /\ Len(d) \in Nat /\ \A q \in 1 .. Len(d) : d[q] \in 1 .. m
  BY <1>1, <1>7 DEF IInv, DueOK
<1>9. Shipped = Len(d) - Len(p) /\ Shipped \in Nat BY <1>4, <1>7 DEF IInv, CursorsOK, Shipped
<1>10. Stretch(d, p, Shipped) BY <1>4, <1>7 DEF IInv, CursorsOK
<1>11. CASE Durable(kind)
  <2>1. Due' = Append(d, m + 1) BY <1>1, <1>2, <1>7, <1>11, DueStep
  <2>2. pending'["store"] = Append(p, m + 1) BY <1>1, <1>4, <1>11 DEF Sinks
  <2>3. PICK c : c = Append(d, m + 1) OBVIOUS
  <2>4. /\ c \in Seq(Nat) /\ Len(c) = Len(d) + 1 /\ c[Len(d) + 1] = m + 1
        /\ \A q \in 1 .. Len(d) : c[q] = d[q]
    BY <1>2, <1>8, <2>3
  <2>5. PICK r : r = Append(p, m + 1) OBVIOUS
  <2>6. /\ r \in Seq(Nat) /\ Len(r) = Len(p) + 1 /\ r[Len(p) + 1] = m + 1
        /\ \A q \in 1 .. Len(p) : r[q] = p[q]
    BY <1>2, <1>5, <2>5
  <2>7. Due' = c /\ pending'["store"] = r BY <2>1, <2>2, <2>3, <2>5
  <2>8. Shipped' = Shipped
    <3>1. Shipped' = Len(c) - Len(r) BY <2>7 DEF Shipped
    <3> QED BY <1>5, <1>8, <1>9, <2>4, <2>6, <3>1
  <2>9. ASSUME NEW s, NEW i \in Nat, Len(s) \in Nat, Stretch(d, s, i) PROVE Stretch(c, s, i)
    <3>1. i + Len(s) <= Len(d) BY <2>9 DEF Stretch
    <3>2. ASSUME NEW q \in 1 .. Len(s) PROVE s[q] = c[i + q]
      <4>1. s[q] = d[i + q] BY <2>9 DEF Stretch
      <4>2. i + q \in 1 .. Len(d) BY <1>8, <2>9, <3>1
      <4> QED BY <2>4, <4>1, <4>2
    <3>3. i + Len(s) <= Len(c) BY <1>8, <2>4, <2>9, <3>1
    <3> QED BY <3>2, <3>3 DEF Stretch
  <2>10. ASSUME NEW e \in Nat, NEW n, e <= m, Reached(d, e, n) PROVE Reached(c, e, n)
    <3> SUFFICES ASSUME NEW q \in 1 .. Len(c), c[q] <= e PROVE q <= n BY DEF Reached
    <3>1. q # Len(d) + 1 BY <1>2, <2>4, <2>10
    <3>2. q \in 1 .. Len(d) /\ d[q] = c[q] BY <1>8, <2>4, <3>1
    <3> QED BY <2>10, <3>2 DEF Reached
  <2>11. Stretch(c, r, Shipped)
    <3>1. Shipped + Len(r) <= Len(c) BY <1>5, <1>8, <1>9, <2>4, <2>6
    <3>2. ASSUME NEW q \in 1 .. Len(r) PROVE r[q] = c[Shipped + q]
      <4>1. CASE q = Len(p) + 1 BY <1>5, <1>8, <1>9, <2>4, <2>6, <4>1
      <4>2. CASE q # Len(p) + 1
        <5>1. q \in 1 .. Len(p) BY <1>5, <2>6, <4>2
        <5>2. r[q] = d[Shipped + q] BY <1>10, <2>6, <5>1 DEF Stretch
        <5>3. Shipped + q \in 1 .. Len(d) BY <1>5, <1>8, <1>9, <5>1
        <5> QED BY <2>4, <5>2, <5>3
      <4> QED BY <4>1, <4>2
    <3> QED BY <3>1, <3>2 DEF Stretch
  <2>12. DueOK'
    <3>1. \A q \in 1 .. Len(c) : c[q] \in 1 .. m + 1
      <4> SUFFICES ASSUME NEW q \in 1 .. Len(c) PROVE c[q] \in 1 .. m + 1 OBVIOUS
      <4>1. CASE q = Len(d) + 1 BY <1>2, <2>4, <4>1
      <4>2. CASE q # Len(d) + 1
        <5>1. q \in 1 .. Len(d) BY <1>8, <2>4, <4>2
        <5>2. c[q] \in 1 .. m BY <1>8, <2>4, <5>1
        <5> QED BY <1>2, <5>2
      <4> QED BY <4>1, <4>2
    <3>2. ASSUME NEW q \in 1 .. Len(c), NEW k \in 1 .. Len(c), q < k PROVE c[q] < c[k]
      <4>1. q \in 1 .. Len(d) BY <1>8, <2>4, <3>2
      <4>2. CASE k = Len(d) + 1
        <5>1. c[q] \in 1 .. m BY <1>8, <2>4, <4>1
        <5> QED BY <1>2, <2>4, <4>2, <5>1
      <4>3. CASE k # Len(d) + 1
        <5>1. k \in 1 .. Len(d) BY <1>8, <2>4, <4>3
        <5>2. d[q] < d[k] BY <1>7, <3>2, <4>1, <5>1 DEF IInv, DueOK
        <5> QED BY <2>4, <4>1, <5>1, <5>2
      <4> QED BY <4>2, <4>3
    <3>3. ASSUME NEW e \in 1 .. m + 1, Durable(emitted'[e]) PROVE \E q \in 1 .. Len(c) : c[q] = e
      <4>1. CASE e = m + 1
        <5>1. Len(d) + 1 \in 1 .. Len(c) BY <1>8, <2>4
        <5> QED BY <2>4, <4>1, <5>1
      <4>2. CASE e # m + 1
        <5>1. e \in 1 .. m BY <1>2, <4>2
        <5>2. Durable(emitted[e]) BY <1>3, <3>3, <5>1
        <5>3. PICK q \in 1 .. Len(d) : d[q] = e BY <1>1, <1>7, <5>1, <5>2 DEF IInv, DueOK
        <5>4. q \in 1 .. Len(c) /\ c[q] = e BY <1>8, <2>4, <5>3
        <5> QED BY <5>4
      <4> QED BY <4>1, <4>2
    <3> QED BY <1>3, <2>4, <2>7, <3>1, <3>2, <3>3 DEF DueOK
  <2> QED BY <1>1, <1>3, <1>6, <1>7, <2>7, <2>8, <2>9, <2>10, <2>11, <2>12
<1>12. CASE ~Durable(kind)
  <2>1. Due' = d BY <1>2, <1>7, <1>12, DueStep
  <2>2. pending'["store"] = p BY <1>4, <1>12 DEF Sinks
  <2>3. Shipped' = Shipped BY <1>4, <1>7, <2>1, <2>2 DEF Shipped
  <2>4. DueOK'
    <3>1. \A q \in 1 .. Len(d) : d[q] \in 1 .. m + 1
      <4> SUFFICES ASSUME NEW q \in 1 .. Len(d) PROVE d[q] \in 1 .. m + 1 OBVIOUS
      <4>1. d[q] \in 1 .. m BY <1>8
      <4> QED BY <1>2, <4>1
    <3>2. \A q, k \in 1 .. Len(d) : q < k => d[q] < d[k] BY <1>7 DEF IInv, DueOK
    <3>3. ASSUME NEW e \in 1 .. m + 1, Durable(emitted'[e]) PROVE \E q \in 1 .. Len(d) : d[q] = e
      <4>1. e # m + 1 BY <1>3, <1>12, <3>3
      <4>2. e \in 1 .. m BY <1>2, <4>1
      <4>3. Durable(emitted[e]) BY <1>3, <3>3, <4>2
      <4> QED BY <1>1, <1>7, <4>2, <4>3 DEF IInv, DueOK
    <3> QED BY <1>3, <1>8, <2>1, <3>1, <3>2, <3>3 DEF DueOK
  <2> QED BY <1>1, <1>3, <1>6, <1>7, <1>10, <2>1, <2>2, <2>3, <2>4
<1> QED BY <1>11, <1>12

LEMMA EmitKeeps ==
    ASSUME IInv, NEW t \in Tasks, NEW kind \in Kinds, Emit(t, kind)
    PROVE  IInv'
<1>1. PICK e : e = Len(emitted) + 1 OBVIOUS
<1>2. PICK p : p = [s \in Sinks |-> IF s = "trace" \/ Durable(kind) THEN Append(pending[s], e) ELSE pending[s]]
  OBVIOUS
<1>3. /\ at[t] = "idle" /\ emitted' = Append(emitted, kind) /\ pending' = p
      /\ \/ kind = "delta" /\ seen' = seen \cup {e} /\ UNCHANGED <<at, event, batch, queue>>
         \/ /\ event' = [event EXCEPT ![t] = e] /\ queue = <<>> /\ Submit(t, <<t>>, p, FirstSink(p))
         \/ /\ event' = [event EXCEPT ![t] = e] /\ queue # <<>> /\ queue' = Append(queue, t)
            /\ at' = [at EXCEPT ![t] = "locking"] /\ UNCHANGED <<batch, seen>>
      /\ UNCHANGED <<table, orphans>>
  BY <1>1, <1>2 DEF Emit
<1>4. /\ Len(emitted') = e /\ emitted'[e] = kind /\ \A x \in 1 .. Len(emitted) : emitted'[x] = emitted[x]
      /\ p \in [Sinks -> Seq(Nat)] /\ Shipped' = Shipped
      /\ DueOK' /\ Stretch(Due', pending'["store"], Shipped)
      /\ \A s, i : i \in Nat /\ Len(s) \in Nat /\ Stretch(Due, s, i) => Stretch(Due', s, i)
      /\ \A x, n : x \in Nat /\ x <= Len(emitted) /\ Reached(Due, x, n) => Reached(Due', x, n)
  BY <1>1, <1>2, <1>3, DueGrows
<1>5. /\ emitted \in Seq(Kinds) /\ Len(emitted) \in Nat /\ e \in Nat /\ emitted' \in Seq(Kinds)
      /\ pruned' = pruned /\ db' = db /\ Rows' = Rows /\ pruned \in Nat /\ db \in Seq(Nat)
      /\ Shipped \in Nat /\ Rows \in Nat /\ at \in [Tasks -> Places] /\ event \in [Tasks -> Nat]
  BY <1>1, <1>3 DEF IInv, Typed, CursorsOK, Rows, table
<1>6. CursorsOK'
  <2>1. Stretch(Due', db', pruned')
    <3>1. Stretch(Due, db, pruned) BY DEF IInv, CursorsOK
    <3>2. Len(db) \in Nat /\ pruned \in Nat BY <1>5
    <3>3. Stretch(Due', db, pruned) BY <1>4, <3>1, <3>2
    <3> QED BY <1>5, <3>3
  <2> QED BY <1>4, <1>5, <2>1 DEF IInv, CursorsOK
<1>7. OrphansOK'
  <2> SUFFICES ASSUME NEW w \in orphans, w.sink = "store"
               PROVE  Len(w.batch) > 0 /\ \E i \in pruned .. Shipped : Stretch(Due', w.batch, i)
    BY <1>3, <1>4, <1>5 DEF OrphansOK
  <2>1. PICK i \in pruned .. Shipped : Stretch(Due, w.batch, i) BY DEF IInv, OrphansOK
  <2>2. Len(w.batch) > 0 /\ Len(w.batch) \in Nat BY DEF IInv, OrphansOK, Typed
  <2>3. Stretch(Due', w.batch, i) BY <1>4, <1>5, <2>1, <2>2
  <2> QED BY <2>2, <2>3
<1>8. ASSUME NEW x \in seen
      PROVE  x \in 1 .. Len(emitted') /\ (emitted'[x] = "event" => Reached(Due', x, Rows'))
  <2>1. x \in 1 .. Len(emitted) /\ (emitted[x] = "event" => Reached(Due, x, Rows)) BY DEF IInv, SeenOK
  <2>2. emitted'[x] = emitted[x] /\ x \in Nat /\ x <= Len(emitted) BY <1>4, <2>1
  <2>3. x \in 1 .. Len(emitted') BY <1>1, <1>4, <1>5, <2>1
  <2> QED BY <1>4, <1>5, <2>1, <2>2, <2>3
\* Who has a thread keeps what it has.
<1>9. ASSUME batch' = batch,
             \A u \in Tasks : at'[u] \in Working => at'[u] = at[u] /\ event'[u] = event[u]
      PROVE  HolderOK'
  <2> SUFFICES ASSUME NEW u \in Tasks, at'[u] \in Working
               PROVE  /\ at'[u] \in {"store", "stored"} =>
                            /\ Len(batch') > 0 /\ Stretch(Due', batch', Shipped')
                            /\ Reached(Due', event'[u], Shipped' + Len(batch'))
                      /\ at'[u] = "stored" => Shipped' + Len(batch') <= Rows'
                      /\ at'[u] \in {"trace", "traced"} => Reached(Due', event'[u], Shipped')
    BY DEF HolderOK, Working
  <2>1. at'[u] = at[u] /\ event'[u] = event[u] BY <1>9
  <2>2. event[u] \in Nat /\ event[u] <= Len(emitted) /\ Len(batch) \in Nat BY DEF IInv, Typed
  <2>3. CASE at[u] \in {"store", "stored"}
    <3>1. /\ Len(batch) > 0 /\ Stretch(Due, batch, Shipped) /\ Reached(Due, event[u], Shipped + Len(batch))
          /\ at[u] = "stored" => Shipped + Len(batch) <= Rows
      BY <2>3 DEF IInv, HolderOK
    <3>2. Stretch(Due', batch, Shipped) /\ Reached(Due', event[u], Shipped + Len(batch))
      BY <1>4, <1>5, <2>2, <3>1
    <3> QED BY <1>4, <1>5, <1>9, <2>1, <2>3, <3>1, <3>2
  <2>4. CASE at[u] \in {"trace", "traced"}
    <3>1. Reached(Due, event[u], Shipped) BY <2>4 DEF IInv, HolderOK
    <3>2. Reached(Due', event[u], Shipped) BY <1>4, <2>2, <3>1
    <3> QED BY <1>4, <2>1, <2>4, <3>2
  <2> QED BY <2>1, <2>3, <2>4 DEF Working
<1>10. ASSUME event' = event \/ event' = [event EXCEPT ![t] = e],
              at' \in [Tasks -> Places], \A u \in Tasks : at'[u] # "idle" => at[u] # "idle" \/ (u = t /\ event'[t] = e)
       PROVE  /\ event' \in [Tasks -> Nat]
              /\ \A u \in Tasks : event'[u] <= Len(emitted') /\ (at'[u] # "idle" => event'[u] > 0)
  <2>1. event' \in [Tasks -> Nat] BY <1>5, <1>10
  <2>2. ASSUME NEW u \in Tasks PROVE event'[u] <= Len(emitted') /\ (at'[u] # "idle" => event'[u] > 0)
    <3>1. event'[u] = event[u] \/ (u = t /\ event'[u] = e) BY <1>5, <1>10
    <3>2. event[u] \in Nat /\ event[u] <= Len(emitted) /\ (at[u] # "idle" => event[u] > 0) BY DEF IInv, Typed
    <3>3. e > 0 BY <1>1, <1>5
    <3>4. at'[u] # "idle" => at[u] # "idle" \/ event'[u] = e BY <1>10
    <3> QED BY <1>1, <1>4, <1>5, <3>1, <3>2, <3>3, <3>4
  <2> QED BY <2>1, <2>2
<1>11. CASE kind = "delta" /\ seen' = seen \cup {e} /\ UNCHANGED <<at, event, batch, queue>>
  <2>1. SeenOK' BY <1>1, <1>4, <1>5, <1>8, <1>11 DEF SeenOK
  <2>2. HolderOK' BY <1>9, <1>11
  <2>3. LockOK' BY <1>11 DEF IInv, LockOK
  <2>4. Typed' BY <1>3, <1>4, <1>5, <1>10, <1>11 DEF IInv, Typed
  <2> QED BY <1>4, <1>6, <1>7, <2>1, <2>2, <2>3, <2>4 DEF IInv
<1>12. CASE event' = [event EXCEPT ![t] = e] /\ queue = <<>> /\ Submit(t, <<t>>, p, FirstSink(p))
  <2> DEFINE sink == FirstSink(p)
  <2>1. /\ at' = [at EXCEPT ![t] = sink] /\ batch' = p[sink] /\ queue' = <<t>> /\ seen' = seen
    BY <1>12 DEF Submit
  <2>2. /\ sink \in Sinks
        /\ sink = "store" => p["store"] # <<>>
        /\ sink = "trace" => p["store"] = <<>>
    BY DEF FirstSink, Sinks
  <2> HIDE DEF sink
  <2>3. \A u \in Tasks : at[u] = "idle" BY <1>12 DEF IInv, LockOK
  <2>4. HolderOK'
    <3>1. \A u \in Tasks \ {t} : ~(at[u] \in Working) BY <2>3 DEF Working
    <3> QED BY <1>3, <1>4, <1>6, <2>1, <2>2, <3>1, SubmitStarts DEF IInv
  <2>5. LockOK'
    <3>1. \A u \in Tasks \ {t} : at'[u] = "idle" BY <1>5, <2>1, <2>3
    <3>2. Len(<<t>>) = 1 /\ <<t>>[1] = t /\ Head(<<t>>) = t OBVIOUS
    <3> QED BY <2>1, <3>1, <3>2 DEF LockOK, Working
  <2>6. Typed'
    <3>1. at' \in [Tasks -> Places] BY <1>5, <2>1, <2>2 DEF Places
    <3>2. batch' \in Seq(Nat) BY <1>4, <2>1, <2>2
    <3>3. queue' \in Seq(Tasks) BY <2>1
    <3>4. /\ event' \in [Tasks -> Nat]
          /\ \A u \in Tasks : event'[u] <= Len(emitted') /\ (at'[u] # "idle" => event'[u] > 0)
      <4>1. event'[t] = e BY <1>5, <1>12
      <4>2. \A u \in Tasks : u # t => at'[u] = at[u] BY <1>5, <2>1
      <4> QED BY <1>10, <1>12, <3>1, <4>1, <4>2
    <3> QED BY <1>3, <1>4, <1>5, <3>1, <3>2, <3>3, <3>4 DEF IInv, Typed
  <2>7. SeenOK' BY <1>8, <2>1 DEF SeenOK
  <2> QED BY <1>4, <1>6, <1>7, <2>4, <2>5, <2>6, <2>7 DEF IInv
<1>13. CASE /\ event' = [event EXCEPT ![t] = e] /\ queue # <<>> /\ queue' = Append(queue, t)
            /\ at' = [at EXCEPT ![t] = "locking"] /\ UNCHANGED <<batch, seen>>
  <2>1. /\ at'[t] = "locking" /\ event'[t] = e
        /\ \A u \in Tasks \ {t} : at'[u] = at[u] /\ event'[u] = event[u]
    BY <1>5, <1>13
  <2>2. HolderOK'
    <3>1. \A u \in Tasks : at'[u] \in Working => u # t BY <2>1 DEF Working
    <3> QED BY <1>9, <1>13, <2>1, <3>1
  <2>3. LockOK'
    <3>1. PICK q : q = queue OBVIOUS
    <3>2. q \in Seq(Tasks) /\ Len(q) \in Nat BY <3>1 DEF IInv, Typed
    <3>3. PICK r : r = Append(q, t) OBVIOUS
    <3>4. /\ Len(r) = Len(q) + 1 /\ r[Len(q) + 1] = t /\ \A i \in 1 .. Len(q) : r[i] = q[i]
          /\ r # <<>> /\ Head(r) = r[1]
      BY <3>2, <3>3
    <3>5. Len(q) > 0 /\ Head(q) = q[1] BY <1>13, <3>1, <3>2
    <3>6. Head(r) = Head(q) BY <3>2, <3>4, <3>5
    <3>7. ASSUME NEW u \in Tasks, at'[u] # "idle" PROVE \E i \in 1 .. Len(r) : r[i] = u
      <4>1. CASE u = t
        <5>1. Len(q) + 1 \in 1 .. Len(r) BY <3>2, <3>4
        <5> QED BY <3>4, <4>1, <5>1
      <4>2. CASE u # t
        <5>1. PICK i \in 1 .. Len(q) : q[i] = u BY <2>1, <3>1, <3>7, <4>2 DEF IInv, LockOK
        <5>2. i \in 1 .. Len(r) BY <3>2, <3>4
        <5> QED BY <3>4, <5>1, <5>2
      <4> QED BY <4>1, <4>2
    <3>8. ASSUME NEW u \in Tasks, at'[u] \in Working PROVE Head(r) = u
      <4>1. u # t BY <2>1, <3>8 DEF Working
      <4> QED BY <2>1, <3>1, <3>6, <3>8, <4>1 DEF IInv, LockOK
    <3>9. queue' = r BY <1>13, <3>1, <3>3
    <3> QED BY <3>7, <3>8, <3>9 DEF LockOK
  <2>4. Typed'
    <3>1. at' \in [Tasks -> Places] BY <1>5, <1>13 DEF Places
    <3>2. queue' \in Seq(Tasks) BY <1>13 DEF IInv, Typed
    <3>3. /\ event' \in [Tasks -> Nat]
          /\ \A u \in Tasks : event'[u] <= Len(emitted') /\ (at'[u] # "idle" => event'[u] > 0)
      BY <1>10, <1>13, <2>1, <3>1
    <3> QED BY <1>3, <1>4, <1>5, <1>13, <3>1, <3>2, <3>3 DEF IInv, Typed
  <2>5. SeenOK' BY <1>8, <1>13 DEF SeenOK
  <2> QED BY <1>4, <1>6, <1>7, <2>2, <2>3, <2>4, <2>5 DEF IInv
<1> QED BY <1>3, <1>11, <1>12, <1>13

LEMMA NextKeeps == IInv /\ [Next]_vars => IInv'
<1> SUFFICES ASSUME IInv, [Next]_vars PROVE IInv' OBVIOUS
<1>1. CASE Quiet \/ UNCHANGED vars BY <1>1, StutterKeeps DEF Quiet, vars
<1>2. ASSUME NEW t \in Tasks, Step(t) PROVE IInv'
  BY <1>2, TakeLockKeeps, StoredKeeps, TracedKeeps, SinkFailsKeeps, ResumeKeeps DEF Step
<1>3. ASSUME NEW t \in Tasks, Cancel(t) PROVE IInv' BY <1>3, CancelKeeps
<1>4. ASSUME NEW t \in Tasks, NEW kind \in Kinds, Emit(t, kind) PROVE IInv' BY <1>4, EmitKeeps
<1>5. ASSUME NEW w \in orphans, LateWrite(w) PROVE IInv' BY <1>5, LateWriteKeeps
<1>6. CASE Prune BY <1>6, PruneKeeps
<1>7. CASE Repack BY <1>7, StutterKeeps DEF Repack
<1> QED BY <1>1, <1>2, <1>3, <1>4, <1>5, <1>6, <1>7 DEF Next

-----------------------------------------------------------------------------
(* What the invariant is for                                                *)

\* The table, with what has been removed from it, is the beginning of what is due.
LEMMA TableIs ==
    ASSUME IInv
    PROVE  /\ Removed \o db \in Seq(Nat) /\ Len(Removed \o db) = Rows /\ Rows <= Len(Due)
           /\ \A p \in 1 .. Rows : (Removed \o db)[p] = Due[p]
<1>1. /\ Due \in Seq(Nat) /\ Len(Due) \in Nat /\ db \in Seq(Nat) /\ Len(db) \in Nat
      /\ pruned \in Nat /\ Rows = pruned + Len(db)
  BY DEF IInv, DueOK, Typed, Rows
<1>2. pruned + Len(db) <= Len(Due) /\ \A p \in 1 .. Len(db) : db[p] = Due[pruned + p]
  BY DEF IInv, CursorsOK, Stretch
<1>3. PICK r : r = Removed OBVIOUS
<1>4. r \in Seq(Nat) /\ Len(r) = pruned /\ \A p \in 1 .. pruned : r[p] = Due[p]
  <2>1. PICK d : d = Due OBVIOUS
  <2>2. r = SubSeq(d, 1, pruned) BY <1>3, <2>1 DEF Removed
  <2> QED BY <1>1, <1>2, <2>1, <2>2
<1>5. PICK s : s = r \o db OBVIOUS
<1>6. /\ s \in Seq(Nat) /\ Len(s) = pruned + Len(db)
      /\ \A i \in 1 .. pruned + Len(db) : s[i] = IF i <= pruned THEN r[i] ELSE db[i - pruned]
  BY <1>1, <1>4, <1>5, ConcatProperties
<1>7. ASSUME NEW p \in 1 .. Rows PROVE s[p] = Due[p]
  <2>1. CASE p <= pruned BY <1>1, <1>4, <1>6, <1>7, <2>1
  <2>2. CASE p > pruned
    <3>1. p - pruned \in 1 .. Len(db) /\ pruned + (p - pruned) = p BY <1>1, <1>7, <2>2
    <3>2. db[p - pruned] = Due[p] BY <1>2, <3>1
    <3> QED BY <1>1, <1>6, <1>7, <2>2, <3>2
  <2> QED BY <1>1, <1>7, <2>1, <2>2
<1> QED BY <1>1, <1>2, <1>3, <1>5, <1>6, <1>7

\* s is r without its first c elements.
Dropped(s, r, c) ==
    /\ s \in Seq(Nat) /\ c \in Nat /\ Len(s) + c = Len(r)
    /\ \A m \in 1 .. Len(s) : s[m] = r[c + m]

EndOf(r, w) == \E c \in 0 .. Len(w) : Dropped(r, w, c)

LEMMA FirstOf ==
    ASSUME NEW s \in Seq(Nat), NEW n \in 0 .. Len(s), NEW u, u = SubSeq(s, 1, n)
    PROVE  u \in Seq(Nat) /\ Len(u) = n /\ \A i \in 1 .. n : u[i] = s[i]
<1>1. n \in Nat /\ n <= Len(s) /\ Len(s) \in Nat OBVIOUS
<1> QED BY <1>1

LEMMA EndIsSuffix ==
    ASSUME NEW d \in Seq(Nat), NEW p, EndOf(p, d)
    PROVE  IsSuffix(p, d)
<1>1. PICK c \in 0 .. Len(d) : Dropped(p, d, c) BY DEF EndOf
<1>2. /\ p \in Seq(Nat) /\ Len(p) \in Nat /\ Len(d) \in Nat /\ c \in Nat /\ Len(p) + c = Len(d)
      /\ \A i \in 1 .. Len(p) : p[i] = d[c + i]
  BY <1>1 DEF Dropped
<1>3. Len(p) <= Len(d) BY <1>2
<1>4. PICK rp : rp = Reverse(p) OBVIOUS
<1>5. PICK rd : rd = Reverse(d) OBVIOUS
<1>6. rp \in Seq(Nat) /\ Len(rp) = Len(p) /\ \A i \in 1 .. Len(p) : rp[i] = p[(Len(p) - i) + 1]
  <2>1. p \in Seq(Nat) /\ Len(p) \in Nat BY <1>2
  <2> QED BY <1>4, <2>1 DEF Reverse
<1>7. rd \in Seq(Nat) /\ Len(rd) = Len(d) /\ \A i \in 1 .. Len(d) : rd[i] = d[(Len(d) - i) + 1]
  <2>1. d \in Seq(Nat) /\ Len(d) \in Nat BY <1>2
  <2> QED BY <1>5, <2>1 DEF Reverse
<1>8. ASSUME NEW i \in 1 .. Len(p) PROVE rp[i] = rd[i]
  <2>1. (Len(p) - i) + 1 \in 1 .. Len(p) /\ i \in 1 .. Len(d) BY <1>2, <1>3
  <2>2. p[(Len(p) - i) + 1] = d[c + ((Len(p) - i) + 1)] BY <1>2, <2>1
  <2>3. c + ((Len(p) - i) + 1) = (Len(d) - i) + 1
    <3>1. c \in Nat /\ Len(p) \in Nat /\ i \in Nat /\ Len(p) + c = Len(d) BY <1>2
    <3> QED BY <3>1
  <2> QED BY <1>6, <1>7, <2>1, <2>2, <2>3
<1>9. PICK n : n = Len(p) OBVIOUS
<1>10. n \in 0 .. Len(rp) /\ n \in 0 .. Len(rd) /\ n = Len(rp) BY <1>2, <1>3, <1>6, <1>7, <1>9
<1>11. PICK u : u = SubSeq(rp, 1, n) OBVIOUS
<1>12. PICK v : v = SubSeq(rd, 1, n) OBVIOUS
<1>13. u \in Seq(Nat) /\ Len(u) = n /\ \A i \in 1 .. n : u[i] = rp[i] BY <1>6, <1>10, <1>11, FirstOf
<1>14. v \in Seq(Nat) /\ Len(v) = n /\ \A i \in 1 .. n : v[i] = rd[i] BY <1>7, <1>10, <1>12, FirstOf
<1>15. u = v BY <1>8, <1>9, <1>13, <1>14, SeqEqual
<1> QED BY <1>3, <1>4, <1>5, <1>6, <1>7, <1>10, <1>11, <1>12, <1>15 DEF IsSuffix, IsPrefix

LEMMA OrderFollows == IInv => StoredInOrder
<1> SUFFICES ASSUME IInv PROVE StoredInOrder OBVIOUS
<1>1. PICK d : d = Due OBVIOUS
<1>2. PICK s : s = Removed \o db OBVIOUS
<1>3. PICK p : p = pending["store"] OBVIOUS
<1>4. d \in Seq(Nat) /\ Len(d) \in Nat /\ p \in Seq(Nat) /\ Len(p) \in Nat
  BY <1>1, <1>3 DEF IInv, DueOK, Typed, Sinks
<1>5. /\ s \in Seq(Nat) /\ Len(s) = Rows /\ Rows \in Nat /\ Rows <= Len(d)
      /\ \A i \in 1 .. Rows : s[i] = d[i]
  BY <1>1, <1>2, TableIs DEF IInv, Typed, Rows
<1>6. IsPrefix(s, d)
  <2>0. PICK n : n = Rows OBVIOUS
  <2>1. PICK u : u = SubSeq(s, 1, n) OBVIOUS
  <2>2. PICK v : v = SubSeq(d, 1, n) OBVIOUS
  <2>6. n \in 0 .. Len(s) /\ n \in 0 .. Len(d) /\ n = Len(s) BY <1>4, <1>5, <2>0
  <2>3. u \in Seq(Nat) /\ Len(u) = n /\ \A i \in 1 .. n : u[i] = s[i] BY <1>5, <2>1, <2>6, FirstOf
  <2>4. v \in Seq(Nat) /\ Len(v) = n /\ \A i \in 1 .. n : v[i] = d[i] BY <1>4, <2>2, <2>6, FirstOf
  <2>5. u = v BY <1>5, <2>0, <2>3, <2>4, SeqEqual
  <2> QED BY <1>5, <2>1, <2>2, <2>5, <2>6 DEF IsPrefix
<1>7. /\ Shipped = Len(d) - Len(p) /\ Shipped \in Nat /\ Shipped <= Rows
      /\ \A i \in 1 .. Len(p) : p[i] = d[Shipped + i]
  BY <1>1, <1>3 DEF IInv, CursorsOK, Shipped, Stretch
<1>8. IsSuffix(p, d)
  <2>1. Shipped \in 0 .. Len(d) /\ Len(p) + Shipped = Len(d) BY <1>4, <1>7
  <2>2. Dropped(p, d, Shipped) BY <1>4, <1>7, <2>1 DEF Dropped
  <2>3. EndOf(p, d) BY <2>1, <2>2 DEF EndOf
  <2> QED BY <1>4, <2>3, EndIsSuffix
<1>9. pruned + Len(db) + Len(p) >= Len(d) BY <1>4, <1>5, <1>7 DEF Rows, IInv, Typed
<1> QED BY <1>1, <1>2, <1>3, <1>6, <1>8, <1>9 DEF StoredInOrder

LEMMA SeenFollows == IInv => ObservedIsStored
<1> SUFFICES ASSUME IInv, NEW e \in seen, emitted[e] = "event", NEW i \in 1 .. e, Durable(emitted[i])
             PROVE  Contains(Removed \o db, i)
  BY DEF ObservedIsStored
<1>1. e \in 1 .. Len(emitted) /\ Reached(Due, e, Rows) BY DEF IInv, SeenOK
<1>2. Len(emitted) \in Nat /\ Rows \in Nat /\ Len(Due) \in Nat BY DEF IInv, Typed, Rows, DueOK
<1>3. i \in 1 .. Len(emitted) /\ i <= e BY <1>1, <1>2
<1>4. PICK p \in 1 .. Len(Due) : Due[p] = i BY <1>3 DEF IInv, DueOK
<1>5. p \in 1 .. Rows BY <1>1, <1>2, <1>3, <1>4 DEF Reached
<1>6. (Removed \o db)[p] = i /\ p \in 1 .. Len(Removed \o db) BY <1>4, <1>5, TableIs
<1> QED BY <1>6 DEF Contains

\* "A failed event batch stays queued in order" (docs/ARCHITECTURE.md): whatever is
\* cancelled, fails or is pruned, the events table is a gapless range of what was to
\* be stored, and what is not in it is pending (StoredInOrder).
THEOREM TableInOrder == Spec => []StoredInOrder
BY InitHolds, NextKeeps, OrderFollows, PTL DEF Spec

\* An observer is told of an event only when it and all before it have been stored
\* (ObservedIsStored).
THEOREM ObserversAreSafe == Spec => []ObservedIsStored
BY InitHolds, NextKeeps, SeenFollows, PTL DEF Spec

-----------------------------------------------------------------------------
(* Concatenations                                                           *)

\* What the elements of a concatenation are.
LEMMA Joined ==
    ASSUME NEW T, NEW s \in Seq(T), NEW u \in Seq(T), NEW r, r = s \o u
    PROVE  /\ r \in Seq(T) /\ Len(r) = Len(s) + Len(u)
           /\ \A i \in 1 .. Len(s) : r[i] = s[i]
           /\ \A i \in 1 .. Len(u) : r[Len(s) + i] = u[i]
<1>1. Len(s) \in Nat /\ Len(u) \in Nat OBVIOUS
<1>2. /\ r \in Seq(T) /\ Len(r) = Len(s) + Len(u)
      /\ \A i \in 1 .. Len(s) + Len(u) : r[i] = IF i <= Len(s) THEN s[i] ELSE u[i - Len(s)]
  BY ConcatProperties
<1>3. ASSUME NEW i \in 1 .. Len(s) PROVE r[i] = s[i]
  <2>1. i \in 1 .. Len(s) + Len(u) /\ i <= Len(s) BY <1>1
  <2> QED BY <1>2, <2>1
<1>4. ASSUME NEW i \in 1 .. Len(u) PROVE r[Len(s) + i] = u[i]
  <2>1. Len(s) + i \in 1 .. Len(s) + Len(u) /\ ~(Len(s) + i <= Len(s)) /\ (Len(s) + i) - Len(s) = i
    BY <1>1
  <2> QED BY <1>2, <2>1
<1> QED BY <1>2, <1>3, <1>4

LEMMA JoinedAgain ==
    ASSUME NEW s \in Seq(Nat), NEW u \in Seq(Nat), NEW v \in Seq(Nat)
    PROVE  s \o (u \o v) = (s \o u) \o v
<1>1. PICK uv : uv = u \o v OBVIOUS
<1>2. PICK su : su = s \o u OBVIOUS
<1>3. PICK a : a = s \o uv OBVIOUS
<1>4. PICK b : b = su \o v OBVIOUS
<1>5. Len(s) \in Nat /\ Len(u) \in Nat /\ Len(v) \in Nat OBVIOUS
<1>6. /\ uv \in Seq(Nat) /\ Len(uv) = Len(u) + Len(v)
      /\ \A i \in 1 .. Len(u) : uv[i] = u[i]
      /\ \A i \in 1 .. Len(v) : uv[Len(u) + i] = v[i]
  BY <1>1, Joined
<1>7. /\ su \in Seq(Nat) /\ Len(su) = Len(s) + Len(u)
      /\ \A i \in 1 .. Len(s) : su[i] = s[i]
      /\ \A i \in 1 .. Len(u) : su[Len(s) + i] = u[i]
  BY <1>2, Joined
<1>8. /\ a \in Seq(Nat) /\ Len(a) = Len(s) + Len(uv)
      /\ \A i \in 1 .. Len(s) : a[i] = s[i]
      /\ \A i \in 1 .. Len(uv) : a[Len(s) + i] = uv[i]
  <2>1. uv \in Seq(Nat) BY <1>6
  <2> QED BY <1>3, <2>1, Joined
<1>9. /\ b \in Seq(Nat) /\ Len(b) = Len(su) + Len(v)
      /\ \A i \in 1 .. Len(su) : b[i] = su[i]
      /\ \A i \in 1 .. Len(v) : b[Len(su) + i] = v[i]
  <2>1. su \in Seq(Nat) BY <1>7
  <2> QED BY <1>4, <2>1, Joined
<1>10. Len(a) = Len(b) BY <1>5, <1>6, <1>7, <1>8, <1>9
<1>11. ASSUME NEW i \in 1 .. Len(a) PROVE a[i] = b[i]
  <2>1. CASE i <= Len(s)
    <3>1. i \in 1 .. Len(s) /\ i \in 1 .. Len(su) BY <1>5, <1>7, <2>1
    <3> QED BY <1>7, <1>8, <1>9, <3>1
  <2>2. CASE i > Len(s) /\ i <= Len(s) + Len(u)
    <3>1. PICK k : k = i - Len(s) OBVIOUS
    <3>2. k \in 1 .. Len(u) /\ k \in 1 .. Len(uv) /\ i = Len(s) + k /\ i \in 1 .. Len(su)
      <4>1. PICK x, y, z : x = Len(s) /\ y = Len(u) /\ z = Len(v) OBVIOUS
      <4>2. /\ x \in Nat /\ y \in Nat /\ z \in Nat /\ Len(uv) = y + z /\ Len(su) = x + y
            /\ i \in Nat /\ k = i - x /\ i > x /\ i <= x + y
        BY <1>5, <1>6, <1>7, <1>8, <2>2, <3>1, <4>1
      <4>3. k \in 1 .. y /\ k \in 1 .. y + z /\ i = x + k /\ i \in 1 .. x + y BY <4>2
      <4> QED BY <4>1, <4>2, <4>3
    <3>3. a[i] = uv[k] /\ uv[k] = u[k] BY <1>6, <1>8, <3>2
    <3>4. b[i] = su[i] /\ su[i] = u[k] BY <1>7, <1>9, <3>2
    <3> QED BY <3>3, <3>4
  <2>3. CASE i > Len(s) + Len(u)
    <3>1. PICK k : k = i - (Len(s) + Len(u)) OBVIOUS
    <3>2. /\ k \in 1 .. Len(v) /\ Len(u) + k \in 1 .. Len(uv)
          /\ i = Len(s) + (Len(u) + k) /\ i = Len(su) + k
      <4>1. PICK x, y, z : x = Len(s) /\ y = Len(u) /\ z = Len(v) OBVIOUS
      <4>2. /\ x \in Nat /\ y \in Nat /\ z \in Nat /\ Len(uv) = y + z /\ Len(su) = x + y /\ Len(a) = x + (y + z)
            /\ i \in 1 .. Len(a) /\ k = i - (x + y) /\ i > x + y
        BY <1>5, <1>6, <1>7, <1>8, <2>3, <3>1, <4>1
      <4>3. k \in 1 .. z /\ y + k \in 1 .. y + z /\ i = x + (y + k) /\ i = (x + y) + k BY <4>2
      <4> QED BY <4>1, <4>2, <4>3
    <3>3. a[i] = uv[Len(u) + k] BY <1>8, <3>2
    <3>4. uv[Len(u) + k] = v[k] BY <1>6, <3>2
    <3>5. b[i] = v[k] BY <1>9, <3>2
    <3> QED BY <3>3, <3>4, <3>5
  <2>4. i \in Nat /\ Len(s) + Len(u) \in Nat BY <1>5, <1>6, <1>8
  <2> QED BY <1>5, <2>1, <2>2, <2>3, <2>4
<1>12. a = b BY <1>8, <1>9, <1>10, <1>11, SeqEqual
<1> QED BY <1>1, <1>2, <1>3, <1>4, <1>12

LEMMA JoinedEmpty ==
    ASSUME NEW T, NEW s \in Seq(T)
    PROVE  s \o <<>> = s /\ <<>> \o s = s
OBVIOUS

-----------------------------------------------------------------------------
(* The records of the segments                                              *)

\* g[n] are the records of the n oldest segments.
Flat(g, fs) ==
    /\ g[0] = <<>>
    /\ \A n \in 1 .. Backups + 1 : g[n] = g[n - 1] \o fs[Backups + 1 - n]

LEMMA FlatUnique ==
    ASSUME NEW fs, NEW g, NEW h, Flat(g, fs), Flat(h, fs)
    PROVE  \A n \in 0 .. Backups + 1 : g[n] = h[n]
<1>1. Backups \in Nat BY BusAssumption
<1> DEFINE Bad == {n \in 0 .. Backups + 1 : g[n] # h[n]}
<1> SUFFICES ASSUME Bad # {} PROVE FALSE OBVIOUS
<1>2. Bad \in SUBSET Nat BY <1>1
<1>3. PICK n \in Bad : \A j \in Bad : ~(j < n)
  <2> HIDE DEF Bad
  <2> QED BY <1>2, LeastNatural
<1>4. n # 0 BY DEF Flat
<1>5. n \in 1 .. Backups + 1 /\ n - 1 \in 0 .. Backups + 1 BY <1>1, <1>4
<1>6. n - 1 \notin Bad BY <1>3, <1>5
<1> QED BY <1>5, <1>6 DEF Flat

LEMMA FlatTyped ==
    ASSUME NEW fs \in [Segments -> Seq(Nat)], NEW g, Flat(g, fs)
    PROVE  \A n \in 0 .. Backups + 1 : g[n] \in Seq(Nat)
<1>1. Backups \in Nat BY BusAssumption
<1> DEFINE Bad == {n \in 0 .. Backups + 1 : g[n] \notin Seq(Nat)}
<1> SUFFICES ASSUME Bad # {} PROVE FALSE OBVIOUS
<1>2. Bad \in SUBSET Nat BY <1>1
<1>3. PICK n \in Bad : \A j \in Bad : ~(j < n)
  <2> HIDE DEF Bad
  <2> QED BY <1>2, LeastNatural
<1>4. n # 0
  <2>1. g[0] = <<>> /\ <<>> \in Seq(Nat) BY DEF Flat
  <2> QED BY <2>1
<1>5. n \in 1 .. Backups + 1 /\ n - 1 \in 0 .. Backups + 1 /\ Backups + 1 - n \in Segments
  BY <1>1, <1>4 DEF Segments
<1>6. g[n - 1] \in Seq(Nat) /\ fs[Backups + 1 - n] \in Seq(Nat) BY <1>3, <1>5
<1>7. g[n] = g[n - 1] \o fs[Backups + 1 - n] BY <1>5 DEF Flat
<1>8. g[n] \in Seq(Nat) BY <1>6, <1>7, ConcatProperties
<1> QED BY <1>8

LEMMA FlatExists ==
    ASSUME NEW fs
    PROVE  \E g : Flat(g, fs)
<1>1. PICK N : N = Backups + 1 OBVIOUS
<1>2. N \in Nat /\ Backups \in Nat BY <1>1, BusAssumption
<1> DEFINE Upto(g, m) == /\ g[0] = <<>>
                         /\ \A n \in 1 .. m : g[n] = g[n - 1] \o fs[N - n]
           Bad == {m \in 0 .. N : ~\E g : Upto(g, m)}
<1>3. Bad = {}
  <2> SUFFICES ASSUME Bad # {} PROVE FALSE OBVIOUS
  <2>1. Bad \in SUBSET Nat
    <3> HIDE DEF Upto
    <3> QED BY <1>2
  <2>2. PICK m \in Bad : \A j \in Bad : ~(j < m)
    <3> HIDE DEF Bad
    <3> QED BY <2>1, LeastNatural
  <2>3. m # 0
    <3>1. Upto([n \in {0} |-> <<>>], 0) OBVIOUS
    <3> QED BY <3>1
  <2>4. m \in 1 .. N /\ m - 1 \in 0 .. N /\ m - 1 < m BY <1>2, <2>3
  <2>5. PICK g : Upto(g, m - 1) BY <2>2, <2>4
  <2> DEFINE h == [n \in 0 .. m |-> IF n < m THEN g[n] ELSE g[m - 1] \o fs[N - m]]
  <2>6. Upto(h, m)
    <3>1. h[0] = <<>> BY <2>4, <2>5
    <3>2. ASSUME NEW n \in 1 .. m PROVE h[n] = h[n - 1] \o fs[N - n]
      <4>1. h[n - 1] = g[n - 1] BY <2>4
      <4>2. CASE n < m
        <5>1. n \in 1 .. m - 1 /\ h[n] = g[n] BY <2>4, <4>2
        <5>2. g[n] = g[n - 1] \o fs[N - n] BY <2>5, <5>1
        <5> QED BY <4>1, <5>1, <5>2
      <4>3. CASE n = m
        <5>1. h[m] = g[m - 1] \o fs[N - m]
          <6>1. m \in 0 .. m /\ ~(m < m) BY <2>4
          <6> QED BY <6>1
        <5> HIDE DEF h
        <5> QED BY <4>1, <4>3, <5>1
      <4>4. n < m \/ n = m BY <2>4
      <4> HIDE DEF h
      <4> QED BY <4>2, <4>3, <4>4
    <3> HIDE DEF h
    <3> QED BY <3>1, <3>2
  <2> QED BY <2>6
<1>4. N \notin Bad BY <1>3
<1>5. PICK g : Upto(g, N)
  <2> HIDE DEF Upto
  <2> QED BY <1>2, <1>4
<1>6. \A n \in 1 .. Backups + 1 : Backups + 1 - n = N - n BY <1>1, <1>2
<1>7. Flat(g, fs) BY <1>1, <1>5, <1>6 DEF Flat
<1> QED BY <1>7

LEMMA RecordsAre ==
    ASSUME NEW fs \in [Segments -> Seq(Nat)], NEW g, Flat(g, fs)
    PROVE  Records(fs) = g[Backups + 1]
<1>1. PICK N : N = Backups + 1 OBVIOUS
<1>2. N \in Nat /\ N > 0 /\ Backups \in Nat BY <1>1, BusAssumption
<1>3. PICK s : s = [i \in 1 .. N |-> fs[N - i]] OBVIOUS
<1>4. Len(s) = N /\ \A i \in 1 .. N : s[i] = fs[N - i] BY <1>2, <1>3
<1> DEFINE Body(f) == [i \in 1 .. Len(s) |-> IF i = 1 THEN s[i] ELSE f[i - 1] \o s[i]]
           flatten == CHOOSE f : f = Body(f)
           h == [i \in 1 .. Len(s) |-> g[i]]
<1>5. Records(fs) = flatten[Len(s)]
  <2>1. Records(fs) = FlattenSeq(s)
    <3>1. \A i \in 1 .. N : Backups + 1 - i = N - i BY <1>1, <1>2
    <3>2. [i \in 1 .. (Backups + 1) |-> fs[Backups + 1 - i]] = [i \in 1 .. N |-> fs[N - i]] BY <1>1, <3>1
    <3> QED BY <1>3, <3>2 DEF Records
  <2>2. Len(s) # 0 BY <1>2, <1>4
  <2> QED BY <2>1, <2>2 DEF FlattenSeq
<1>6. h = Body(h)
  <2>1. ASSUME NEW i \in 1 .. Len(s) PROVE g[i] = IF i = 1 THEN s[i] ELSE h[i - 1] \o s[i]
    <3>1. i \in 1 .. N /\ s[i] = fs[N - i] /\ g[i] = g[i - 1] \o fs[N - i]
      <4>1. i \in 1 .. N /\ s[i] = fs[N - i] BY <1>4
      <4>2. i \in 1 .. Backups + 1 BY <1>1, <4>1
      <4>3. g[i] = g[i - 1] \o fs[Backups + 1 - i] BY <4>2 DEF Flat
      <4> QED BY <1>1, <1>2, <4>1, <4>3
    <3>2. CASE i = 1
      <4>1. g[0] = <<>> BY DEF Flat
      <4>2. N - 1 \in Segments /\ fs[N - 1] \in Seq(Nat) BY <1>1, <1>2 DEF Segments
      <4>3. <<>> \o fs[N - 1] = fs[N - 1] BY <4>2, JoinedEmpty
      <4>4. g[1] = g[0] \o fs[N - 1]
        <5>1. 1 - 1 = 0 OBVIOUS
        <5> QED BY <3>1, <3>2, <5>1
      <4> QED BY <3>1, <3>2, <4>1, <4>3, <4>4
    <3>3. CASE i # 1
      <4>1. i - 1 \in 1 .. Len(s) BY <1>2, <1>4, <3>1, <3>3
      <4>2. h[i - 1] = g[i - 1] BY <4>1
      <4> QED BY <3>1, <3>3, <4>2
    <3> QED BY <3>2, <3>3
  <2> QED BY <2>1
<1>7. flatten = Body(flatten)
  <2> HIDE DEF Body, h
  <2> QED BY <1>6
<1> DEFINE k == [n \in 0 .. N |-> IF n = 0 THEN <<>> ELSE flatten[n]]
<1>8. Flat(k, fs)
  <2> HIDE DEF flatten
  <2>1. k[0] = <<>> BY <1>2
  <2>2. ASSUME NEW n \in 1 .. N PROVE k[n] = k[n - 1] \o fs[N - n]
    <3>1. n \in 1 .. Len(s) /\ n \in 0 .. N /\ n # 0 /\ s[n] = fs[N - n] BY <1>2, <1>4
    <3>2. Body(flatten)[n] = IF n = 1 THEN s[n] ELSE flatten[n - 1] \o s[n] BY <3>1
    <3>3. k[n] = flatten[n] BY <3>1
    <3>4. CASE n = 1
      <4>1. N - 1 \in Segments /\ fs[N - 1] \in Seq(Nat) BY <1>1, <1>2 DEF Segments
      <4>2. <<>> \o fs[N - 1] = fs[N - 1] BY <4>1, JoinedEmpty
      <4>3. k[n - 1] = <<>> BY <2>1, <3>4
      <4> HIDE DEF Body, k
      <4> QED BY <1>7, <3>1, <3>2, <3>3, <3>4, <4>2, <4>3
    <3>5. CASE n # 1
      <4>1. n - 1 \in 0 .. N /\ n - 1 # 0 BY <1>2, <3>5
      <4>2. k[n - 1] = flatten[n - 1] BY <4>1
      <4> HIDE DEF Body, k
      <4> QED BY <1>7, <3>1, <3>2, <3>3, <3>5, <4>2
    <3> QED BY <3>4, <3>5
  <2> HIDE DEF k
  <2>3. ASSUME NEW n \in 1 .. Backups + 1 PROVE k[n] = k[n - 1] \o fs[Backups + 1 - n]
    <3>1. n \in 1 .. N /\ Backups + 1 - n = N - n BY <1>1, <1>2
    <3>2. k[n] = k[n - 1] \o fs[N - n] BY <2>2, <3>1
    <3> QED BY <3>1, <3>2
  <2> QED BY <2>1, <2>3 DEF Flat
<1>9. k[N] = g[N]
  <2> HIDE DEF k
  <2> QED BY <1>1, <1>2, <1>8, FlatUnique
<1>10. k[N] = flatten[N]
  <2> HIDE DEF flatten
  <2> QED BY <1>2
<1> HIDE DEF k, flatten
<1> QED BY <1>1, <1>4, <1>5, <1>9, <1>10

\* A rotation drops the oldest segment, wherever it stops.
LEMMA RotationDrops ==
    ASSUME NEW fs \in [Segments -> Seq(Nat)], NEW k \in Segments
    PROVE  /\ Rotated(fs, k) \in [Segments -> Seq(Nat)]
           /\ Records(fs) \in Seq(Nat)
           /\ Dropped(Records(Rotated(fs, k)), Records(fs), Len(fs[Backups]))
           /\ Rotated(fs, k)[k] = <<>>
           /\ \A i \in Segments : Rotated(fs, k)[i] = <<>> \/ \E j \in Segments : Rotated(fs, k)[i] = fs[j]
<1>1. Backups \in Nat /\ k \in 0 .. Backups /\ Backups \in Segments BY BusAssumption DEF Segments
<1>2. PICK to : to = Rotated(fs, k) OBVIOUS
<1>3. /\ to \in [Segments -> Seq(Nat)]
      /\ \A i \in Segments : i > k => to[i] = fs[i - 1]
      /\ to[k] = <<>>
      /\ \A i \in Segments : i < k => to[i] = fs[i]
  <2>1. CASE Backups = 0
    <3>1. k = 0 /\ Segments = {0} BY <1>1, <2>1 DEF Segments
    <3>2. to = [fs EXCEPT ![0] = <<>>] BY <1>2, <2>1 DEF Rotated
    <3> QED BY <3>1, <3>2
  <2>2. CASE Backups # 0
    <3>1. to = [i \in Segments |-> CASE i > k -> fs[i - 1] [] i = k -> <<>> [] i < k -> fs[i]]
      BY <1>2, <2>2 DEF Rotated
    <3>2. ASSUME NEW i \in Segments
          PROVE  /\ i > k => to[i] = fs[i - 1]
                 /\ i = k => to[i] = <<>>
                 /\ i < k => to[i] = fs[i]
                 /\ to[i] \in Seq(Nat)
      <4>1. i \in Nat /\ k \in Nat /\ i <= Backups BY <1>1 DEF Segments
      <4>2. i > k => i - 1 \in Segments BY <1>1, <4>1 DEF Segments
      <4>3. CASE i > k BY <3>1, <4>1, <4>2, <4>3
      <4>4. CASE i = k BY <3>1, <4>1, <4>4
      <4>5. CASE i < k BY <3>1, <4>1, <4>5
      <4> QED BY <4>1, <4>3, <4>4, <4>5
    <3> QED BY <3>1, <3>2
  <2> QED BY <2>1, <2>2
<1>4. PICK g : Flat(g, fs) BY FlatExists
<1>5. PICK h : Flat(h, to) BY FlatExists
<1>6. Records(fs) = g[Backups + 1] /\ \A n \in 0 .. Backups + 1 : g[n] \in Seq(Nat)
  BY <1>4, RecordsAre, FlatTyped
<1>7. Records(to) = h[Backups + 1] /\ \A n \in 0 .. Backups + 1 : h[n] \in Seq(Nat)
  BY <1>3, <1>5, RecordsAre, FlatTyped
<1>8. PICK old : old = fs[Backups] OBVIOUS
<1>9. old \in Seq(Nat) BY <1>1, <1>8
<1> DEFINE Fine(n) == old \o h[n] = g[IF n <= Backups - k THEN n + 1 ELSE n]
           Bad == {n \in 0 .. Backups + 1 : ~Fine(n)}
<1>10. Bad = {}
  <2> SUFFICES ASSUME Bad # {} PROVE FALSE OBVIOUS
  <2>1. Bad \in SUBSET Nat
    <3> HIDE DEF Fine
    <3> QED BY <1>1
  <2>2. PICK n \in Bad : \A j \in Bad : ~(j < n)
    <3> HIDE DEF Bad
    <3> QED BY <2>1, LeastNatural
  <2>3. n # 0
    <3>1. old \o h[0] = old BY <1>5, <1>9, JoinedEmpty DEF Flat
    <3>2. g[1] = g[0] \o fs[Backups + 1 - 1] /\ g[0] = <<>>
      <4>1. 1 \in 1 .. Backups + 1 /\ 1 - 1 = 0 BY <1>1
      <4>2. g[1] = g[1 - 1] \o fs[Backups + 1 - 1] /\ g[0] = <<>> BY <1>4, <4>1 DEF Flat
      <4> QED BY <4>1, <4>2
    <3>3. Backups + 1 - 1 = Backups /\ 0 <= Backups - k /\ 0 + 1 = 1 BY <1>1
    <3>4. g[1] = old BY <1>8, <1>9, <3>2, <3>3, JoinedEmpty
    <3>5. Fine(0) BY <3>1, <3>3, <3>4
    <3> QED BY <2>2, <3>5
  <2>4. n \in 1 .. Backups + 1 /\ n - 1 \in 0 .. Backups + 1 /\ n - 1 < n BY <1>1, <2>3
  <2>5. Fine(n - 1)
    <3> HIDE DEF Fine
    <3> QED BY <2>2, <2>4
  <2>6. PICK i : i = Backups + 1 - n OBVIOUS
  <2>7. i \in Segments /\ i \in Nat BY <1>1, <2>4, <2>6 DEF Segments
  <2>8. h[n] = h[n - 1] \o to[i] /\ h[n - 1] \in Seq(Nat) /\ to[i] \in Seq(Nat)
    BY <1>3, <1>5, <1>7, <2>4, <2>6, <2>7 DEF Flat
  <2>9. old \o h[n] = (old \o h[n - 1]) \o to[i]
    <3>1. PICK u : u = h[n - 1] OBVIOUS
    <3>2. PICK v : v = to[i] OBVIOUS
    <3>3. u \in Seq(Nat) /\ v \in Seq(Nat) BY <2>8, <3>1, <3>2
    <3>4. old \o (u \o v) = (old \o u) \o v BY <1>9, <3>3, JoinedAgain
    <3> QED BY <2>8, <3>1, <3>2, <3>4
  <2>10. CASE n <= Backups - k
    <3>1. n - 1 <= Backups - k /\ i > k BY <1>1, <2>4, <2>6, <2>10
    <3>2. old \o h[n - 1] = g[n] BY <2>4, <2>5, <3>1
    <3>3. to[i] = fs[i - 1] BY <1>3, <2>7, <3>1
    <3>4. n + 1 \in 1 .. Backups + 1 /\ Backups + 1 - (n + 1) = i - 1 /\ (n + 1) - 1 = n
      BY <1>1, <2>4, <2>6, <2>10
    <3>5. g[n + 1] = g[(n + 1) - 1] \o fs[Backups + 1 - (n + 1)] BY <1>4, <3>4 DEF Flat
    <3>6. g[n + 1] = g[n] \o fs[i - 1] BY <3>4, <3>5
    <3>7. Fine(n) BY <2>9, <2>10, <3>2, <3>3, <3>6
    <3> QED BY <2>2, <3>7
  <2>11. CASE n = Backups + 1 - k
    <3>1. n - 1 <= Backups - k /\ i = k /\ ~(n <= Backups - k) BY <1>1, <2>4, <2>6, <2>11
    <3>2. old \o h[n - 1] = g[n] BY <2>4, <2>5, <3>1
    <3>3. to[i] = <<>> BY <1>3, <3>1
    <3>4. g[n] \in Seq(Nat) BY <1>6, <2>4
    <3>5. old \o h[n] = g[n] BY <2>9, <3>2, <3>3, <3>4, JoinedEmpty
    <3>6. Fine(n) BY <3>1, <3>5
    <3> QED BY <2>2, <3>6
  <2>12. CASE n > Backups + 1 - k
    <3>1. ~(n - 1 <= Backups - k) /\ i < k /\ ~(n <= Backups - k) BY <1>1, <2>4, <2>6, <2>12
    <3>2. old \o h[n - 1] = g[n - 1] BY <2>4, <2>5, <3>1
    <3>3. to[i] = fs[i] BY <1>3, <2>7, <3>1
    <3>4. g[n] = g[n - 1] \o fs[i] BY <1>4, <2>4, <2>6 DEF Flat
    <3>5. Fine(n) BY <2>9, <3>1, <3>2, <3>3, <3>4
    <3> QED BY <2>2, <3>5
  <2>13. n <= Backups - k \/ n = Backups + 1 - k \/ n > Backups + 1 - k BY <1>1, <2>4
  <2> QED BY <2>10, <2>11, <2>12, <2>13
<1>11. PICK a : a = h[Backups + 1] OBVIOUS
<1>12. PICK b : b = g[Backups + 1] OBVIOUS
<1>13. old \o a = b
  <2>1. Backups + 1 \notin Bad BY <1>10
  <2>2. Backups + 1 \in 0 .. Backups + 1 /\ ~(Backups + 1 <= Backups - k) BY <1>1
  <2>3. Fine(Backups + 1)
    <3> HIDE DEF Fine
    <3> QED BY <2>1, <2>2
  <2> QED BY <1>11, <1>12, <2>2, <2>3
<1>14. a \in Seq(Nat) /\ b \in Seq(Nat)
  <2>1. Backups + 1 \in 0 .. Backups + 1 BY <1>1
  <2> QED BY <1>6, <1>7, <1>11, <1>12, <2>1
<1>15. /\ Len(b) = Len(old) + Len(a)
       /\ \A i \in 1 .. Len(a) : b[Len(old) + i] = a[i]
  BY <1>9, <1>13, <1>14, Joined
<1>16. Dropped(a, b, Len(old)) BY <1>9, <1>14, <1>15 DEF Dropped
<1>17. \A i \in Segments : to[i] = <<>> \/ \E j \in Segments : to[i] = fs[j]
  <2> SUFFICES ASSUME NEW i \in Segments, i # k PROVE \E j \in Segments : to[i] = fs[j] BY <1>3
  <2>1. i \in Nat /\ k \in Nat BY <1>1 DEF Segments
  <2>2. CASE i > k
    <3>1. i - 1 \in Segments BY <1>1, <2>1, <2>2 DEF Segments
    <3> QED BY <1>3, <2>2, <3>1
  <2>3. CASE i < k BY <1>3, <2>3
  <2> QED BY <2>1, <2>2, <2>3
<1> QED BY <1>2, <1>3, <1>6, <1>7, <1>8, <1>11, <1>12, <1>14, <1>16, <1>17

\* A record is appended to the newest segment.
LEMMA RecordAppended ==
    ASSUME NEW fs \in [Segments -> Seq(Nat)], NEW e \in Nat, NEW to, to = [fs EXCEPT ![0] = Append(@, e)]
    PROVE  to \in [Segments -> Seq(Nat)] /\ Records(to) = Append(Records(fs), e)
<1>1. Backups \in Nat /\ 0 \in Segments BY BusAssumption DEF Segments
<1>2. PICK z : z = fs[0] OBVIOUS
<1>3. z \in Seq(Nat) BY <1>1, <1>2
<1>4. to[0] = Append(z, e) /\ \A i \in Segments \ {0} : to[i] = fs[i] BY <1>1, <1>2
<1>5. to \in [Segments -> Seq(Nat)] BY <1>1, <1>3, <1>4
<1>6. PICK g : Flat(g, fs) BY FlatExists
<1>7. Records(fs) = g[Backups + 1] /\ \A n \in 0 .. Backups + 1 : g[n] \in Seq(Nat)
  BY <1>6, RecordsAre, FlatTyped
<1>8. PICK y : y = g[Backups] OBVIOUS
<1>9. y \in Seq(Nat)
  <2>1. Backups \in 0 .. Backups + 1 BY <1>1
  <2> QED BY <1>7, <1>8, <2>1
<1>10. g[Backups + 1] = y \o z
  <2>1. Backups + 1 \in 1 .. Backups + 1 /\ (Backups + 1) - 1 = Backups /\ Backups + 1 - (Backups + 1) = 0
    BY <1>1
  <2>2. g[Backups + 1] = g[(Backups + 1) - 1] \o fs[Backups + 1 - (Backups + 1)] BY <1>6, <2>1 DEF Flat
  <2> QED BY <1>2, <1>8, <2>1, <2>2
<1> DEFINE h == [n \in 0 .. Backups + 1 |-> IF n <= Backups THEN g[n] ELSE y \o Append(z, e)]
<1>11. Flat(h, to)
  <2>1. h[0] = <<>> BY <1>1, <1>6 DEF Flat
  <2>2. ASSUME NEW n \in 1 .. Backups + 1 PROVE h[n] = h[n - 1] \o to[Backups + 1 - n]
    <3>1. n \in Nat /\ n - 1 \in 0 .. Backups + 1 /\ n - 1 <= Backups BY <1>1
    <3>2. h[n - 1] = g[n - 1] BY <3>1
    <3>3. CASE n <= Backups
      <4>1. Backups + 1 - n \in Segments \ {0} BY <1>1, <3>1, <3>3 DEF Segments
      <4>2. to[Backups + 1 - n] = fs[Backups + 1 - n] BY <1>4, <4>1
      <4>3. h[n] = g[n] BY <1>1, <3>1, <3>3
      <4>4. g[n] = g[n - 1] \o fs[Backups + 1 - n] BY <1>6 DEF Flat
      <4> HIDE DEF h
      <4> QED BY <3>2, <4>2, <4>3, <4>4
    <3>4. CASE n = Backups + 1
      <4>1. n - 1 = Backups /\ Backups + 1 - n = 0 /\ ~(n <= Backups) BY <1>1, <3>4
      <4>2. h[n] = y \o Append(z, e)
        <5>1. n \in 0 .. Backups + 1 BY <1>1, <3>1
        <5> QED BY <4>1, <5>1
      <4>3. h[n - 1] = y BY <1>8, <3>2, <4>1
      <4>4. to[Backups + 1 - n] = Append(z, e) BY <1>4, <4>1
      <4> HIDE DEF h
      <4> QED BY <4>2, <4>3, <4>4
    <3>5. n <= Backups \/ n = Backups + 1 BY <1>1
    <3> QED BY <3>3, <3>4, <3>5
  <2> HIDE DEF h
  <2> QED BY <2>1, <2>2 DEF Flat
<1>12. Records(to) = y \o Append(z, e)
  <2>1. h[Backups + 1] = y \o Append(z, e) BY <1>1
  <2>2. Records(to) = h[Backups + 1]
    <3> HIDE DEF h
    <3> QED BY <1>5, <1>11, RecordsAre
  <2> QED BY <2>1, <2>2
<1>13. y \o Append(z, e) = Append(y \o z, e)
  <2>1. <<e>> \in Seq(Nat) /\ Append(z, e) = z \o <<e>> BY <1>3
  <2>2. y \o z \in Seq(Nat) BY <1>3, <1>9, ConcatProperties
  <2>3. Append(y \o z, e) = (y \o z) \o <<e>> BY <2>2
  <2>4. y \o (z \o <<e>>) = (y \o z) \o <<e>> BY <1>3, <1>9, <2>1, JoinedAgain
  <2> QED BY <2>1, <2>3, <2>4
<1> QED BY <1>5, <1>7, <1>10, <1>12, <1>13

\* A repack that stops after segment k leaves the p records of the older segments,
\* and all but the first c, which were not newer than those.
Spliced(s, r, p, c) ==
    /\ s \in Seq(Nat) /\ c \in Nat /\ p \in Nat /\ c <= p /\ p <= Len(r)
    /\ Len(s) = p + (Len(r) - c)
    /\ \A m \in 1 .. p : s[m] = r[m]
    /\ \A m \in 1 .. Len(r) - c : s[p + m] = r[c + m]

\* How many of n records are left when i segments of them are taken from the end.
Before(f, n) ==
    /\ f[0] = n
    /\ \A i \in Segments : /\ f[i] \in 0 .. n /\ f[i + 1] \in 0 .. n
                           /\ f[i + 1] = IF f[i] > MaxRecords THEN f[i] - MaxRecords ELSE 0

LEMMA RepackCuts ==
    ASSUME NEW n \in Nat
    PROVE  \E f : Before(f, n) /\ \A i \in 0 .. Backups + 1 : f[i] = IF n - i * MaxRecords > 0 THEN n - i * MaxRecords ELSE 0
<1>1. MaxRecords \in Nat \ {0} /\ Backups \in Nat BY BusAssumption
<1> DEFINE f == [i \in 0 .. Backups + 1 |-> IF n - i * MaxRecords > 0 THEN n - i * MaxRecords ELSE 0]
<1>2. \A i \in 0 .. Backups + 1 : f[i] = IF n - i * MaxRecords > 0 THEN n - i * MaxRecords ELSE 0 OBVIOUS
<1>3. f[0] = n
  <2>1. 0 \in 0 .. Backups + 1 /\ 0 * MaxRecords = 0 BY <1>1
  <2> HIDE DEF f
  <2> QED BY <1>2, <2>1
<1>4. ASSUME NEW i \in Segments
      PROVE  /\ f[i] \in 0 .. n /\ f[i + 1] \in 0 .. n
             /\ f[i + 1] = IF f[i] > MaxRecords THEN f[i] - MaxRecords ELSE 0
  <2>1. i \in 0 .. Backups + 1 /\ i + 1 \in 0 .. Backups + 1 /\ i \in Nat BY <1>1 DEF Segments
  <2>2. PICK x : x = i * MaxRecords OBVIOUS
  <2>3. x \in Nat BY <1>1, <2>1, <2>2
  <2>4. (i + 1) * MaxRecords = x + MaxRecords BY <1>1, <2>1, <2>2
  <2>5. f[i] = IF n - x > 0 THEN n - x ELSE 0 BY <2>1, <2>2
  <2>6. f[i + 1] = IF n - (x + MaxRecords) > 0 THEN n - (x + MaxRecords) ELSE 0 BY <2>1, <2>4
  <2> HIDE DEF f
  <2> QED BY <1>1, <2>3, <2>5, <2>6
<1> HIDE DEF f
<1>5. Before(f, n) BY <1>3, <1>4 DEF Before
<1> QED BY <1>2, <1>5

LEMMA RepackSplices ==
    ASSUME NEW fs \in [Segments -> Seq(Nat)], \A i \in Segments : Len(fs[i]) <= MaxRecords,
           NEW k \in Segments
    PROVE  /\ Repacked(fs, k) \in [Segments -> Seq(Nat)]
           /\ \A i \in Segments : Len(Repacked(fs, k)[i]) <= MaxRecords
           /\ \E p, c \in Nat : /\ Spliced(Records(Repacked(fs, k)), Records(fs), p, c)
                                /\ k = Backups => p = 0
<1>1. /\ MaxRecords \in Nat \ {0} /\ Backups \in Nat
      /\ Segments = 0 .. Backups /\ k \in Nat /\ k <= Backups
  BY BusAssumption DEF Segments
<1>2. PICK all : all = Records(fs) OBVIOUS
<1>3. PICK n : n = Len(all) OBVIOUS
<1>4. PICK g : Flat(g, fs) BY FlatExists
<1>5. all = g[Backups + 1] /\ \A j \in 0 .. Backups + 1 : g[j] \in Seq(Nat)
  BY <1>2, <1>4, RecordsAre, FlatTyped
<1>6. all \in Seq(Nat) /\ n \in Nat
  <2>1. Backups + 1 \in 0 .. Backups + 1 BY <1>1
  <2>2. all \in Seq(Nat) BY <1>5, <2>1
  <2> QED BY <1>3, <2>2
<1>7. PICK f : /\ Before(f, n)
               /\ \A i \in 0 .. Backups + 1 : f[i] = IF n - i * MaxRecords > 0 THEN n - i * MaxRecords ELSE 0
  BY <1>6, RepackCuts
<1>8. ASSUME NEW i \in Segments
      PROVE  /\ f[i] \in 0 .. n /\ f[i + 1] \in 0 .. n /\ f[i + 1] <= f[i] /\ f[i] <= f[i + 1] + MaxRecords
             /\ f[i + 1] = IF f[i] > MaxRecords THEN f[i] - MaxRecords ELSE 0
  <2>1. /\ f[i] \in 0 .. n /\ f[i + 1] \in 0 .. n
        /\ f[i + 1] = IF f[i] > MaxRecords THEN f[i] - MaxRecords ELSE 0
    BY <1>7 DEF Before
  <2>2. PICK x : x = f[i] OBVIOUS
  <2>3. PICK y : y = f[i + 1] OBVIOUS
  <2>4. x \in Nat /\ y \in Nat /\ y = IF x > MaxRecords THEN x - MaxRecords ELSE 0
    BY <1>6, <2>1, <2>2, <2>3
  <2>5. y <= x /\ x <= y + MaxRecords BY <1>1, <2>4
  <2> QED BY <2>1, <2>2, <2>3, <2>5
<1>9. PICK to : to = Repacked(fs, k) OBVIOUS
<1>10. ASSUME NEW i \in Segments
       PROVE  /\ i <= k => to[i] = SubSeq(all, f[i + 1] + 1, f[i])
              /\ i > k => to[i] = fs[i]
  <2>1. PICK x : x = n - i * MaxRecords OBVIOUS
  <2>2. i \in 0 .. Backups + 1 /\ i \in Nat BY <1>1
  <2>3. f[i] = IF x > 0 THEN x ELSE 0 BY <1>7, <2>1, <2>2
  <2>4. x \in Int BY <1>1, <1>6, <2>1, <2>2
  <2>5. to[i] = IF i <= k THEN CASE x <= 0 -> <<>>
                                 [] x \in 1 .. MaxRecords -> SubSeq(all, 1, x)
                                 [] OTHER -> SubSeq(all, x - MaxRecords + 1, x)
                          ELSE fs[i]
    BY <1>2, <1>3, <1>9, <2>1 DEF Repacked
  <2>6. CASE x <= 0
    <3>1. f[i] = 0 /\ f[i + 1] = 0 BY <1>1, <1>8, <2>3, <2>4, <2>6
    <3>2. SubSeq(all, 0 + 1, 0) = <<>> BY <1>6
    <3> QED BY <1>1, <2>2, <2>5, <2>6, <3>1, <3>2
  <2>7. CASE x \in 1 .. MaxRecords
    <3>1. f[i] = x /\ f[i + 1] = 0 /\ ~(x <= 0) BY <1>1, <1>8, <2>3, <2>4, <2>7
    <3> QED BY <1>1, <2>2, <2>5, <2>7, <3>1
  <2>8. CASE x > MaxRecords
    <3>1. f[i] = x /\ f[i + 1] = x - MaxRecords /\ ~(x <= 0) /\ ~(x \in 1 .. MaxRecords)
      BY <1>1, <1>8, <2>3, <2>4, <2>8
    <3>2. i <= k => to[i] = SubSeq(all, x - MaxRecords + 1, x) BY <2>5, <3>1
    <3>3. i > k => to[i] = fs[i] BY <1>1, <2>2, <2>5
    <3> QED BY <3>1, <3>2, <3>3
  <2> QED BY <1>1, <2>4, <2>6, <2>7, <2>8
<1>11. ASSUME NEW i \in Segments, i <= k
       PROVE  /\ to[i] \in Seq(Nat) /\ Len(to[i]) = f[i] - f[i + 1]
              /\ \A m \in 1 .. f[i] - f[i + 1] : to[i][m] = all[f[i + 1] + m]
  <2>1. PICK x : x = f[i + 1] OBVIOUS
  <2>2. PICK y : y = f[i] OBVIOUS
  <2>3. x \in Nat /\ y \in Nat /\ x <= y /\ y <= Len(all) BY <1>3, <1>6, <1>8, <2>1, <2>2
  <2>4. PICK s : s = SubSeq(all, x + 1, y) OBVIOUS
  <2>5. s \in Seq(Nat) /\ Len(s) = y - x BY <1>6, <2>3, <2>4
  <2>6. ASSUME NEW m \in 1 .. y - x PROVE s[m] = all[x + m]
    BY <1>6, <2>3, <2>4, SMTT(20)
  <2>7. to[i] = s BY <1>10, <1>11, <2>1, <2>2, <2>4
  <2> QED BY <2>1, <2>2, <2>5, <2>6, <2>7
<1>12. to \in [Segments -> Seq(Nat)]
  <2>1. \A i \in Segments : to[i] \in Seq(Nat)
    <3> SUFFICES ASSUME NEW i \in Segments PROVE to[i] \in Seq(Nat) OBVIOUS
    <3>1. i \in Nat BY <1>1
    <3>2. i <= k \/ i > k BY <1>1, <3>1
    <3> QED BY <1>10, <1>11, <3>2
  <2>2. to = [i \in Segments |-> to[i]] BY <1>9 DEF Repacked
  <2> QED BY <2>1, <2>2
<1>13. \A i \in Segments : Len(to[i]) <= MaxRecords
  <2> SUFFICES ASSUME NEW i \in Segments PROVE Len(to[i]) <= MaxRecords OBVIOUS
  <2>1. i \in Nat BY <1>1
  <2>2. CASE i <= k
    <3>1. Len(to[i]) = f[i] - f[i + 1] BY <1>11, <2>2
    <3>2. f[i] \in Nat /\ f[i + 1] \in Nat /\ f[i] <= f[i + 1] + MaxRecords BY <1>6, <1>8
    <3> QED BY <1>1, <3>1, <3>2
  <2>3. CASE i > k BY <1>10, <2>3
  <2> QED BY <1>1, <2>1, <2>2, <2>3
<1>14. PICK h : Flat(h, to) BY FlatExists
<1>15. Records(to) = h[Backups + 1] /\ \A j \in 0 .. Backups + 1 : h[j] \in Seq(Nat)
  BY <1>12, <1>14, RecordsAre, FlatTyped
\* What is older than segment i, and has room in what is not newer.
<1> DEFINE Old(i) == LET y == g[Backups + 1 - i] IN
                     f[i] <= Len(y) /\ Len(y) <= n /\ \A m \in 1 .. Len(y) : y[m] = all[m]
           BadOld == {i \in 0 .. Backups + 1 : ~Old(i)}
<1>16. BadOld = {}
  <2> SUFFICES ASSUME BadOld # {} PROVE FALSE OBVIOUS
  <2>1. BadOld \in SUBSET Nat
    <3> HIDE DEF Old
    <3> QED BY <1>1
  <2>2. PICK i \in BadOld : \A j \in BadOld : ~(j < i)
    <3> HIDE DEF BadOld
    <3> QED BY <2>1, LeastNatural
  <2>3. i # 0
    <3>1. Backups + 1 - 0 = Backups + 1 /\ f[0] = n BY <1>1, <1>7 DEF Before
    <3>2. Old(0) BY <1>3, <1>5, <1>6, <3>1
    <3> QED BY <2>2, <3>2
  <2>4. i \in 1 .. Backups + 1 /\ i - 1 \in 0 .. Backups + 1 /\ i - 1 < i /\ i - 1 \in Segments
    BY <1>1, <2>3
  <2>5. Old(i - 1)
    <3> HIDE DEF Old
    <3> QED BY <2>2, <2>4
  <2>6. PICK j : j = Backups + 1 - (i - 1) OBVIOUS
  <2>7. j \in 1 .. Backups + 1 /\ j - 1 = Backups + 1 - i /\ Backups + 1 - j = i - 1 /\ j \in 0 .. Backups + 1
        /\ j - 1 \in 0 .. Backups + 1 /\ (i - 1) + 1 = i
    BY <1>1, <2>4, <2>6
  <2>8. PICK y : y = g[j] OBVIOUS
  <2>9. PICK x : x = g[j - 1] OBVIOUS
  <2>10. PICK z : z = fs[i - 1] OBVIOUS
  <2>11. x \in Seq(Nat) /\ z \in Seq(Nat) /\ y \in Seq(Nat) /\ Len(z) <= MaxRecords
    BY <1>5, <2>4, <2>7, <2>8, <2>9, <2>10
  <2>12. y = x \o z BY <1>4, <2>7, <2>8, <2>9, <2>10 DEF Flat
  <2>13. Len(y) = Len(x) + Len(z) /\ \A m \in 1 .. Len(x) : y[m] = x[m] BY <2>11, <2>12, Joined
  <2>14. f[i - 1] <= Len(y) /\ Len(y) <= n /\ \A m \in 1 .. Len(y) : y[m] = all[m] BY <2>5, <2>6, <2>8
  <2>15. Len(x) \in Nat /\ Len(y) \in Nat /\ Len(z) \in Nat BY <2>11
  <2>16. Len(x) <= n BY <1>6, <2>13, <2>14, <2>15
  <2>17. f[i] <= Len(x)
    <3>1. /\ f[i - 1] \in 0 .. n /\ f[i] \in 0 .. n
          /\ f[i] = IF f[i - 1] > MaxRecords THEN f[i - 1] - MaxRecords ELSE 0
      BY <1>8, <2>4, <2>7
    <3>2. PICK a, b : a = f[i - 1] /\ b = f[i] OBVIOUS
    <3>3. PICK lx, ly, lz : lx = Len(x) /\ ly = Len(y) /\ lz = Len(z) OBVIOUS
    <3>4. a \in Nat /\ b = IF a > MaxRecords THEN a - MaxRecords ELSE 0 BY <1>6, <3>1, <3>2
    <3>5. lx \in Nat /\ lz \in Nat /\ ly = lx + lz /\ a <= ly /\ lz <= MaxRecords
      BY <2>11, <2>13, <2>14, <2>15, <3>2, <3>3
    <3>6. b <= lx BY <1>1, <3>4, <3>5
    <3> QED BY <3>2, <3>3, <3>6
  <2>18. ASSUME NEW m \in 1 .. Len(x) PROVE x[m] = all[m]
    <3>1. m \in 1 .. Len(y) BY <2>13, <2>15
    <3> QED BY <2>13, <2>14, <3>1
  <2>19. Old(i) BY <2>7, <2>9, <2>16, <2>17, <2>18
  <2> QED BY <2>2, <2>19
\* The older segments are as they were.
<1> DEFINE BadSame == {j \in 0 .. Backups - k : h[j] # g[j]}
<1>17. BadSame = {}
  <2> SUFFICES ASSUME BadSame # {} PROVE FALSE OBVIOUS
  <2>1. BadSame \in SUBSET Nat BY <1>1
  <2>2. PICK j \in BadSame : \A i \in BadSame : ~(i < j)
    <3> HIDE DEF BadSame
    <3> QED BY <2>1, LeastNatural
  <2>3. j # 0 BY <1>4, <1>14 DEF Flat
  <2>4. j \in 1 .. Backups + 1 /\ j - 1 \in 0 .. Backups - k /\ j - 1 < j
        /\ Backups + 1 - j \in Segments /\ Backups + 1 - j > k
    BY <1>1, <2>3
  <2>5. h[j - 1] = g[j - 1] BY <2>2, <2>4
  <2>6. to[Backups + 1 - j] = fs[Backups + 1 - j] BY <1>10, <2>4
  <2>7. h[j] = h[j - 1] \o to[Backups + 1 - j] /\ g[j] = g[j - 1] \o fs[Backups + 1 - j]
    BY <1>4, <1>14, <2>4 DEF Flat
  <2> QED BY <2>2, <2>5, <2>6, <2>7
<1>18. PICK a : a = g[Backups - k] OBVIOUS
<1>19. PICK c : c = f[k + 1] OBVIOUS
<1>20. PICK p : p = Len(a) OBVIOUS
<1>21. a \in Seq(Nat) /\ p \in Nat /\ c \in Nat /\ c <= p /\ p <= n /\ \A m \in 1 .. p : a[m] = all[m]
  <2>1. k + 1 \in 0 .. Backups + 1 /\ Backups + 1 - (k + 1) = Backups - k /\ Backups - k \in 0 .. Backups + 1
    BY <1>1
  <2>2. Old(k + 1)
    <3> HIDE DEF Old
    <3> QED BY <1>16, <2>1
  <2>3. a \in Seq(Nat) BY <1>5, <1>18, <2>1
  <2>4. c \in 0 .. n BY <1>8, <1>19
  <2> QED BY <1>6, <1>18, <1>19, <1>20, <2>1, <2>2, <2>3, <2>4
\* The newer ones, which have been written from the oldest of them on.
<1> DEFINE New(j) == LET s == h[j]
                         d == f[Backups + 1 - j] IN
                     /\ c <= d /\ Len(s) = p + (d - c)
                     /\ \A m \in 1 .. p : s[m] = all[m]
                     /\ \A m \in 1 .. d - c : s[p + m] = all[c + m]
           BadNew == {j \in (Backups - k) .. Backups + 1 : ~New(j)}
<1>22. BadNew = {}
  <2> SUFFICES ASSUME BadNew # {} PROVE FALSE OBVIOUS
  <2>1. BadNew \in SUBSET Nat
    <3> HIDE DEF New
    <3> QED BY <1>1
  <2>2. PICK j \in BadNew : \A i \in BadNew : ~(i < j)
    <3> HIDE DEF BadNew
    <3> QED BY <2>1, LeastNatural
  <2>3. j # Backups - k
    <3>1. Backups - k \in 0 .. Backups - k /\ Backups + 1 - (Backups - k) = k + 1
      <4> HIDE DEF BadNew, New
      <4> QED BY <1>1
    <3>2. h[Backups - k] = a BY <1>17, <1>18, <3>1
    <3>3. p + (c - c) = p /\ \A m : ~(m \in 1 .. c - c) BY <1>21
    <3>4. New(Backups - k)
      <4>1. c <= c /\ Len(a) = p + (c - c) BY <1>20, <1>21, <3>3
      <4>2. \A m \in 1 .. c - c : a[p + m] = all[c + m] BY <3>3
      <4> QED BY <1>19, <1>21, <3>1, <3>2, <4>1, <4>2
    <3> QED BY <2>2, <3>4
  <2>4. PICK i : i = Backups + 1 - j OBVIOUS
  <2>5. /\ j \in 1 .. Backups + 1 /\ j - 1 \in (Backups - k) .. Backups + 1 /\ j - 1 < j /\ j \in 0 .. Backups + 1
        /\ i \in Segments /\ i <= k /\ Backups + 1 - (j - 1) = i + 1 /\ j - 1 \in 0 .. Backups + 1
    BY <1>1, <2>3, <2>4
  <2>6. New(j - 1)
    <3> HIDE DEF New
    <3> QED BY <2>2, <2>5
  <2>7. PICK s : s = h[j - 1] OBVIOUS
  <2>8. PICK z : z = to[i] OBVIOUS
  <2>9. PICK r : r = h[j] OBVIOUS
  <2>10. PICK x : x = f[i + 1] OBVIOUS
  <2>11. PICK y : y = f[i] OBVIOUS
  <2>12. s \in Seq(Nat) /\ z \in Seq(Nat) BY <1>11, <1>15, <2>5, <2>7, <2>8
  <2>13. r = s \o z BY <1>14, <2>4, <2>5, <2>7, <2>8, <2>9 DEF Flat
  <2>14. /\ Len(r) = Len(s) + Len(z)
         /\ \A m \in 1 .. Len(s) : r[m] = s[m]
         /\ \A m \in 1 .. Len(z) : r[Len(s) + m] = z[m]
    BY <2>12, <2>13, Joined
  <2>15. /\ c <= x /\ Len(s) = p + (x - c)
         /\ \A m \in 1 .. p : s[m] = all[m]
         /\ \A m \in 1 .. x - c : s[p + m] = all[c + m]
    BY <2>5, <2>6, <2>7, <2>10
  <2>16. x \in Nat /\ y \in Nat /\ x <= y BY <1>6, <1>8, <2>5, <2>10, <2>11
  <2>17. Len(z) = y - x /\ \A m \in 1 .. y - x : z[m] = all[x + m] BY <1>11, <2>5, <2>8, <2>10, <2>11
  <2>18. c <= y /\ Len(r) = p + (y - c) BY <1>21, <2>14, <2>15, <2>16, <2>17
  <2>19. ASSUME NEW m \in 1 .. p PROVE r[m] = all[m]
    <3>1. m \in 1 .. Len(s) BY <1>21, <2>15, <2>16
    <3> QED BY <2>14, <2>15, <3>1
  <2>20. ASSUME NEW m \in 1 .. y - c PROVE r[p + m] = all[c + m]
    <3>1. CASE m <= x - c
      <4>1. m \in 1 .. x - c /\ p + m \in 1 .. Len(s)
        <5>0. c \in Nat /\ x \in Nat /\ y \in Nat BY <1>21, <2>16
        <5>1. m \in Nat /\ m > 0 /\ x - c \in Int
          <6> HIDE DEF New, BadNew
          <6> QED BY <5>0
        <5>2. m \in 1 .. x - c BY <3>1, <5>1
        <5>3. p + m \in Nat /\ p + m > 0 /\ p + m <= p + (x - c) BY <1>21, <3>1, <5>1
        <5> QED BY <1>21, <2>15, <2>16, <5>2, <5>3
      <4> QED BY <2>14, <2>15, <4>1
    <3>2. CASE m > x - c
      <4>1. PICK q : q = m - (x - c) OBVIOUS
      <4>2. q \in 1 .. y - x /\ p + m = Len(s) + q /\ x + q = c + m BY <1>21, <2>15, <2>16, <3>2, <4>1
      <4>3. r[p + m] = z[q] BY <2>14, <2>17, <4>2
      <4>4. z[q] = all[c + m] BY <2>17, <4>2
      <4> QED BY <4>3, <4>4
    <3>3. m \in Int /\ x - c \in Int BY <1>21, <2>16
    <3> QED BY <3>1, <3>2, <3>3
  <2>21. New(j) BY <2>4, <2>9, <2>11, <2>18, <2>19, <2>20
  <2> QED BY <2>2, <2>21
<1>23. PICK r : r = Records(to) OBVIOUS
<1>24. Spliced(r, all, p, c)
  <2>1. Backups + 1 \in (Backups - k) .. Backups + 1 /\ Backups + 1 - (Backups + 1) = 0
        /\ Backups + 1 \in 0 .. Backups + 1
    BY <1>1
  <2>2. New(Backups + 1)
    <3> HIDE DEF New
    <3> QED BY <1>22, <2>1
  <2>3. f[0] = n BY <1>7 DEF Before
  <2>4. r = h[Backups + 1] /\ r \in Seq(Nat) BY <1>15, <1>23, <2>1
  <2>5. /\ Len(r) = p + (n - c)
        /\ \A m \in 1 .. p : r[m] = all[m]
        /\ \A m \in 1 .. n - c : r[p + m] = all[c + m]
    BY <2>1, <2>2, <2>3, <2>4
  <2> QED BY <1>3, <1>21, <2>4, <2>5 DEF Spliced
<1>25. k = Backups => p = 0
  <2> SUFFICES ASSUME k = Backups PROVE p = 0 OBVIOUS
  <2>1. Backups - k = 0 BY <1>1
  <2>2. a = <<>> BY <1>4, <1>18, <2>1 DEF Flat
  <2> QED BY <1>20, <2>2
<1> QED BY <1>2, <1>9, <1>12, <1>13, <1>21, <1>23, <1>24, <1>25

-----------------------------------------------------------------------------
(* What the trace keeps of what was written                                 *)

\* The events that have left the pending batch of the trace.
Handed == Len(emitted) - Len(pending["trace"])

\* b are the events that follow event i.
Consecutive(b, i) == \A k \in 1 .. Len(b) : b[k] = i + k

\* Every event up to the nth has been written, and each of them first after all before it.
Sent(w, n) == \A e \in 1 .. n : \E j \in 1 .. Len(w) : w[j] = e
FirstAfter(w) == \A i \in 1 .. Len(w) : \A e \in 1 .. w[i] - 1 : \E j \in 1 .. i - 1 : w[j] = e

\* From wherever one reads on, the records r are those of an end of what was written.
Values(f, A) == {f[a] : a \in A}
Lasting(r, w) ==
    \A j \in 1 .. Len(r) + 1 : \E i \in 1 .. Len(w) + 1 :
        Values(r, j .. Len(r)) = Values(w, i .. Len(w))

Reflects(fs, w, whole) ==
    /\ fs \in [Segments -> Seq(Nat)] /\ \A i \in Segments : Len(fs[i]) <= MaxRecords
    /\ Lasting(Records(fs), w)
    /\ whole => EndOf(Records(fs), w)

\* Two sequences that show the same values.
LEMMA SameValues ==
    ASSUME NEW f, NEW A, NEW g, NEW B,
           \A a \in A : \E b \in B : g[b] = f[a],
           \A b \in B : \E a \in A : f[a] = g[b]
    PROVE  Values(f, A) = Values(g, B)
<1>1. ASSUME NEW x \in Values(f, A) PROVE x \in Values(g, B) BY DEF Values
<1>2. ASSUME NEW x \in Values(g, B) PROVE x \in Values(f, A) BY DEF Values
<1> QED BY <1>1, <1>2

\* A batch that continues what was written.
LEMMA BatchWritten ==
    ASSUME NEW w \in Seq(Nat), FirstAfter(w), NEW i \in Nat, Sent(w, i),
           NEW b \in Seq(Nat), Consecutive(b, i), NEW r, r = w \o b
    PROVE  /\ r \in Seq(Nat) /\ FirstAfter(r) /\ Sent(r, i + Len(b))
           /\ \A n : Sent(w, n) => Sent(r, n)
<1>1. Len(w) \in Nat /\ Len(b) \in Nat OBVIOUS
<1>2. /\ r \in Seq(Nat) /\ Len(r) = Len(w) + Len(b)
      /\ \A k \in 1 .. Len(w) : r[k] = w[k]
      /\ \A k \in 1 .. Len(b) : r[Len(w) + k] = b[k]
  BY Joined
<1>3. 1 .. Len(w) \subseteq 1 .. Len(r) BY <1>1, <1>2
<1>4. \A n : Sent(w, n) => Sent(r, n) BY <1>2, <1>3 DEF Sent
<1>5. ASSUME NEW k \in 1 .. Len(b) PROVE Len(w) + k \in 1 .. Len(r) /\ r[Len(w) + k] = i + k
  BY <1>1, <1>2 DEF Consecutive
<1>6. Sent(r, i + Len(b))
  <2> SUFFICES ASSUME NEW e \in 1 .. i + Len(b) PROVE \E j \in 1 .. Len(r) : r[j] = e BY DEF Sent
  <2>1. CASE e <= i
    <3>1. e \in 1 .. i BY <1>1, <2>1
    <3> QED BY <1>4, <3>1 DEF Sent
  <2>2. CASE e > i
    <3>1. PICK k : k = e - i OBVIOUS
    <3>2. k \in 1 .. Len(b) /\ i + k = e BY <1>1, <2>2, <3>1
    <3> QED BY <1>5, <3>2
  <2> QED BY <1>1, <2>1, <2>2
<1>7. FirstAfter(r)
  <2> SUFFICES ASSUME NEW k \in 1 .. Len(r), NEW e \in 1 .. r[k] - 1
               PROVE  \E j \in 1 .. k - 1 : r[j] = e
    BY DEF FirstAfter
  <2>1. CASE k <= Len(w)
    <3>1. k \in 1 .. Len(w) BY <1>1, <1>2, <2>1
    <3>2. r[k] = w[k] BY <1>2, <3>1
    <3>3. PICK j \in 1 .. k - 1 : w[j] = e BY <3>1, <3>2 DEF FirstAfter
    <3>4. j \in 1 .. Len(w) BY <1>1, <3>1
    <3> QED BY <1>2, <3>3, <3>4
  <2>2. CASE k > Len(w)
    <3>1. PICK q : q = k - Len(w) OBVIOUS
    <3>2. q \in 1 .. Len(b) /\ Len(w) + q = k BY <1>1, <1>2, <2>2, <3>1
    <3>3. r[k] = i + q BY <1>5, <3>2
    <3>4. CASE e <= i
      <4>1. e \in 1 .. i BY <1>1, <3>2, <3>3, <3>4
      <4>2. PICK j \in 1 .. Len(w) : w[j] = e BY <4>1 DEF Sent
      <4>3. j \in 1 .. k - 1 BY <1>1, <2>2, <3>2
      <4> QED BY <1>2, <4>2, <4>3
    <3>5. CASE e > i
      <4>1. PICK l : l = e - i OBVIOUS
      <4>2. l \in 1 .. Len(b) /\ i + l = e /\ Len(w) + l \in 1 .. k - 1
        <5>1. PICK x, y : x = Len(w) /\ y = Len(b) OBVIOUS
        <5>2. x \in Nat /\ y \in Nat /\ q \in 1 .. y /\ x + q = k /\ e \in 1 .. (i + q) - 1
          BY <1>1, <3>2, <3>3, <5>1
        <5>3. l \in 1 .. y /\ i + l = e /\ x + l \in 1 .. k - 1 BY <3>5, <4>1, <5>2
        <5> QED BY <5>1, <5>3
      <4>3. r[Len(w) + l] = e BY <1>5, <4>2
      <4> QED BY <4>2, <4>3
    <3>6. e \in Int OBVIOUS
    <3>7. e <= i \/ e > i BY <3>6
    <3> QED BY <3>4, <3>5, <3>7
  <2>3. k \in Int BY <1>2
  <2>4. k <= Len(w) \/ k > Len(w) BY <1>1, <2>3
  <2> QED BY <2>1, <2>2, <2>4
<1> QED BY <1>2, <1>4, <1>6, <1>7

\* The oldest records go.
LEMMA LastingDrops ==
    ASSUME NEW r \in Seq(Nat), NEW w \in Seq(Nat), NEW s, NEW d, Dropped(s, r, d)
    PROVE  /\ Lasting(r, w) => Lasting(s, w)
           /\ EndOf(r, w) => EndOf(s, w)
<1>1. /\ s \in Seq(Nat) /\ d \in Nat /\ Len(s) + d = Len(r) /\ Len(s) \in Nat /\ Len(r) \in Nat /\ Len(w) \in Nat
      /\ \A m \in 1 .. Len(s) : s[m] = r[d + m]
  BY DEF Dropped
<1>2. ASSUME Lasting(r, w), NEW j \in 1 .. Len(s) + 1
      PROVE  \E i \in 1 .. Len(w) + 1 : Values(s, j .. Len(s)) = Values(w, i .. Len(w))
  <2>1. d + j \in 1 .. Len(r) + 1 BY <1>1
  <2>2. PICK i \in 1 .. Len(w) + 1 : Values(r, d + j .. Len(r)) = Values(w, i .. Len(w))
    BY <1>2, <2>1 DEF Lasting
  <2>3. ASSUME NEW m \in j .. Len(s) PROVE d + m \in d + j .. Len(r) /\ s[m] = r[d + m]
    <3>1. d \in Nat /\ Len(s) + d = Len(r) /\ Len(s) \in Nat BY <1>1
    <3>2. m \in 1 .. Len(s) /\ d + m \in d + j .. Len(r) BY <3>1
    <3> QED BY <1>1, <3>2
  <2>4. ASSUME NEW m \in d + j .. Len(r) PROVE m - d \in j .. Len(s) /\ s[m - d] = r[m]
    <3>1. d \in Nat /\ Len(s) + d = Len(r) /\ Len(s) \in Nat BY <1>1
    <3>2. m - d \in j .. Len(s) /\ d + (m - d) = m BY <3>1
    <3> QED BY <2>3, <3>2
  <2>5. \A m \in j .. Len(s) : \E q \in d + j .. Len(r) : r[q] = s[m]
    <3> SUFFICES ASSUME NEW m \in j .. Len(s) PROVE \E q \in d + j .. Len(r) : r[q] = s[m] OBVIOUS
    <3>1. d + m \in d + j .. Len(r) /\ r[d + m] = s[m] BY <2>3
    <3> QED BY <3>1
  <2>7. \A m \in d + j .. Len(r) : \E q \in j .. Len(s) : s[q] = r[m] BY <2>4
  <2>6. Values(s, j .. Len(s)) = Values(r, d + j .. Len(r)) 
    <3>1. PICK A : A = j .. Len(s) OBVIOUS
    <3>2. PICK B : B = d + j .. Len(r) OBVIOUS
    <3>3. \A a \in A : \E b \in B : r[b] = s[a] BY <2>5, <3>1, <3>2
    <3>4. \A b \in B : \E a \in A : s[a] = r[b] BY <2>7, <3>1, <3>2
    <3>5. Values(s, A) = Values(r, B) BY <3>3, <3>4, SameValues
    <3> QED BY <3>1, <3>2, <3>5
  <2> QED BY <2>2, <2>6
<1>3. ASSUME EndOf(r, w) PROVE EndOf(s, w)
  <2>1. PICK c \in 0 .. Len(w) : Dropped(r, w, c) BY <1>3 DEF EndOf
  <2>2. c \in Nat /\ Len(r) + c = Len(w) /\ \A m \in 1 .. Len(r) : r[m] = w[c + m] BY <2>1 DEF Dropped
  <2>3. c + d \in 0 .. Len(w) /\ Len(s) + (c + d) = Len(w)
    <3>1. PICK x, y, z : x = Len(s) /\ y = Len(r) /\ z = Len(w) OBVIOUS
    <3>2. d \in Nat /\ x + d = y /\ x \in Nat BY <1>1, <3>1
    <3>3. c \in Nat /\ y + c = z BY <2>2, <3>1
    <3>4. c + d \in 0 .. z /\ x + (c + d) = z BY <3>2, <3>3
    <3> QED BY <3>1, <3>4
  <2>4. ASSUME NEW m \in 1 .. Len(s) PROVE s[m] = w[(c + d) + m]
    <3>1. d + m \in 1 .. Len(r) /\ c + (d + m) = (c + d) + m BY <1>1, <2>2
    <3> QED BY <1>1, <2>2, <3>1
  <2>5. Dropped(s, w, c + d) BY <1>1, <2>3, <2>4 DEF Dropped
  <2> QED BY <2>3, <2>5 DEF EndOf
<1> QED BY <1>2, <1>3 DEF Lasting

\* A record more.
LEMMA LastingGrows ==
    ASSUME NEW r \in Seq(Nat), NEW w \in Seq(Nat), NEW e \in Nat
    PROVE  /\ Lasting(r, w) => Lasting(Append(r, e), Append(w, e))
           /\ EndOf(r, w) => EndOf(Append(r, e), Append(w, e))
<1>1. PICK s : s = Append(r, e) OBVIOUS
<1>2. PICK v : v = Append(w, e) OBVIOUS
<1>3. /\ s \in Seq(Nat) /\ Len(s) = Len(r) + 1 /\ Len(r) \in Nat
      /\ s[Len(r) + 1] = e /\ \A m \in 1 .. Len(r) : s[m] = r[m]
  BY <1>1
<1>4. /\ v \in Seq(Nat) /\ Len(v) = Len(w) + 1 /\ Len(w) \in Nat
      /\ v[Len(w) + 1] = e /\ \A m \in 1 .. Len(w) : v[m] = w[m]
  BY <1>2
<1>5. ASSUME Lasting(r, w), NEW j \in 1 .. Len(s) + 1
      PROVE  \E i \in 1 .. Len(v) + 1 : Values(s, j .. Len(s)) = Values(v, i .. Len(v))
  <2>1. CASE j = Len(s) + 1
    <3>1. Len(v) + 1 \in 1 .. Len(v) + 1 BY <1>4
    <3>2. Values(s, j .. Len(s)) = {} BY <1>3, <2>1 DEF Values
    <3>3. Values(v, Len(v) + 1 .. Len(v)) = {} BY <1>4 DEF Values
    <3> QED BY <3>1, <3>2, <3>3
  <2>2. CASE j # Len(s) + 1
    <3>1. j \in 1 .. Len(r) + 1 BY <1>3, <2>2
    <3>2. PICK i \in 1 .. Len(w) + 1 : Values(r, j .. Len(r)) = Values(w, i .. Len(w))
      BY <1>5, <3>1 DEF Lasting
    <3>3. Values(s, j .. Len(s)) = Values(r, j .. Len(r)) \cup {e}
      <4>1. PICK n : n = Len(r) OBVIOUS
      <4>2. n \in Nat /\ Len(s) = n + 1 /\ s[n + 1] = e /\ (\A m \in 1 .. n : s[m] = r[m]) /\ j \in 1 .. n + 1
        BY <1>3, <3>1, <4>1
      <4>3. j .. n + 1 = (j .. n) \cup {n + 1} /\ j .. n \subseteq 1 .. n
        <5>1. n \in Nat /\ j \in 1 .. n + 1 BY <4>2
        <5> QED BY <5>1
      <4>4. \A m \in j .. n : s[m] = r[m] BY <4>2, <4>3
      <4>5. Values(s, (j .. n) \cup {n + 1}) = Values(r, j .. n) \cup {e} BY <4>2, <4>4 DEF Values
      <4> QED BY <4>1, <4>2, <4>3, <4>5
    <3>4. Values(v, i .. Len(v)) = Values(w, i .. Len(w)) \cup {e}
      <4>1. PICK n : n = Len(w) OBVIOUS
      <4>2. n \in Nat /\ Len(v) = n + 1 /\ v[n + 1] = e /\ (\A m \in 1 .. n : v[m] = w[m]) /\ i \in 1 .. n + 1
        BY <1>4, <4>1
      <4>3. i .. n + 1 = (i .. n) \cup {n + 1} /\ i .. n \subseteq 1 .. n
        <5>1. n \in Nat /\ i \in 1 .. n + 1 BY <4>2
        <5> QED BY <5>1
      <4>4. \A m \in i .. n : v[m] = w[m] BY <4>2, <4>3
      <4>5. Values(v, (i .. n) \cup {n + 1}) = Values(w, i .. n) \cup {e} BY <4>2, <4>4 DEF Values
      <4> QED BY <4>1, <4>2, <4>3, <4>5
    <3>5. i \in 1 .. Len(v) + 1 BY <1>4
    <3> QED BY <3>2, <3>3, <3>4, <3>5
  <2> QED BY <2>1, <2>2
<1>6. ASSUME EndOf(r, w) PROVE EndOf(s, v)
  <2>1. PICK c \in 0 .. Len(w) : Dropped(r, w, c) BY <1>6 DEF EndOf
  <2>2. c \in Nat /\ Len(r) + c = Len(w) /\ \A m \in 1 .. Len(r) : r[m] = w[c + m] BY <2>1 DEF Dropped
  <2>3. c \in 0 .. Len(v) /\ Len(s) + c = Len(v)
    <3>1. Len(s) = Len(r) + 1 /\ Len(r) \in Nat BY <1>3
    <3>2. Len(v) = Len(w) + 1 /\ Len(w) \in Nat BY <1>4
    <3>3. c \in Nat /\ Len(r) + c = Len(w) BY <2>2
    <3>4. PICK x : x = Len(r) OBVIOUS
    <3>5. PICK y : y = Len(w) OBVIOUS
    <3>6. Len(s) = x + 1 /\ Len(v) = y + 1 /\ x \in Nat /\ x + c = y BY <3>1, <3>2, <3>3, <3>4, <3>5
    <3> QED BY <3>3, <3>6
  <2>4. ASSUME NEW m \in 1 .. Len(s) PROVE s[m] = v[c + m]
    <3>0. Len(s) = Len(r) + 1 /\ Len(r) \in Nat /\ c \in Nat /\ Len(r) + c = Len(w) /\ Len(w) \in Nat
      BY <1>3, <1>4, <2>2
    <3>1. CASE m = Len(s)
      <4>1. c + m = Len(w) + 1 /\ m = Len(r) + 1 BY <3>0, <3>1
      <4> QED BY <1>3, <1>4, <4>1
    <3>2. CASE m # Len(s)
      <4>1. m \in 1 .. Len(r) /\ c + m \in 1 .. Len(w)
        <5>1. PICK x, y : x = Len(r) /\ y = Len(w) OBVIOUS
        <5>2. x \in Nat /\ c \in Nat /\ x + c = y /\ m \in 1 .. x + 1 /\ m # x + 1 BY <3>0, <3>2, <5>1
        <5>3. m \in 1 .. x /\ c + m \in 1 .. y BY <5>2
        <5> QED BY <5>1, <5>3
      <4> QED BY <1>3, <1>4, <2>2, <4>1
    <3> QED BY <3>1, <3>2
  <2>5. Dropped(s, v, c) BY <1>3, <2>2, <2>3, <2>4 DEF Dropped
  <2> QED BY <2>3, <2>5 DEF EndOf
<1>7. Lasting(r, w) => Lasting(s, v) BY <1>5 DEF Lasting
<1> QED BY <1>1, <1>2, <1>6, <1>7

\* A repack keeps what there was, and a part of it twice if it is torn.
LEMMA LastingSpliced ==
    ASSUME NEW r \in Seq(Nat), NEW w \in Seq(Nat), NEW s, NEW p, NEW c, Spliced(s, r, p, c)
    PROVE  /\ Lasting(r, w) => Lasting(s, w)
           /\ p = 0 => s = r
<1>1. /\ s \in Seq(Nat) /\ c \in Nat /\ p \in Nat /\ c <= p /\ p <= Len(r) /\ Len(r) \in Nat /\ Len(s) \in Nat
      /\ Len(s) = p + (Len(r) - c)
      /\ \A m \in 1 .. p : s[m] = r[m]
      /\ \A m \in 1 .. Len(r) - c : s[p + m] = r[c + m]
  <2>1. s \in Seq(Nat) BY DEF Spliced
  <2>2. Len(r) \in Nat /\ Len(s) \in Nat BY <2>1
  <2> QED BY <2>1, <2>2 DEF Spliced
<1>2. ASSUME NEW m \in p + 1 .. Len(s)
      PROVE  c + (m - p) \in c + 1 .. Len(r) /\ s[m] = r[c + (m - p)]
  <2>1. m - p \in 1 .. Len(r) - c /\ p + (m - p) = m /\ c + (m - p) \in c + 1 .. Len(r) BY <1>1
  <2> QED BY <1>1, <2>1
<1>3. ASSUME NEW m \in c + 1 .. Len(r)
      PROVE  p + (m - c) \in p + 1 .. Len(s) /\ s[p + (m - c)] = r[m]
  <2>1. m - c \in 1 .. Len(r) - c /\ c + (m - c) = m /\ p + (m - c) \in p + 1 .. Len(s) BY <1>1
  <2> QED BY <1>1, <2>1
<1>4. ASSUME Lasting(r, w), NEW j \in 1 .. Len(s) + 1
      PROVE  \E i \in 1 .. Len(w) + 1 : Values(s, j .. Len(s)) = Values(w, i .. Len(w))
  <2>0. /\ c \in Nat /\ p \in Nat /\ c <= p /\ p <= Len(r) /\ Len(r) \in Nat /\ Len(s) \in Nat
        /\ Len(s) = p + (Len(r) - c) /\ j \in Nat /\ j > 0 /\ j <= Len(s) + 1
    BY <1>1
  <2>6. PICK k : k = IF j > p THEN c + (j - p) ELSE IF j <= c THEN j ELSE c + 1 OBVIOUS
  <2>1. k \in 1 .. Len(r) + 1 /\ k \in Nat /\ k > 0 BY <2>0, <2>6
  <2>2. PICK i \in 1 .. Len(w) + 1 : Values(r, k .. Len(r)) = Values(w, i .. Len(w))
    BY <1>4, <2>1 DEF Lasting
  <2>3. ASSUME NEW m \in j .. Len(s) PROVE \E q \in k .. Len(r) : r[q] = s[m]
    <3>1. CASE m <= p
      <4>1. m \in 1 .. p /\ m \in k .. Len(r) BY <2>0, <2>1, <2>6, <3>1
      <4>2. r[m] = s[m] BY <1>1, <4>1
      <4> QED BY <4>1, <4>2
    <3>2. CASE m > p
      <4>1. m \in p + 1 .. Len(s) BY <2>0, <3>2
      <4>2. c + (m - p) \in k .. Len(r) BY <2>0, <2>6, <4>1
      <4> QED BY <1>2, <4>1, <4>2
    <3>3. m \in Int BY <2>0
    <3> QED BY <2>0, <3>1, <3>2, <3>3
  <2>4. ASSUME NEW m \in k .. Len(r) PROVE \E q \in j .. Len(s) : s[q] = r[m]
    <3>1. CASE m <= c
      <4>1. m \in 1 .. p /\ m \in j .. Len(s)
        <5>1. PICK x, y : x = Len(r) /\ y = Len(s) OBVIOUS
        <5>2. x \in Nat /\ y = p + (x - c) /\ c \in Nat /\ p \in Nat /\ c <= p /\ p <= x /\ j \in Nat
          BY <2>0, <5>1
        <5>3. m \in k .. x /\ k \in Nat /\ k > 0 BY <2>1, <5>1
        <5>4. m \in 1 .. p BY <3>1, <5>2, <5>3
        <5>5. ~(j > p) /\ ~(k = c + 1) BY <2>6, <3>1, <5>2, <5>3
        <5>6. k = j BY <2>6, <5>5
        <5>7. m \in j .. y BY <3>1, <5>2, <5>3, <5>6
        <5> QED BY <5>1, <5>4, <5>7
      <4>2. s[m] = r[m] BY <1>1, <4>1
      <4> QED BY <4>1, <4>2
    <3>2. CASE m > c
      <4>1. m \in c + 1 .. Len(r) BY <2>0, <2>1, <3>2
      <4>2. p + (m - c) \in j .. Len(s) BY <2>0, <2>1, <2>6, <4>1
      <4> QED BY <1>3, <4>1, <4>2
    <3>3. m \in Int BY <2>0, <2>1
    <3> QED BY <2>0, <3>1, <3>2, <3>3
  <2>5. Values(s, j .. Len(s)) = Values(r, k .. Len(r)) 
    <3>1. PICK A : A = j .. Len(s) OBVIOUS
    <3>2. PICK B : B = k .. Len(r) OBVIOUS
    <3>3. \A a \in A : \E b \in B : r[b] = s[a] BY <2>3, <3>1, <3>2
    <3>4. \A b \in B : \E a \in A : s[a] = r[b] BY <2>4, <3>1, <3>2
    <3>5. Values(s, A) = Values(r, B) BY <3>3, <3>4, SameValues
    <3> QED BY <3>1, <3>2, <3>5
  <2> QED BY <2>2, <2>5
<1>5. ASSUME p = 0 PROVE s = r
  <2>1. c = 0 /\ Len(s) = Len(r) BY <1>1, <1>5
  <2>2. \A m \in 1 .. Len(r) : s[m] = r[m]
    <3> SUFFICES ASSUME NEW m \in 1 .. Len(r) PROVE s[m] = r[m] OBVIOUS
    <3>1. m \in 1 .. Len(r) - c /\ p + m = m /\ c + m = m BY <1>1, <1>5, <2>1
    <3> QED BY <1>1, <3>1
  <2> QED BY <1>1, <2>1, <2>2, SeqEqual
<1> QED BY <1>4, <1>5 DEF Lasting

\* A rotation, finished or not.
LEMMA RotatedReflects ==
    ASSUME NEW fs, NEW w \in Seq(Nat), NEW whole, Reflects(fs, w, whole), NEW k \in Segments
    PROVE  Reflects(Rotated(fs, k), w, whole) /\ Rotated(fs, k)[k] = <<>>
<1>1. PICK to : to = Rotated(fs, k) OBVIOUS
<1>2. MaxRecords \in Nat /\ fs \in [Segments -> Seq(Nat)] /\ \A i \in Segments : Len(fs[i]) <= MaxRecords
  BY BusAssumption DEF Reflects
<1>3. /\ to \in [Segments -> Seq(Nat)] /\ to[k] = <<>> /\ Records(fs) \in Seq(Nat)
      /\ Dropped(Records(to), Records(fs), Len(fs[Backups]))
      /\ \A i \in Segments : to[i] = <<>> \/ \E j \in Segments : to[i] = fs[j]
  BY <1>1, <1>2, RotationDrops
<1>4. \A i \in Segments : Len(to[i]) <= MaxRecords
  <2> SUFFICES ASSUME NEW i \in Segments PROVE Len(to[i]) <= MaxRecords OBVIOUS
  <2>1. CASE to[i] = <<>> BY <1>2, <2>1
  <2>2. CASE \E j \in Segments : to[i] = fs[j] BY <1>2, <2>2
  <2> QED BY <1>3, <2>1, <2>2
<1>5. PICK r : r = Records(fs) OBVIOUS
<1>6. PICK s : s = Records(to) OBVIOUS
<1>7. PICK d : d = Len(fs[Backups]) OBVIOUS
<1>8. r \in Seq(Nat) /\ Dropped(s, r, d) BY <1>3, <1>5, <1>6, <1>7
<1>9. Lasting(r, w) => Lasting(s, w) BY <1>8, LastingDrops
<1>10. EndOf(r, w) => EndOf(s, w) BY <1>8, LastingDrops
<1>11. Lasting(r, w) /\ (whole => EndOf(r, w)) BY <1>5 DEF Reflects
<1>12. Reflects(to, w, whole) BY <1>3, <1>4, <1>6, <1>9, <1>10, <1>11 DEF Reflects
<1> QED BY <1>1, <1>3, <1>12

LEMMA RecordReflects ==
    ASSUME NEW fs, NEW w \in Seq(Nat), NEW whole, Reflects(fs, w, whole), NEW e \in Nat
    PROVE  Reflects(AppendRecord(fs, e), Append(w, e), whole)
<1>1. PICK from : from = IF Full(fs) THEN Rotated(fs, 0) ELSE fs OBVIOUS
<1>2. MaxRecords \in Nat \ {0} /\ 0 \in Segments BY BusAssumption DEF Segments
<1>3. Reflects(from, w, whole) /\ Len(from[0]) < MaxRecords
  <2>1. CASE Full(fs)
    <3>1. Reflects(from, w, whole) /\ from[0] = <<>> BY <1>1, <1>2, <2>1, RotatedReflects
    <3> QED BY <1>2, <3>1
  <2>2. CASE ~Full(fs)
    <3>1. from = fs BY <1>1, <2>2
    <3>2. fs[0] \in Seq(Nat) /\ ~(Len(fs[0]) >= MaxRecords) BY <1>2, <2>2 DEF Full, Reflects
    <3>3. Len(fs[0]) \in Nat BY <3>2
    <3>4. Len(fs[0]) < MaxRecords BY <1>2, <3>2, <3>3
    <3> QED BY <3>1, <3>4
  <2> QED BY <2>1, <2>2
<1>4. from \in [Segments -> Seq(Nat)] /\ \A i \in Segments : Len(from[i]) <= MaxRecords BY <1>3 DEF Reflects
<1>5. PICK to : to = [from EXCEPT ![0] = Append(@, e)] OBVIOUS
<1>6. to \in [Segments -> Seq(Nat)] /\ Records(to) = Append(Records(from), e)
  BY <1>4, <1>5, RecordAppended
<1>7. \A i \in Segments : Len(to[i]) <= MaxRecords
  <2> SUFFICES ASSUME NEW i \in Segments PROVE Len(to[i]) <= MaxRecords OBVIOUS
  <2>1. CASE i = 0
    <3>1. PICK z : z = from[0] OBVIOUS
    <3>2. z \in Seq(Nat) /\ Len(z) < MaxRecords BY <1>2, <1>3, <1>4, <3>1
    <3>3. to[i] = Append(z, e) BY <1>2, <1>4, <1>5, <2>1, <3>1
    <3>4. Len(to[i]) = Len(z) + 1 /\ Len(z) \in Nat BY <3>2, <3>3
    <3> QED BY <1>2, <3>2, <3>4
  <2>2. CASE i # 0 BY <1>4, <1>5, <2>2
  <2> QED BY <2>1, <2>2
<1>8. PICK r : r = Records(from) OBVIOUS
<1>9. r \in Seq(Nat) BY <1>2, <1>4, <1>8, RotationDrops
<1>10. Lasting(r, w) => Lasting(Append(r, e), Append(w, e)) BY <1>9, LastingGrows
<1>11. EndOf(r, w) => EndOf(Append(r, e), Append(w, e)) BY <1>9, LastingGrows
<1>12. Lasting(r, w) /\ (whole => EndOf(r, w)) BY <1>3, <1>8 DEF Reflects
<1>13. Reflects(to, Append(w, e), whole) BY <1>6, <1>7, <1>8, <1>10, <1>11, <1>12 DEF Reflects
<1> QED BY <1>1, <1>5, <1>13 DEF AppendRecord

\* g[n] are the files once n records of b have been appended.
Grown(g, fs, b) == g[0] = fs /\ \A n \in 1 .. Len(b) : g[n] = AppendRecord(g[n - 1], b[n])

LEMMA ManyIsGrown ==
    ASSUME NEW fs, NEW b \in Seq(Nat)
    PROVE  \E g : Grown(g, fs, b) /\ AppendMany(fs, b) = g[Len(b)]
<1>1. PICK N : N = Len(b) OBVIOUS
<1>2. N \in Nat BY <1>1
<1> DEFINE Upto(g, m) == g[0] = fs /\ \A n \in 1 .. m : g[n] = AppendRecord(g[n - 1], b[n])
           Bad == {m \in 0 .. N : ~\E g : Upto(g, m)}
<1>3. Bad = {}
  <2> SUFFICES ASSUME Bad # {} PROVE FALSE OBVIOUS
  <2>1. Bad \in SUBSET Nat
    <3> HIDE DEF Upto
    <3> QED BY <1>2
  <2>2. PICK m \in Bad : \A j \in Bad : ~(j < m)
    <3> HIDE DEF Bad
    <3> QED BY <2>1, LeastNatural
  <2>3. m # 0
    <3>1. Upto([n \in {0} |-> fs], 0) OBVIOUS
    <3> QED BY <3>1
  <2>4. m \in 1 .. N /\ m - 1 \in 0 .. N /\ m - 1 < m BY <1>2, <2>3
  <2>5. PICK g : Upto(g, m - 1) BY <2>2, <2>4
  <2> DEFINE h == [n \in 0 .. m |-> IF n < m THEN g[n] ELSE AppendRecord(g[m - 1], b[m])]
  <2>6. Upto(h, m)
    <3>1. h[0] = fs BY <2>4, <2>5
    <3>2. ASSUME NEW n \in 1 .. m PROVE h[n] = AppendRecord(h[n - 1], b[n])
      <4>1. h[n - 1] = g[n - 1] BY <2>4
      <4>2. CASE n < m
        <5>1. n \in 1 .. m - 1 /\ h[n] = g[n] BY <2>4, <4>2
        <5>2. g[n] = AppendRecord(g[n - 1], b[n]) BY <2>5, <5>1
        <5> QED BY <4>1, <5>1, <5>2
      <4>3. CASE n = m BY <2>4, <4>1, <4>3
      <4> QED BY <2>4, <4>2, <4>3
    <3> HIDE DEF h
    <3> QED BY <3>1, <3>2
  <2> QED BY <2>6
<1>4. N \notin Bad BY <1>3
<1>5. PICK g : Upto(g, N)
  <2> HIDE DEF Upto
  <2> QED BY <1>2, <1>4
<1> DEFINE Body(f) == [n \in 0 .. Len(b) |-> IF n = 0 THEN fs ELSE AppendRecord(f[n - 1], b[n])]
           after == CHOOSE f : f = Body(f)
           k == [n \in 0 .. N |-> g[n]]
<1>6. AppendMany(fs, b) = after[N] BY <1>1 DEF AppendMany
<1>7. k = Body(k)
  <2>1. ASSUME NEW n \in 0 .. Len(b) PROVE g[n] = IF n = 0 THEN fs ELSE AppendRecord(k[n - 1], b[n])
    <3>1. CASE n = 0 BY <1>5, <3>1
    <3>2. CASE n # 0
      <4>1. n \in 1 .. N /\ n - 1 \in 0 .. N BY <1>1, <1>2, <3>2
      <4>2. k[n - 1] = g[n - 1] BY <4>1
      <4> QED BY <1>5, <3>2, <4>1, <4>2
    <3> QED BY <3>1, <3>2
  <2> QED BY <1>1, <2>1
<1>8. after = Body(after)
  <2> HIDE DEF Body, k
  <2> QED BY <1>7
<1> HIDE DEF after
<1>9. after[0] = fs
  <2>1. Body(after)[0] = fs BY <1>1, <1>2
  <2> HIDE DEF Body
  <2> QED BY <1>8, <2>1
<1>10. ASSUME NEW n \in 1 .. Len(b) PROVE after[n] = AppendRecord(after[n - 1], b[n])
  <2>1. n \in 0 .. Len(b) /\ n # 0 BY <1>1, <1>2
  <2>2. Body(after)[n] = AppendRecord(after[n - 1], b[n]) BY <2>1
  <2> HIDE DEF Body
  <2> QED BY <1>8, <2>2
<1>11. Grown(after, fs, b) BY <1>9, <1>10 DEF Grown
<1> QED BY <1>1, <1>6, <1>11

LEMMA ManyReflects ==
    ASSUME NEW fs, NEW w \in Seq(Nat), NEW whole, Reflects(fs, w, whole), NEW b \in Seq(Nat)
    PROVE  Reflects(AppendMany(fs, b), w \o b, whole)
<1>1. PICK N : N = Len(b) OBVIOUS
<1>2. N \in Nat BY <1>1
<1>3. PICK g : Grown(g, fs, b) /\ AppendMany(fs, b) = g[N] BY <1>1, ManyIsGrown
<1> DEFINE Fine(n) == Reflects(g[n], w \o SubSeq(b, 1, n), whole)
           Bad == {n \in 0 .. N : ~Fine(n)}
<1>4. Bad = {}
  <2> SUFFICES ASSUME Bad # {} PROVE FALSE OBVIOUS
  <2>1. Bad \in SUBSET Nat
    <3> HIDE DEF Fine
    <3> QED BY <1>2
  <2>2. PICK n \in Bad : \A j \in Bad : ~(j < n)
    <3> HIDE DEF Bad
    <3> QED BY <2>1, LeastNatural
  <2>3. n # 0
    <3>1. SubSeq(b, 1, 0) = <<>> OBVIOUS
    <3>2. w \o SubSeq(b, 1, 0) = w BY <3>1, JoinedEmpty
    <3>3. g[0] = fs BY <1>3 DEF Grown
    <3>4. Fine(0) BY <3>2, <3>3
    <3> QED BY <2>2, <3>4
  <2>4. n \in 1 .. N /\ n - 1 \in 0 .. N /\ n - 1 < n /\ n \in Nat BY <1>2, <2>3
  <2>5. Fine(n - 1)
    <3> HIDE DEF Fine
    <3> QED BY <2>2, <2>4
  <2>6. PICK u : u = SubSeq(b, 1, n - 1) OBVIOUS
  <2>7. PICK e : e = b[n] OBVIOUS
  <2>8. e \in Nat /\ u \in Seq(Nat)
    <3>1. e \in Nat BY <1>1, <2>4, <2>7
    <3>2. u \in Seq(Nat) BY <1>1, <1>2, <2>4, <2>6
    <3> QED BY <3>1, <3>2
  <2>9. SubSeq(b, 1, n) = Append(u, e)
    <3>1. PICK x : x = SubSeq(b, 1, n) OBVIOUS
    <3>2. PICK y : y = Append(u, e) OBVIOUS
    <3>3. x \in Seq(Nat) /\ Len(x) = n /\ \A m \in 1 .. n : x[m] = b[m]
      BY <1>1, <1>2, <2>4, <3>1, SMTT(20)
    <3>4. Len(u) = n - 1 /\ \A m \in 1 .. n - 1 : u[m] = b[m]
      BY <1>1, <1>2, <2>4, <2>6, SMTT(20)
    <3>5. y \in Seq(Nat) /\ Len(y) = Len(u) + 1 /\ y[Len(u) + 1] = e /\ \A m \in 1 .. Len(u) : y[m] = u[m]
      BY <2>8, <3>2
    <3>6. Len(x) = Len(y) BY <2>4, <3>3, <3>4, <3>5
    <3>7. ASSUME NEW m \in 1 .. Len(x) PROVE x[m] = y[m]
      <4>1. CASE m = n
        <5>1. x[m] = e BY <2>7, <3>3, <4>1
        <5>2. m = Len(u) + 1 BY <2>4, <3>4, <4>1
        <5> QED BY <3>5, <5>1, <5>2
      <4>2. CASE m # n
        <5>1. m \in 1 .. n - 1 /\ m \in 1 .. n /\ m \in 1 .. Len(u) BY <2>4, <3>3, <3>4, <4>2
        <5> QED BY <3>3, <3>4, <3>5, <5>1
      <4> QED BY <4>1, <4>2
    <3>8. x = y BY <3>3, <3>5, <3>6, <3>7, SeqEqual
    <3> QED BY <3>1, <3>2, <3>8
  <2>10. PICK v : v = w \o u OBVIOUS
  <2>11. v \in Seq(Nat) BY <2>8, <2>10, ConcatProperties
  <2>12. w \o Append(u, e) = Append(v, e)
    <3>1. <<e>> \in Seq(Nat) /\ Append(u, e) = u \o <<e>> BY <2>8
    <3>2. Append(v, e) = v \o <<e>> BY <2>8, <2>11
    <3>3. w \o (u \o <<e>>) = (w \o u) \o <<e>> BY <2>8, <3>1, JoinedAgain
    <3> QED BY <2>10, <3>1, <3>2, <3>3
  <2>13. g[n] = AppendRecord(g[n - 1], e) BY <1>1, <1>3, <2>4, <2>7 DEF Grown
  <2>14. Reflects(g[n - 1], v, whole) BY <2>5, <2>6, <2>10
  <2>15. Reflects(g[n], Append(v, e), whole) BY <2>8, <2>11, <2>13, <2>14, RecordReflects
  <2>16. Fine(n) BY <2>9, <2>12, <2>15
  <2> QED BY <2>2, <2>16
<1>5. N \notin Bad BY <1>4
<1>6. Fine(N)
  <2> HIDE DEF Fine
  <2> QED BY <1>2, <1>5
<1>7. SubSeq(b, 1, N) = b BY <1>1
<1> QED BY <1>3, <1>6, <1>7

LEMMA RepackReflects ==
    ASSUME NEW fs, NEW w \in Seq(Nat), NEW whole, Reflects(fs, w, whole)
    PROVE  /\ Reflects(Repacked(fs, Backups), w, whole)
           /\ \A k \in Segments : Reflects(Repacked(fs, k), w, FALSE)
<1>1. Backups \in Segments BY BusAssumption DEF Segments
<1>2. fs \in [Segments -> Seq(Nat)] /\ \A i \in Segments : Len(fs[i]) <= MaxRecords BY DEF Reflects
<1>3. PICK r : r = Records(fs) OBVIOUS
<1>4. r \in Seq(Nat) BY <1>1, <1>2, <1>3, RotationDrops
<1>5. Lasting(r, w) /\ (whole => EndOf(r, w)) BY <1>3 DEF Reflects
<1>6. ASSUME NEW k \in Segments
      PROVE  Reflects(Repacked(fs, k), w, FALSE) /\ (k = Backups => Reflects(Repacked(fs, k), w, whole))
  <2>1. PICK to : to = Repacked(fs, k) OBVIOUS
  <2>2. PICK s : s = Records(to) OBVIOUS
  <2>3. /\ to \in [Segments -> Seq(Nat)] /\ \A i \in Segments : Len(to[i]) <= MaxRecords
        /\ \E p, c \in Nat : Spliced(s, r, p, c) /\ (k = Backups => p = 0)
    BY <1>2, <1>3, <2>1, <2>2, RepackSplices
  <2>4. PICK p, c \in Nat : Spliced(s, r, p, c) /\ (k = Backups => p = 0) BY <2>3
  <2>5. Lasting(r, w) => Lasting(s, w) BY <1>4, <2>4, LastingSpliced
  <2>6. p = 0 => s = r BY <1>4, <2>4, LastingSpliced
  <2>7. Lasting(s, w) BY <1>5, <2>5
  <2>8. Reflects(to, w, FALSE) BY <2>2, <2>3, <2>7 DEF Reflects
  <2>9. ASSUME k = Backups PROVE Reflects(to, w, whole)
    <3>1. s = r BY <2>4, <2>6, <2>9
    <3> QED BY <1>5, <2>2, <2>3, <2>7, <3>1 DEF Reflects
  <2> QED BY <2>1, <2>8, <2>9
<1> QED BY <1>1, <1>6

-----------------------------------------------------------------------------
(* The invariant of the trace.  What is pending for it are the last events  *)
(* that were emitted; all before them have been written.                    *)

WrittenOK == written \in Seq(Nat) /\ FirstAfter(written)
PendingOK == Handed \in Nat /\ Consecutive(pending["trace"], Handed) /\ Sent(written, Handed)
TracerOK == \A t \in Tasks :
    /\ at[t] \in {"trace", "traced"} => Consecutive(batch, Handed) /\ Len(batch) <= Len(pending["trace"])
    /\ at[t] = "traced" => Sent(written, Handed + Len(batch))
TraceOrphansOK == \A w \in orphans : w.sink = "trace" => \E i \in 0 .. Handed : Consecutive(w.batch, i)
FilesOK == torn \in BOOLEAN /\ Reflects(files, written, ~torn)

TInv == WrittenOK /\ PendingOK /\ TracerOK /\ TraceOrphansOK /\ FilesOK

LEMMA TraceStays ==
    ASSUME TInv, UNCHANGED <<emitted, trace>>, pending'["trace"] = pending["trace"]
    PROVE  /\ Handed' = Handed /\ WrittenOK' /\ PendingOK' /\ FilesOK'
           /\ orphans' \subseteq orphans => TraceOrphansOK'
           /\ \A n : Sent(written, n) => Sent(written', n)
<1>1. written' = written /\ files' = files /\ torn' = torn BY DEF trace
<1>2. Handed' = Handed BY DEF Handed
<1>3. WrittenOK' BY <1>1 DEF TInv, WrittenOK, FirstAfter
<1>4. PendingOK' BY <1>1, <1>2 DEF TInv, PendingOK
<1>5. FilesOK' BY <1>1 DEF TInv, FilesOK
<1>6. orphans' \subseteq orphans => TraceOrphansOK' BY <1>2 DEF TInv, TraceOrphansOK
<1> QED BY <1>1, <1>2, <1>3, <1>4, <1>5, <1>6

\* Whoever writes the trace goes on with its batch.
LEMMA TracerStays ==
    ASSUME TracerOK, Handed' = Handed, pending'["trace"] = pending["trace"],
           \A n : Sent(written, n) => Sent(written', n),
           \A u \in Tasks : at'[u] \in {"trace", "traced"} => at'[u] = at[u] /\ batch' = batch
    PROVE  TracerOK'
<1> SUFFICES ASSUME NEW u \in Tasks
             PROVE  /\ at'[u] \in {"trace", "traced"} =>
                          Consecutive(batch', Handed') /\ Len(batch') <= Len(pending'["trace"])
                    /\ at'[u] = "traced" => Sent(written', Handed' + Len(batch'))
  BY DEF TracerOK
<1>1. CASE at'[u] \in {"trace", "traced"}
  <2>1. at'[u] = at[u] /\ batch' = batch BY <1>1
  <2> QED BY <1>1, <2>1 DEF TracerOK
<1>2. CASE at'[u] \notin {"trace", "traced"} BY <1>2
<1> QED BY <1>1, <1>2

LEMMA LeaverTraces ==
    ASSUME IInv, NEW t \in Tasks, at[t] # "idle", Leave(t)
    PROVE  \A u \in Tasks : at'[u] \in {"trace", "traced"} => at'[u] = at[u] /\ batch' = batch
<1> SUFFICES ASSUME NEW u \in Tasks, at'[u] \in {"trace", "traced"} PROVE at'[u] = at[u] /\ batch' = batch
  OBVIOUS
<1>1. at'[t] = "idle" /\ (\A v \in Tasks \ {t} : at'[v] = at[v])
      /\ \A v \in Tasks : at'[v] \in Working => batch' = batch
  BY LeaveKeeps DEF IInv
<1>2. at'[u] \in Working /\ u # t BY <1>1 DEF Working
<1> QED BY <1>1, <1>2

\* A task that takes the lock writes what is pending.
LEMMA SubmitTraces ==
    ASSUME PendingOK', NEW t \in Tasks, NEW sink \in Sinks, at \in [Tasks -> Places],
           at' = [at EXCEPT ![t] = sink], batch' = pending'[sink],
           \A u \in Tasks \ {t} : ~(at[u] \in Working), pending' \in [Sinks -> Seq(Nat)]
    PROVE  TracerOK'
<1>1. at'[t] = sink /\ \A u \in Tasks \ {t} : at'[u] = at[u] BY DEF Places
<1>2. sink # "traced" BY DEF Sinks
<1>3. ASSUME sink = "trace" PROVE Consecutive(batch', Handed') /\ Len(batch') <= Len(pending'["trace"])
  <2>1. batch' = pending'["trace"] /\ pending'["trace"] \in Seq(Nat) BY <1>3 DEF Sinks
  <2> QED BY <2>1 DEF PendingOK
<1>4. \A u \in Tasks : at'[u] \in {"trace", "traced"} => u = t /\ sink = "trace" BY <1>1, <1>2 DEF Working
<1> QED BY <1>1, <1>2, <1>3, <1>4 DEF TracerOK

\* A thread appends a batch, or the beginning of one, that continues what was written.
LEMMA TraceGrows ==
    ASSUME TInv, Handed' = Handed, UNCHANGED <<emitted, torn>>, pending'["trace"] = pending["trace"],
           NEW b \in Seq(Nat), NEW i \in 0 .. Handed, Consecutive(b, i), written' = written \o b,
           Reflects(files', written', ~torn)
    PROVE  /\ WrittenOK' /\ PendingOK' /\ FilesOK' /\ Sent(written', i + Len(b))
           /\ \A n : Sent(written, n) => Sent(written', n)
           /\ orphans' \subseteq orphans => TraceOrphansOK'
<1>1. Handed \in Nat /\ Sent(written, Handed) /\ written \in Seq(Nat) /\ FirstAfter(written)
  BY DEF TInv, PendingOK, WrittenOK
<1>2. i \in Nat /\ Sent(written, i)
  <2>1. i \in Nat /\ 1 .. i \subseteq 1 .. Handed BY <1>1
  <2> QED BY <1>1, <2>1 DEF Sent
<1>3. PICK r : r = written' OBVIOUS
<1>4. r = written \o b BY <1>3
<1>5. r \in Seq(Nat) /\ FirstAfter(r) /\ Sent(r, i + Len(b)) /\ \A n : Sent(written, n) => Sent(r, n)
  BY <1>1, <1>2, <1>4, BatchWritten
<1>6. WrittenOK'
  <2>1. written' \in Seq(Nat) /\ FirstAfter(written') BY <1>3, <1>5
  <2> QED BY <2>1 DEF WrittenOK
<1>7. PendingOK' BY <1>1, <1>3, <1>5 DEF TInv, PendingOK
<1>8. FilesOK' BY DEF TInv, FilesOK
<1>9. orphans' \subseteq orphans => TraceOrphansOK' BY DEF TInv, TraceOrphansOK
<1> QED BY <1>3, <1>5, <1>6, <1>7, <1>8, <1>9

LEMMA TraceInit == Init => TInv
<1> SUFFICES ASSUME Init PROVE TInv OBVIOUS
<1>1. /\ emitted = <<>> /\ pending["trace"] = <<>> /\ written = <<>> /\ torn = FALSE
      /\ files = [i \in Segments |-> <<>>] /\ orphans = {} /\ at = [t \in Tasks |-> "idle"]
  BY DEF Init, Sinks
<1>2. Handed = 0 BY <1>1 DEF Handed
<1>3. WrittenOK BY <1>1 DEF WrittenOK, FirstAfter
<1>4. PendingOK BY <1>1, <1>2 DEF PendingOK, Consecutive, Sent
<1>5. TracerOK /\ TraceOrphansOK BY <1>1 DEF TracerOK, TraceOrphansOK
<1>6. FilesOK
  <2>1. MaxRecords \in Nat /\ Backups \in Nat BY BusAssumption
  <2>2. files \in [Segments -> Seq(Nat)] /\ \A i \in Segments : files[i] = <<>> /\ Len(files[i]) <= MaxRecords
    BY <1>1, <2>1
  <2> DEFINE g == [n \in 0 .. Backups + 1 |-> <<>>]
  <2>3. Flat(g, files)
    <3>1. g[0] = <<>> BY <2>1
    <3>2. ASSUME NEW n \in 1 .. Backups + 1 PROVE g[n] = g[n - 1] \o files[Backups + 1 - n]
      <4>1. n \in 0 .. Backups + 1 /\ n - 1 \in 0 .. Backups + 1 /\ Backups + 1 - n \in Segments
        BY <2>1 DEF Segments
      <4>2. g[n] = <<>> /\ g[n - 1] = <<>> /\ files[Backups + 1 - n] = <<>> BY <2>2, <4>1
      <4> HIDE DEF g
      <4> QED BY <4>2
    <3> HIDE DEF g
    <3> QED BY <3>1, <3>2 DEF Flat
  <2>4. g[Backups + 1] = <<>> BY <2>1
  <2>5. Records(files) = <<>>
    <3> HIDE DEF g
    <3> QED BY <2>2, <2>3, <2>4, RecordsAre
  <2>6. Lasting(<<>>, <<>>) BY DEF Lasting, Values
  <2>7. EndOf(<<>>, <<>>) BY DEF EndOf, Dropped
  <2> QED BY <1>1, <2>2, <2>5, <2>6, <2>7 DEF FilesOK, Reflects
<1> QED BY <1>3, <1>4, <1>5, <1>6 DEF TInv

LEMMA EmitTraces ==
    ASSUME IInv, TInv, NEW t \in Tasks, NEW kind \in Kinds, Emit(t, kind)
    PROVE  TInv'
<1>1. PICK e : e = Len(emitted) + 1 OBVIOUS
<1>2. PICK p : p = [s \in Sinks |-> IF s = "trace" \/ Durable(kind) THEN Append(pending[s], e) ELSE pending[s]]
  OBVIOUS
<1>3. /\ at[t] = "idle" /\ emitted' = Append(emitted, kind) /\ pending' = p
      /\ \/ UNCHANGED <<at, batch>>
         \/ queue = <<>> /\ Submit(t, <<t>>, p, FirstSink(p))
         \/ at' = [at EXCEPT ![t] = "locking"] /\ UNCHANGED batch
      /\ UNCHANGED <<trace, orphans>>
  BY <1>1, <1>2 DEF Emit
<1>4. /\ written' = written /\ files' = files /\ torn' = torn
      /\ emitted \in Seq(Kinds) /\ pending \in [Sinks -> Seq(Nat)] /\ at \in [Tasks -> Places] /\ batch \in Seq(Nat)
      /\ queue \in Seq(Tasks)
  BY <1>3 DEF trace, IInv, Typed
<1>5. PICK q : q = pending["trace"] OBVIOUS
<1>6. q \in Seq(Nat) /\ pending'["trace"] = Append(q, e) /\ e \in Nat /\ Len(emitted) \in Nat
  <2>1. q \in Seq(Nat) BY <1>4, <1>5 DEF Sinks
  <2>2. p["trace"] = Append(q, e) BY <1>2, <1>5 DEF Sinks
  <2>3. Len(emitted) \in Nat BY <1>4
  <2> QED BY <1>1, <1>3, <2>1, <2>2, <2>3
<1>7. /\ Len(pending'["trace"]) = Len(q) + 1 /\ Len(q) \in Nat
      /\ pending'["trace"][Len(q) + 1] = e /\ \A k \in 1 .. Len(q) : pending'["trace"][k] = q[k]
  BY <1>6
<1>8. Handed = Len(emitted) - Len(q) /\ Handed \in Nat /\ Consecutive(q, Handed) /\ Sent(written, Handed)
  BY <1>5 DEF Handed, TInv, PendingOK
<1>9. Handed' = Handed
  <2>1. Len(emitted') = Len(emitted) + 1 BY <1>3, <1>4
  <2>2. PICK m : m = Len(emitted) OBVIOUS
  <2>3. PICK n : n = Len(q) OBVIOUS
  <2>4. m \in Nat /\ n \in Nat /\ Handed = m - n BY <1>6, <1>7, <1>8, <2>2, <2>3
  <2>5. Handed' = (m + 1) - (n + 1) BY <1>7, <2>1, <2>2, <2>3 DEF Handed
  <2> QED BY <2>4, <2>5
<1>10. Consecutive(pending'["trace"], Handed)
  <2> SUFFICES ASSUME NEW k \in 1 .. Len(q) + 1 PROVE pending'["trace"][k] = Handed + k
    BY <1>7 DEF Consecutive
  <2>1. CASE k = Len(q) + 1 BY <1>1, <1>6, <1>7, <1>8, <2>1
  <2>2. CASE k # Len(q) + 1
    <3>1. k \in 1 .. Len(q) BY <1>7, <2>2
    <3> QED BY <1>7, <1>8, <3>1 DEF Consecutive
  <2> QED BY <2>1, <2>2
<1>11. PendingOK' BY <1>4, <1>8, <1>9, <1>10 DEF PendingOK
<1>12. WrittenOK' /\ FilesOK' BY <1>4 DEF TInv, WrittenOK, FilesOK, FirstAfter
<1>13. TraceOrphansOK' BY <1>3, <1>9 DEF TInv, TraceOrphansOK
<1>14. TracerOK'
  <2>1. ASSUME batch' = batch, \A u \in Tasks : at'[u] \in {"trace", "traced"} => at'[u] = at[u]
        PROVE  TracerOK'
    <3>1. Len(q) <= Len(pending'["trace"]) /\ Len(batch) \in Nat BY <1>4, <1>7
    <3> SUFFICES ASSUME NEW u \in Tasks, at'[u] \in {"trace", "traced"}
                 PROVE  /\ Consecutive(batch, Handed) /\ Len(batch) <= Len(pending'["trace"])
                        /\ at'[u] = "traced" => Sent(written, Handed + Len(batch))
      BY <1>4, <1>9, <2>1 DEF TracerOK
    <3>2. at[u] = at'[u] BY <2>1
    <3>3. /\ Consecutive(batch, Handed) /\ Len(batch) <= Len(q)
          /\ at[u] = "traced" => Sent(written, Handed + Len(batch))
      BY <1>5, <3>2 DEF TInv, TracerOK
    <3>4. Len(batch) <= Len(pending'["trace"]) BY <1>7, <3>1, <3>3
    <3> QED BY <3>2, <3>3, <3>4
  <2>2. CASE UNCHANGED <<at, batch>> BY <2>1, <2>2
  <2>3. CASE at' = [at EXCEPT ![t] = "locking"] /\ UNCHANGED batch BY <1>4, <2>1, <2>3
  <2>4. CASE queue = <<>> /\ Submit(t, <<t>>, p, FirstSink(p))
    <3>1. PICK sink : sink = FirstSink(p) OBVIOUS
    <3>2. sink \in Sinks BY <3>1 DEF FirstSink, Sinks
    <3>3. at' = [at EXCEPT ![t] = sink] /\ batch' = pending'[sink] BY <1>3, <2>4, <3>1 DEF Submit
    <3>4. \A u \in Tasks \ {t} : ~(at[u] \in Working)
      <4>1. \A u \in Tasks : at[u] = "idle" BY <2>4 DEF IInv, LockOK
      <4> QED BY <4>1 DEF Working
    <3>5. pending' \in [Sinks -> Seq(Nat)] BY <1>2, <1>3, <1>4, <1>6
    <3> QED BY <1>4, <1>11, <3>2, <3>3, <3>4, <3>5, SubmitTraces
  <2> QED BY <1>3, <2>2, <2>3, <2>4
<1> QED BY <1>11, <1>12, <1>13, <1>14 DEF TInv

LEMMA TakeLockTraces ==
    ASSUME IInv, TInv, NEW t \in Tasks, TakeLock(t)
    PROVE  TInv'
<1>1. at[t] = "locking" /\ Head(queue) = t /\ UNCHANGED <<emitted, pending, trace, orphans>> BY DEF TakeLock
<1>2. /\ Handed' = Handed /\ WrittenOK' /\ PendingOK' /\ FilesOK' /\ TraceOrphansOK'
      /\ \A n : Sent(written, n) => Sent(written', n)
  BY <1>1, TraceStays
<1>3. CASE \E s \in Sinks : pending[s] # <<>>
  <2>1. PICK sink : sink = FirstSink(pending) OBVIOUS
  <2>2. sink \in Sinks BY <2>1 DEF FirstSink, Sinks
  <2>3. at' = [at EXCEPT ![t] = sink] /\ batch' = pending'[sink] BY <1>1, <1>3, <2>1 DEF TakeLock, Submit
  <2>4. \A u \in Tasks \ {t} : ~(at[u] \in Working) BY <1>1, FirstIsAlone DEF IInv
  <2>5. at \in [Tasks -> Places] /\ pending' \in [Sinks -> Seq(Nat)] BY <1>1 DEF IInv, Typed
  <2>6. TracerOK' BY <1>2, <2>2, <2>3, <2>4, <2>5, SubmitTraces
  <2> QED BY <1>2, <2>6 DEF TInv
<1>4. CASE ~\E s \in Sinks : pending[s] # <<>>
  <2>1. Leave(t) BY <1>4 DEF TakeLock, Finish
  <2>2. \A u \in Tasks : at'[u] \in {"trace", "traced"} => at'[u] = at[u] /\ batch' = batch
    BY <1>1, <2>1, LeaverTraces
  <2>3. TracerOK' BY <1>1, <1>2, <2>2, TracerStays DEF TInv
  <2> QED BY <1>2, <2>3 DEF TInv
<1> QED BY <1>3, <1>4

LEMMA StoredTraces ==
    ASSUME IInv, TInv, NEW t \in Tasks, Stored(t)
    PROVE  TInv'
<1>1. at' = [at EXCEPT ![t] = "stored"] /\ UNCHANGED <<emitted, pending, trace, batch, orphans>> BY DEF Stored
<1>2. /\ Handed' = Handed /\ WrittenOK' /\ PendingOK' /\ FilesOK' /\ TraceOrphansOK'
      /\ \A n : Sent(written, n) => Sent(written', n)
  BY <1>1, TraceStays
<1>3. \A u \in Tasks : at'[u] \in {"trace", "traced"} => at'[u] = at[u] /\ batch' = batch
  BY <1>1 DEF IInv, Typed
<1>4. TracerOK' BY <1>1, <1>2, <1>3, TracerStays DEF TInv
<1> QED BY <1>2, <1>4 DEF TInv

LEMMA TracedTraces ==
    ASSUME IInv, TInv, NEW t \in Tasks, Traced(t)
    PROVE  TInv'
<1>1. /\ at[t] = "trace" /\ at' = [at EXCEPT ![t] = "traced"]
      /\ files' = AppendMany(files, batch) /\ written' = written \o batch /\ torn' = torn
      /\ UNCHANGED <<emitted, pending, batch, orphans>>
  BY DEF Traced, TraceBatch
<1>2. Consecutive(batch, Handed) /\ Len(batch) <= Len(pending["trace"]) BY <1>1 DEF TInv, TracerOK
<1>3. /\ batch \in Seq(Nat) /\ at \in [Tasks -> Places] /\ Handed \in Nat
      /\ written \in Seq(Nat) /\ Reflects(files, written, ~torn)
  BY DEF IInv, Typed, TInv, PendingOK, WrittenOK, FilesOK
<1>4. Reflects(files', written', ~torn) BY <1>1, <1>3, ManyReflects
<1>5. Handed' = Handed BY <1>1 DEF Handed
<1>6. Handed \in 0 .. Handed BY <1>3
<1>7. /\ WrittenOK' /\ PendingOK' /\ FilesOK' /\ Sent(written', Handed + Len(batch)) /\ TraceOrphansOK'
  BY <1>1, <1>2, <1>3, <1>4, <1>5, <1>6, TraceGrows
<1>8. TracerOK'
  <2>1. at'[t] = "traced" /\ \A u \in Tasks \ {t} : at'[u] = at[u] BY <1>1, <1>3
  <2>2. \A u \in Tasks \ {t} : ~(at[u] \in Working) BY <1>1, OneHolder DEF IInv, Working
  <2>3. \A u \in Tasks : at'[u] \in {"trace", "traced"} => u = t BY <2>1, <2>2 DEF Working
  <2> QED BY <1>1, <1>2, <1>5, <1>7, <2>3 DEF TracerOK
<1> QED BY <1>7, <1>8 DEF TInv

LEMMA SinkFailsTraces ==
    ASSUME IInv, TInv, NEW t \in Tasks, SinkFails(t)
    PROVE  TInv'
<1>1. at[t] \in Sinks /\ Leave(t) /\ UNCHANGED <<emitted, pending, orphans>> BY DEF SinkFails
<1>2. \A u \in Tasks : at'[u] \in {"trace", "traced"} => at'[u] = at[u] /\ batch' = batch
  <2>1. at[t] # "idle" BY <1>1 DEF Sinks
  <2> QED BY <1>1, <2>1, LeaverTraces
<1>3. CASE at[t] = "store"
  <2>1. UNCHANGED trace BY <1>3 DEF SinkFails
  <2>2. /\ Handed' = Handed /\ WrittenOK' /\ PendingOK' /\ FilesOK' /\ TraceOrphansOK'
        /\ \A n : Sent(written, n) => Sent(written', n)
    BY <1>1, <2>1, TraceStays
  <2>3. TracerOK' BY <1>1, <1>2, <2>2, TracerStays DEF TInv
  <2> QED BY <2>2, <2>3 DEF TInv
<1>4. CASE at[t] = "trace"
  <2>1. PICK n \in 0 .. Len(batch) - 1, k \in Segments :
            LET fs == AppendMany(files, SubSeq(batch, 1, n)) IN
            /\ files' \in {fs} \cup (IF Full(fs) THEN {Rotated(fs, k)} ELSE {})
            /\ written' = written \o SubSeq(batch, 1, n)
            /\ torn' = torn
    BY <1>4 DEF SinkFails
  <2>2. PICK b : b = SubSeq(batch, 1, n) OBVIOUS
  <2>3. PICK fs : fs = AppendMany(files, b) OBVIOUS
  <2>4. (files' = fs \/ files' = Rotated(fs, k)) /\ written' = written \o b /\ torn' = torn
    BY <2>1, <2>2, <2>3
  <2>5. /\ batch \in Seq(Nat) /\ Len(batch) \in Nat /\ Handed \in Nat /\ Consecutive(batch, Handed)
        /\ written \in Seq(Nat) /\ Reflects(files, written, ~torn)
    BY <1>4 DEF IInv, Typed, TInv, PendingOK, WrittenOK, FilesOK, TracerOK
  <2>6. b \in Seq(Nat) /\ Consecutive(b, Handed)
    <3>1. n \in 0 .. Len(batch) BY <2>5
    <3>2. b \in Seq(Nat) /\ Len(b) = n /\ \A m \in 1 .. n : b[m] = batch[m] BY <2>2, <2>5, <3>1, SMTT(20)
    <3>3. 1 .. n \subseteq 1 .. Len(batch) BY <2>5, <3>1
    <3> QED BY <2>5, <3>2, <3>3 DEF Consecutive
  <2>7. PICK v : v = written \o b OBVIOUS
  <2>8. v \in Seq(Nat) BY <2>5, <2>6, <2>7, ConcatProperties
  <2>9. Reflects(fs, v, ~torn) BY <2>3, <2>5, <2>6, <2>7, ManyReflects
  <2>10. Reflects(Rotated(fs, k), v, ~torn) BY <2>8, <2>9, RotatedReflects
  <2>11. Reflects(files', written', ~torn) BY <2>4, <2>7, <2>9, <2>10
  <2>12. Handed' = Handed BY <1>1 DEF Handed
  <2>13. Handed \in 0 .. Handed BY <2>5
  <2>14. /\ WrittenOK' /\ PendingOK' /\ FilesOK' /\ TraceOrphansOK'
         /\ \A m : Sent(written, m) => Sent(written', m)
    BY <1>1, <2>4, <2>6, <2>11, <2>12, <2>13, TraceGrows
  <2>15. TracerOK' BY <1>1, <1>2, <2>12, <2>14, TracerStays DEF TInv
  <2> QED BY <2>14, <2>15 DEF TInv
<1> QED BY <1>1, <1>3, <1>4 DEF Sinks

LEMMA ResumeTraces ==
    ASSUME IInv, TInv, NEW t \in Tasks, Resume(t)
    PROVE  TInv'
<1>1. UNCHANGED <<emitted, trace, orphans>> BY DEF Resume
<1>2. pending \in [Sinks -> Seq(Nat)] /\ at \in [Tasks -> Places] /\ batch \in Seq(Nat) BY DEF IInv, Typed
<1>3. CASE at[t] = "stored"
  <2>1. pending' = [pending EXCEPT !["store"] = Rest(@, batch)] BY <1>3 DEF Resume
  <2>2. pending'["trace"] = pending["trace"] BY <1>2, <2>1
  <2>3. /\ Handed' = Handed /\ WrittenOK' /\ PendingOK' /\ FilesOK' /\ TraceOrphansOK'
        /\ \A n : Sent(written, n) => Sent(written', n)
    BY <1>1, <2>2, TraceStays
  <2>4. CASE pending["trace"] # <<>>
    <3>1. at' = [at EXCEPT ![t] = "trace"] /\ batch' = pending["trace"] BY <1>3, <2>4 DEF Resume, Submit
    <3>2. \A u \in Tasks \ {t} : ~(at[u] \in Working) BY <1>3, OneHolder DEF IInv, Working
    <3>3. pending' \in [Sinks -> Seq(Nat)]
      <4>1. Rest(pending["store"], batch) \in Seq(Nat) BY <1>2 DEF Rest, Sinks
      <4> QED BY <1>2, <2>1, <4>1
    <3>4. "trace" \in Sinks BY DEF Sinks
    <3>5. TracerOK' BY <1>2, <2>2, <2>3, <3>1, <3>2, <3>3, <3>4, SubmitTraces
    <3> QED BY <2>3, <3>5 DEF TInv
  <2>5. CASE pending["trace"] = <<>>
    <3>1. Leave(t) /\ at[t] # "idle" BY <1>3, <2>5 DEF Resume, Finish
    <3>2. \A u \in Tasks : at'[u] \in {"trace", "traced"} => at'[u] = at[u] /\ batch' = batch
      BY <3>1, LeaverTraces
    <3>3. TracerOK' BY <2>2, <2>3, <3>2, TracerStays DEF TInv
    <3> QED BY <2>3, <3>3 DEF TInv
  <2> QED BY <2>4, <2>5
<1>4. CASE at[t] = "traced"
  <2>1. pending' = [pending EXCEPT !["trace"] = Rest(@, batch)] /\ Leave(t) BY <1>4 DEF Resume, Finish
  <2>2. PICK q : q = pending["trace"] OBVIOUS
  <2>3. PICK n : n = Len(batch) OBVIOUS
  <2>4. PICK r : r = SubSeq(q, n + 1, Len(q)) OBVIOUS
  <2>5. /\ q \in Seq(Nat) /\ Len(q) \in Nat /\ n \in Nat /\ n <= Len(q)
        /\ Handed \in Nat /\ Handed = Len(emitted) - Len(q) /\ Len(emitted) \in Nat
        /\ Consecutive(q, Handed) /\ Sent(written, Handed + n)
    <3>1. q \in Seq(Nat) /\ n \in Nat BY <1>2, <2>2, <2>3 DEF Sinks
    <3>2. n <= Len(q) /\ Sent(written, Handed + n) BY <1>4, <2>2, <2>3 DEF TInv, TracerOK
    <3>3. Handed \in Nat /\ Consecutive(q, Handed) BY <2>2 DEF TInv, PendingOK
    <3>4. Handed = Len(emitted) - Len(q) BY <2>2 DEF Handed
    <3>5. Len(emitted) \in Nat BY DEF IInv, Typed
    <3>6. Len(q) \in Nat BY <3>1
    <3> QED BY <3>1, <3>2, <3>3, <3>4, <3>5, <3>6
  <2>6. r \in Seq(Nat) /\ Len(r) = Len(q) - n /\ \A m \in 1 .. Len(q) - n : r[m] = q[n + m]
    BY <2>4, <2>5, SMTT(20)
  <2>7. pending'["trace"] = r BY <1>2, <2>1, <2>2, <2>3, <2>4 DEF Rest, Sinks
  <2>8. Handed' = Handed + n
    <3>1. Handed' = Len(emitted) - Len(r) BY <1>1, <2>7 DEF Handed
    <3>2. PICK x : x = Len(q) OBVIOUS
    <3>3. PICK y : y = Len(emitted) OBVIOUS
    <3>4. x \in Nat /\ y \in Nat /\ n \in Nat /\ Handed = y - x /\ Handed' = y - (x - n)
      BY <2>5, <2>6, <3>1, <3>2, <3>3
    <3> QED BY <3>4
  <2>9. Consecutive(r, Handed + n)
    <3> SUFFICES ASSUME NEW m \in 1 .. Len(r) PROVE r[m] = (Handed + n) + m BY DEF Consecutive
    <3>1. n + m \in 1 .. Len(q) /\ m \in 1 .. Len(q) - n /\ m \in Nat BY <2>5, <2>6
    <3>2. q[n + m] = Handed + (n + m) BY <2>5, <3>1 DEF Consecutive
    <3> QED BY <2>5, <2>6, <3>1, <3>2
  <2>10. written' = written /\ files' = files /\ torn' = torn BY <1>1 DEF trace
  <2>11. PendingOK' BY <2>5, <2>7, <2>8, <2>9, <2>10 DEF PendingOK
  <2>12. WrittenOK' /\ FilesOK' BY <2>10 DEF TInv, WrittenOK, FilesOK, FirstAfter
  <2>13. TraceOrphansOK'
    <3>1. 0 .. Handed \subseteq 0 .. Handed' BY <2>5, <2>8
    <3> QED BY <1>1, <3>1 DEF TInv, TraceOrphansOK
  <2>14. \A u \in Tasks : ~(at'[u] \in Working)
    <3>1. at[t] # "idle" /\ at[t] \in Working BY <1>4 DEF Working
    <3> QED BY <2>1, <3>1, LeaveKeeps DEF IInv
  <2>15. TracerOK' BY <2>14 DEF TracerOK, Working
  <2> QED BY <2>11, <2>12, <2>13, <2>15 DEF TInv
<1> QED BY <1>3, <1>4 DEF Resume

LEMMA CancelTraces ==
    ASSUME IInv, TInv, NEW t \in Tasks, Cancel(t)
    PROVE  TInv'
<1>1. /\ at[t] # "idle" /\ Leave(t) /\ UNCHANGED <<emitted, pending, trace>>
      /\ orphans' = orphans \cup (IF at[t] \in Sinks
                                  THEN {[sink |-> at[t], batch |-> batch, nth |-> cancels]} ELSE {})
  BY DEF Cancel
<1>2. /\ Handed' = Handed /\ WrittenOK' /\ PendingOK' /\ FilesOK'
      /\ \A n : Sent(written, n) => Sent(written', n)
  BY <1>1, TraceStays
<1>3. \A u \in Tasks : at'[u] \in {"trace", "traced"} => at'[u] = at[u] /\ batch' = batch
  BY <1>1, LeaverTraces
<1>4. TracerOK' BY <1>1, <1>2, <1>3, TracerStays DEF TInv
<1>5. TraceOrphansOK'
  <2> SUFFICES ASSUME NEW w \in orphans', w.sink = "trace" PROVE \E i \in 0 .. Handed : Consecutive(w.batch, i)
    BY <1>2 DEF TraceOrphansOK
  <2>1. CASE w \in orphans BY <2>1 DEF TInv, TraceOrphansOK
  <2>2. CASE w \notin orphans
    <3>1. w = [sink |-> at[t], batch |-> batch, nth |-> cancels] BY <1>1, <2>2
    <3>2. at[t] = "trace" /\ w.batch = batch BY <3>1
    <3>3. Consecutive(w.batch, Handed) BY <3>2 DEF TInv, TracerOK
    <3>4. Handed \in 0 .. Handed BY DEF TInv, PendingOK
    <3> QED BY <3>3, <3>4
  <2> QED BY <2>1, <2>2
<1> QED BY <1>2, <1>4, <1>5 DEF TInv

LEMMA LateWriteTraces ==
    ASSUME IInv, TInv, NEW w \in orphans, LateWrite(w)
    PROVE  TInv'
<1>1. orphans' \subseteq orphans /\ UNCHANGED <<emitted, pending, at, batch>> BY DEF LateWrite
<1>2. Handed' = Handed BY <1>1 DEF Handed
<1>3. \A u \in Tasks : at'[u] \in {"trace", "traced"} => at'[u] = at[u] /\ batch' = batch BY <1>1
<1>4. CASE UNCHANGED trace
  <2>1. /\ WrittenOK' /\ PendingOK' /\ FilesOK' /\ TraceOrphansOK'
        /\ \A n : Sent(written, n) => Sent(written', n)
    BY <1>1, <1>4, TraceStays
  <2>2. TracerOK' BY <1>1, <1>2, <1>3, <2>1, TracerStays DEF TInv
  <2> QED BY <2>1, <2>2 DEF TInv
<1>5. CASE w.sink = "trace" /\ TraceBatch(w.batch)
  <2>1. files' = AppendMany(files, w.batch) /\ written' = written \o w.batch /\ torn' = torn
    BY <1>5 DEF TraceBatch
  <2>2. PICK b : b = w.batch OBVIOUS
  <2>3. b \in Seq(Nat) /\ written \in Seq(Nat) /\ Reflects(files, written, ~torn)
    BY <2>2 DEF IInv, Typed, TInv, WrittenOK, FilesOK
  <2>4. PICK i \in 0 .. Handed : Consecutive(b, i) BY <1>5, <2>2 DEF TInv, TraceOrphansOK
  <2>5. Reflects(files', written', ~torn) BY <2>1, <2>2, <2>3, ManyReflects
  <2>6. /\ WrittenOK' /\ PendingOK' /\ FilesOK' /\ TraceOrphansOK'
        /\ \A n : Sent(written, n) => Sent(written', n)
    BY <1>1, <1>2, <2>1, <2>2, <2>3, <2>4, <2>5, TraceGrows
  <2>7. TracerOK' BY <1>1, <1>2, <1>3, <2>6, TracerStays DEF TInv
  <2> QED BY <2>6, <2>7 DEF TInv
<1> QED BY <1>4, <1>5 DEF LateWrite

LEMMA RepackTraces ==
    ASSUME IInv, TInv, Repack
    PROVE  TInv'
<1>1. written' = written /\ UNCHANGED <<emitted, pending, at, batch, orphans>> BY DEF Repack
<1>2. \/ files' = Repacked(files, Backups) /\ torn' = torn
      \/ torn' = TRUE /\ \E k \in Segments : files' = Repacked(files, k)
  BY DEF Repack
<1>3. written \in Seq(Nat) /\ torn \in BOOLEAN /\ Reflects(files, written, ~torn)
  BY DEF TInv, WrittenOK, FilesOK
<1>4. FilesOK'
  <2>1. CASE files' = Repacked(files, Backups) /\ torn' = torn
    <3>1. Reflects(files', written, ~torn) BY <1>3, <2>1, RepackReflects
    <3> QED BY <1>1, <1>3, <2>1, <3>1 DEF FilesOK
  <2>2. CASE torn' = TRUE /\ \E k \in Segments : files' = Repacked(files, k)
    <3>1. Reflects(files', written, FALSE) BY <1>3, <2>2, RepackReflects
    <3>2. Reflects(files', written', ~torn') BY <1>1, <2>2, <3>1 DEF Reflects
    <3> QED BY <2>2, <3>2 DEF FilesOK
  <2> QED BY <1>2, <2>1, <2>2
<1>5. Handed' = Handed BY <1>1 DEF Handed
<1>6. WrittenOK' BY <1>1 DEF TInv, WrittenOK, FirstAfter
<1>7. PendingOK' /\ TracerOK' /\ TraceOrphansOK' BY <1>1, <1>5 DEF TInv, PendingOK, TracerOK, TraceOrphansOK
<1> QED BY <1>4, <1>6, <1>7 DEF TInv

LEMMA StutterTraces ==
    ASSUME TInv, UNCHANGED <<emitted, pending, trace, at, batch, orphans>>
    PROVE  TInv'
<1>1. /\ Handed' = Handed /\ WrittenOK' /\ PendingOK' /\ FilesOK' /\ TraceOrphansOK'
      /\ \A n : Sent(written, n) => Sent(written', n)
  BY TraceStays
<1>2. TracerOK' BY <1>1, TracerStays DEF TInv
<1> QED BY <1>1, <1>2 DEF TInv

LEMMA NextTraces == IInv /\ TInv /\ [Next]_vars => TInv'
<1> SUFFICES ASSUME IInv, TInv, [Next]_vars PROVE TInv' OBVIOUS
<1>1. CASE Quiet \/ UNCHANGED vars BY <1>1, StutterTraces DEF Quiet, vars
<1>2. ASSUME NEW t \in Tasks, Step(t) PROVE TInv'
  BY <1>2, TakeLockTraces, StoredTraces, TracedTraces, SinkFailsTraces, ResumeTraces DEF Step
<1>3. ASSUME NEW t \in Tasks, Cancel(t) PROVE TInv' BY <1>3, CancelTraces
<1>4. ASSUME NEW t \in Tasks, NEW kind \in Kinds, Emit(t, kind) PROVE TInv' BY <1>4, EmitTraces
<1>5. ASSUME NEW w \in orphans, LateWrite(w) PROVE TInv' BY <1>5, LateWriteTraces
<1>6. CASE Prune BY <1>6, StutterTraces DEF Prune
<1>7. CASE Repack BY <1>7, RepackTraces
<1> QED BY <1>1, <1>2, <1>3, <1>4, <1>5, <1>6, <1>7 DEF Next

-----------------------------------------------------------------------------
(* What it is for                                                           *)

LEMMA TraceFollows == IInv /\ TInv => TracedInOrder
<1> SUFFICES ASSUME IInv, TInv PROVE TracedInOrder OBVIOUS
<1>1. PICK w : w = written OBVIOUS
<1>2. PICK r : r = Records(files) OBVIOUS
<1>3. w \in Seq(Nat) /\ Len(w) \in Nat /\ FirstAfter(w) BY <1>1 DEF TInv, WrittenOK
<1>4. Lasting(r, w) /\ (~torn => EndOf(r, w)) /\ files \in [Segments -> Seq(Nat)]
  BY <1>1, <1>2 DEF TInv, FilesOK, Reflects
<1>5. r \in Seq(Nat) /\ Len(r) \in Nat
  <2>1. 0 \in Segments BY BusAssumption DEF Segments
  <2>2. r \in Seq(Nat) BY <1>2, <1>4, <2>1, RotationDrops
  <2> QED BY <2>2
<1>6. \A i \in DOMAIN w : \A e \in 1 .. (w[i] - 1) : \E j \in 1 .. (i - 1) : w[j] = e
  <2>1. DOMAIN w = 1 .. Len(w) BY <1>3
  <2> QED BY <1>3, <2>1 DEF FirstAfter
<1>7. ASSUME NEW e \in DOMAIN emitted PROVE Contains(w, e) \/ Contains(pending["trace"], e)
  <2>1. PICK q : q = pending["trace"] OBVIOUS
  <2>2. /\ Handed \in Nat /\ Consecutive(q, Handed) /\ Sent(w, Handed)
        /\ Handed = Len(emitted) - Len(q)
    BY <1>1, <2>1 DEF TInv, PendingOK, Handed
  <2>3. q \in Seq(Nat) /\ Len(q) \in Nat /\ Len(emitted) \in Nat /\ e \in 1 .. Len(emitted)
    <3>1. q \in Seq(Nat) /\ emitted \in Seq(Kinds) BY <2>1 DEF IInv, Typed, Sinks
    <3> QED BY <3>1
  <2>4. CASE e <= Handed
    <3>1. e \in 1 .. Handed BY <2>2, <2>3, <2>4
    <3>2. \E j \in 1 .. Len(w) : w[j] = e BY <2>2, <3>1 DEF Sent
    <3> QED BY <3>2 DEF Contains
  <2>5. CASE e > Handed
    <3>1. PICK k : k = e - Handed OBVIOUS
    <3>2. PICK x : x = Len(q) OBVIOUS
    <3>3. PICK y : y = Len(emitted) OBVIOUS
    <3>4. x \in Nat /\ y \in Nat /\ e \in 1 .. y /\ Handed \in Nat /\ Handed = y - x BY <2>2, <2>3, <3>2, <3>3
    <3>5. k \in 1 .. x /\ Handed + k = e BY <2>5, <3>1, <3>4
    <3>6. q[k] = e /\ k \in 1 .. Len(q) BY <2>2, <3>2, <3>5 DEF Consecutive
    <3>7. \E j \in 1 .. Len(q) : q[j] = e BY <3>6
    <3> QED BY <2>1, <3>7 DEF Contains
  <2> QED BY <2>2, <2>3, <2>4, <2>5
<1>8. \E i \in 1 .. (Len(w) + 1) : ToSet(r) = {w[j] : j \in i .. Len(w)}
  <2>1. 1 \in 1 .. Len(r) + 1 BY <1>5
  <2>2. PICK i \in 1 .. Len(w) + 1 : Values(r, 1 .. Len(r)) = Values(w, i .. Len(w)) BY <1>4, <2>1 DEF Lasting
  <2>3. ToSet(r) = Values(r, 1 .. Len(r))
    <3>1. DOMAIN r = 1 .. Len(r) BY <1>5
    <3> QED BY <3>1 DEF ToSet, Values
  <2>4. Values(w, i .. Len(w)) = {w[j] : j \in i .. Len(w)} BY DEF Values
  <2> QED BY <2>2, <2>3, <2>4
<1>9. torn \/ IsSuffix(r, w) BY <1>3, <1>4, EndIsSuffix
<1> QED BY <1>1, <1>2, <1>6, <1>7, <1>8, <1>9 DEF TracedInOrder

\* No event is missing from the trace or ahead of one emitted before it, and what is kept
\* of it is the end of what was written, whatever is cancelled or fails, however often the
\* trace is rotated and repacked, and wherever that fails (TracedInOrder).
THEOREM TraceInOrder == Spec => []TracedInOrder
<1>1. Init => IInv /\ TInv BY InitHolds, TraceInit
<1>2. IInv /\ TInv /\ [Next]_vars => (IInv /\ TInv)' BY NextKeeps, NextTraces
<1> QED BY <1>1, <1>2, TraceFollows, PTL DEF Spec

-----------------------------------------------------------------------------
(* Greatest elements                                                        *)

LEMMA MaxOf ==
    ASSUME NEW n \in Nat, NEW S \in SUBSET (0 .. n), S # {}
    PROVE  Max(S) \in S /\ \A x \in S : x <= Max(S)
<1> DEFINE T == {n - x : x \in S}
<1>1. T \in SUBSET Nat /\ T # {}
  <2>1. \A x \in S : x \in 0 .. n OBVIOUS
  <2>2. \A x \in S : n - x \in Nat BY <2>1
  <2> QED BY <2>2
<1>2. PICK t \in T : \A m \in T : ~(m < t) BY <1>1, LeastNatural
<1>3. PICK x \in S : t = n - x OBVIOUS
<1>4. \A y \in S : n - y \in T OBVIOUS
<1> HIDE DEF T
<1>5. \A y \in S : y \in 0 .. n OBVIOUS
<1>6. \A y \in S : x >= y BY <1>2, <1>3, <1>4, <1>5
<1>7. Max(S) \in S /\ \A y \in S : Max(S) >= y BY <1>6 DEF Max
<1> QED BY <1>5, <1>7

LEMMA LatestOf ==
    ASSUME NEW n \in Nat, NEW S \in SUBSET (1 .. n)
    PROVE  Latest(S) \in {0} \cup S /\ (Latest(S) = 0 <=> S = {})
<1>1. CASE S = {} BY <1>1 DEF Latest
<1>2. CASE S # {}
  <2>1. S \in SUBSET (0 .. n) OBVIOUS
  <2>2. Max(S) \in S BY <1>2, <2>1, MaxOf
  <2> QED BY <1>2, <2>2 DEF Latest
<1> QED BY <1>1, <1>2

LEMMA SequenceOfRange ==
    ASSUME NEW T, NEW s \in Seq(T)
    PROVE  s \in Seq(Range(s))
<1>1. PICK n \in Nat : n = Len(s) OBVIOUS
<1>2. s = [i \in 1 .. n |-> s[i]] BY <1>1
<1>3. \A i \in 1 .. n : s[i] \in Range(s) BY <1>1 DEF Range
<1> QED BY <1>2, <1>3

-----------------------------------------------------------------------------
(* Views                                                                    *)

Roles == {"user", "assistant", "tool"}
Tags == {"calls", "answer"} \cup Asks \cup Hears \cup UNION {Range(tags) : tags \in Results}

Messages == [id : Nat, role : Roles, tag : Tags, calls : SUBSET Nat,
             path : Paths \cup {NoPath}, cut : BOOLEAN]

\* The messages ms are those of the session after its first f, a bundle's first
\* message first.
From(ms, f) ==
    /\ ms \in Seq(Messages) /\ Len(ms) > 0 /\ ms[1].role # "tool"
    /\ \A i \in 1 .. Len(ms) : ms[i].id = f + i

\* The messages qs are those of ms but for what was cut.
Alike(qs, ms) ==
    /\ qs \in Seq(Messages) /\ Len(qs) = Len(ms)
    /\ \A i \in 1 .. Len(ms) :
        /\ qs[i].id = ms[i].id /\ qs[i].role = ms[i].role /\ qs[i].tag = ms[i].tag
        /\ qs[i].calls = ms[i].calls /\ qs[i].path = ms[i].path

LEMMA AlikeFrom ==
    ASSUME NEW f, NEW ms, NEW qs, From(ms, f), Alike(qs, ms)
    PROVE  From(qs, f) /\ Len(qs) = Len(ms)
<1>1. Len(ms) \in Nat /\ 1 \in 1 .. Len(ms) BY DEF From
<1> QED BY <1>1 DEF From, Alike

LEMMA CutMessage ==
    ASSUME NEW m \in Messages
    PROVE  LET q == [m EXCEPT !.cut = TRUE] IN
           q \in Messages /\ q.id = m.id /\ q.role = m.role /\ q.tag = m.tag
             /\ q.calls = m.calls /\ q.path = m.path
BY DEF Messages

LEMMA PruneAlike ==
    ASSUME NEW ms \in Seq(Messages)
    PROVE  Alike(PruneMessages(ms), ms)
<1> DEFINE P(i) == IF Superseded(ms, i) THEN [ms[i] EXCEPT !.cut = TRUE] ELSE ms[i]
<1>1. PruneMessages(ms) = [i \in 1 .. Len(ms) |-> P(i)] BY DEF PruneMessages
<1>2. Len(ms) \in Nat OBVIOUS
<1>3. ASSUME NEW i \in 1 .. Len(ms)
      PROVE /\ P(i) \in Messages /\ P(i).id = ms[i].id /\ P(i).role = ms[i].role
            /\ P(i).tag = ms[i].tag /\ P(i).calls = ms[i].calls /\ P(i).path = ms[i].path
  <2>1. ms[i] \in Messages OBVIOUS
  <2> QED BY <2>1, CutMessage
<1> HIDE DEF P
<1>4. PruneMessages(ms) \in Seq(Messages) /\ Len(PruneMessages(ms)) = Len(ms) BY <1>1, <1>2, <1>3
<1> QED BY <1>1, <1>3, <1>4 DEF Alike

LEMMA TrimmedAlike ==
    ASSUME NEW ms \in Seq(Messages), NEW limit
    PROVE  Alike(Trimmed(ms, limit), ms)
<1> DEFINE P(i) == IF ms[i].role = "tool" THEN [ms[i] EXCEPT !.cut = TRUE] ELSE ms[i]
           ps == [i \in 1 .. Len(ms) |-> P(i)]
<1>1. Trimmed(ms, limit) \in {ms, ps} BY DEF Trimmed
<1>2. Len(ms) \in Nat OBVIOUS
<1>3. ASSUME NEW i \in 1 .. Len(ms)
      PROVE /\ P(i) \in Messages /\ P(i).id = ms[i].id /\ P(i).role = ms[i].role
            /\ P(i).tag = ms[i].tag /\ P(i).calls = ms[i].calls /\ P(i).path = ms[i].path
  <2>1. ms[i] \in Messages OBVIOUS
  <2> QED BY <2>1, CutMessage
<1> HIDE DEF P
<1>4. ps \in Seq(Messages) /\ Len(ps) = Len(ms) BY <1>2, <1>3
<1>5. Alike(ps, ms) BY <1>3, <1>4 DEF Alike
<1> HIDE DEF ps
<1>6. Alike(ms, ms) BY DEF Alike
<1> QED BY <1>1, <1>5, <1>6

-----------------------------------------------------------------------------
(* Bundles                                                                  *)

LEMMA StartsOf ==
    ASSUME NEW f, NEW ms, From(ms, f)
    PROVE  /\ Starts(ms) \subseteq 1 .. Len(ms) /\ 1 \in Starts(ms)
           /\ IsFiniteSet(Starts(ms)) /\ Cardinality(Starts(ms)) \in Nat \ {0}
<1>1. Len(ms) \in Nat /\ 1 \in 1 .. Len(ms) /\ DOMAIN ms = 1 .. Len(ms) BY DEF From
<1>2. Starts(ms) \subseteq 1 .. Len(ms) BY <1>1 DEF Starts
<1>3. 1 \in Starts(ms) BY <1>1 DEF Starts, From
<1>4. IsFiniteSet(1 .. Len(ms)) BY <1>1, FS_Interval
<1>5. IsFiniteSet(Starts(ms)) BY <1>2, <1>4, FS_Subset
<1>6. Cardinality(Starts(ms)) \in Nat BY <1>5, FS_CardinalityType
<1>7. Cardinality(Starts(ms)) # 0 BY <1>3, <1>5, FS_EmptySet
<1> QED BY <1>2, <1>3, <1>5, <1>6, <1>7

\* In a finite set of numbers there is one with k numbers that are not below it.
LEMMA RankExists ==
    ASSUME NEW S \in SUBSET Nat, IsFiniteSet(S), NEW k \in 1 .. Cardinality(S)
    PROVE  \E i \in S : Cardinality({s \in S : s >= i}) = k
<1> DEFINE Up(i) == {s \in S : s >= i}
           c == Cardinality(S)
           T == (1 .. c) \ {k}
<1> SUFFICES ASSUME \A i \in S : Cardinality(Up(i)) # k PROVE FALSE OBVIOUS
<1>1. c \in Nat BY FS_CardinalityType
<1>0. k \in 1 .. c OBVIOUS
<1>2. IsFiniteSet(1 .. c) /\ Cardinality(1 .. c) = c
  <2> HIDE DEF c
  <2> QED BY <1>1, FS_Interval
<1>3. IsFiniteSet(T) /\ Cardinality(T) = c - 1
  <2> HIDE DEF c
  <2> QED BY <1>0, <1>2, FS_RemoveElement
<1>4. ASSUME NEW i \in S
      PROVE  IsFiniteSet(Up(i)) /\ Cardinality(Up(i)) \in T
  <2>1. Up(i) \in SUBSET S /\ i \in Up(i) OBVIOUS
  <2>2. IsFiniteSet(Up(i)) /\ Cardinality(Up(i)) <= c BY <2>1, FS_Subset
  <2>3. Cardinality(Up(i)) \in Nat BY <2>2, FS_CardinalityType
  <2>4. Cardinality(Up(i)) # 0 BY <2>1, <2>2, FS_EmptySet
  <2> HIDE DEF Up, c
  <2> QED BY <1>1, <2>2, <2>3, <2>4
<1>5. ASSUME NEW i \in S, NEW j \in S, i < j PROVE Cardinality(Up(i)) # Cardinality(Up(j))
  <2>0. i \in Nat /\ j \in Nat /\ \A s \in S : s \in Nat OBVIOUS
  <2>4. \A s \in S : s >= j => s >= i BY <1>5, <2>0
  <2>1. Up(j) \in SUBSET Up(i) BY <2>4
  <2>2. i \in Up(i) /\ i \notin Up(j) BY <1>5, <2>0
  <2>3. IsFiniteSet(Up(i)) BY <1>4
  <2> HIDE DEF Up
  <2> QED BY <2>1, <2>2, <2>3, FS_Subset
<1> DEFINE g == [i \in S |-> Cardinality(Up(i))]
<1>6. g \in [S -> T]
  <2> HIDE DEF T, Up
  <2> QED BY <1>4
<1>7. Cardinality(T) < Cardinality(S) BY <1>1, <1>3
<1>8. PICK x, y \in S : x # y /\ g[x] = g[y]
  <2> HIDE DEF T, g
  <2> QED BY <1>3, <1>6, <1>7, FS_PigeonHole
<1>9. g[x] = Cardinality(Up(x)) /\ g[y] = Cardinality(Up(y)) OBVIOUS
<1>10. x \in Nat /\ y \in Nat OBVIOUS
<1>11. x < y \/ y < x BY <1>8, <1>10
<1> HIDE DEF Up, g
<1>12. \A i, j \in S : i < j => Cardinality(Up(i)) # Cardinality(Up(j)) BY <1>5
<1> QED BY <1>8, <1>9, <1>11, <1>12

\* The newest k bundles are the end of the messages, from a bundle's first on.
LEMMA NewestBundles ==
    ASSUME NEW f \in Nat, NEW ms, From(ms, f), NEW k \in 1 .. Cardinality(Starts(ms))
    PROVE  \E g \in 0 .. Len(ms) - 1 :
              /\ g + 1 = NewestFrom(ms, k) /\ g + 1 \in Starts(ms)
              /\ From(Recent(ms, k), f + g) /\ g + Len(Recent(ms, k)) = Len(ms)
              /\ Ids(Older(ms, k)) = (f + 1) .. (f + g)
<1>1. Starts(ms) \subseteq 1 .. Len(ms) /\ IsFiniteSet(Starts(ms)) BY StartsOf
<1>2. \E i \in Starts(ms) : Cardinality({s \in Starts(ms) : s >= i}) = k
  <2>1. Starts(ms) \in SUBSET Nat BY <1>1
  <2> QED BY <1>1, <2>1, RankExists
<1>3. NewestFrom(ms, k) \in Starts(ms) BY <1>2 DEF NewestFrom
<1>4. PICK i \in 1 .. Len(ms) : i = NewestFrom(ms, k) BY <1>1, <1>3
<1>5. i \in Starts(ms) BY <1>3, <1>4
<1>6. ms[i].role # "tool" BY <1>5 DEF Starts
<1>7. PICK n \in Nat : n = Len(ms) BY DEF From
<1>8. ms \in Seq(Messages) BY DEF From
<1>9. i \in 1 .. n BY <1>7
<1> DEFINE rs == SubSeq(ms, i, n)
           os == SubSeq(ms, 1, i - 1)
<1>10. /\ rs \in Seq(Messages) /\ Len(rs) = n - i + 1
       /\ \A j \in 1 .. n - i + 1 : rs[j] = ms[i + j - 1]
  BY <1>7, <1>8, <1>9
<1>11. /\ os \in Seq(Messages) /\ Len(os) = i - 1
       /\ \A j \in 1 .. i - 1 : os[j] = ms[j]
  BY <1>7, <1>8, <1>9
<1>12. rs = Recent(ms, k) /\ os = Older(ms, k) BY <1>4, <1>7 DEF Recent, Older
<1> HIDE DEF rs, os
<1>13. \A j \in 1 .. n : ms[j].id = f + j BY <1>7 DEF From
<1>14. From(rs, f + (i - 1))
  <2>1. Len(rs) > 0 BY <1>9, <1>10
  <2>2. rs[1] = ms[i] BY <1>9, <1>10
  <2>3. ASSUME NEW j \in 1 .. Len(rs) PROVE rs[j].id = f + (i - 1) + j
    <3>1. rs[j] = ms[i + j - 1] /\ i + j - 1 \in 1 .. n BY <1>9, <1>10
    <3>2. rs[j].id = f + (i + j - 1) BY <1>13, <3>1
    <3> QED BY <3>2
  <2> QED BY <1>6, <1>10, <2>1, <2>2, <2>3 DEF From
<1>15. Ids(os) = (f + 1) .. (f + (i - 1))
  <2>1. DOMAIN os = 1 .. i - 1 BY <1>11
  <2>2. \A j \in 1 .. i - 1 : os[j].id = f + j
    <3>1. \A j \in 1 .. i - 1 : j \in 1 .. n BY <1>9
    <3> QED BY <1>11, <1>13, <3>1
  <2>3. Ids(os) = {f + j : j \in 1 .. i - 1} BY <2>1, <2>2 DEF Ids
  <2>4. ASSUME NEW x \in (f + 1) .. (f + (i - 1)) PROVE x \in {f + j : j \in 1 .. i - 1}
    <3>1. x - f \in 1 .. i - 1 /\ x = f + (x - f) BY <1>9
    <3> QED BY <3>1
  <2>5. ASSUME NEW j \in 1 .. i - 1 PROVE f + j \in (f + 1) .. (f + (i - 1)) BY <1>9
  <2> QED BY <2>3, <2>4, <2>5
<1>16. i - 1 \in 0 .. n - 1 /\ (i - 1) + 1 = i /\ (i - 1) + Len(rs) = n BY <1>9, <1>10
<1>17. /\ (i - 1) + 1 = NewestFrom(ms, k) /\ (i - 1) + 1 \in Starts(ms)
       /\ From(Recent(ms, k), f + (i - 1)) /\ (i - 1) + Len(Recent(ms, k)) = Len(ms)
       /\ Ids(Older(ms, k)) = (f + 1) .. (f + (i - 1))
       /\ i - 1 \in 0 .. Len(ms) - 1
  BY <1>4, <1>5, <1>7, <1>12, <1>14, <1>15, <1>16
<1> QED BY <1>17

-----------------------------------------------------------------------------
(* The compactor                                                            *)

\* c divides the messages ms, which follow the first f of the session.
Divides(c, ms, f) ==
    /\ c.source = ms
    /\ \E g \in 0 .. Len(ms) - 1 :
        /\ c.older = (f + 1) .. (f + g)
        /\ From(c.kept, f + g) /\ g + Len(c.kept) = Len(ms)

LEMMA CandidateDivides ==
    ASSUME NEW f \in Nat, NEW ms, From(ms, f), NEW k \in 1 .. Cardinality(Starts(ms)),
           NEW limit, NEW p
    PROVE  Divides(Candidate(ms, k, limit, p), ms, f)
<1> DEFINE t == Trimmed(Recent(ms, 1), (limit * 6) \div 10)
<1>1. PICK g \in 0 .. Len(ms) - 1 :
         /\ From(Recent(ms, k), f + g) /\ g + Len(Recent(ms, k)) = Len(ms)
         /\ Ids(Older(ms, k)) = (f + 1) .. (f + g)
  BY NewestBundles
<1>2. PICK c : c = Candidate(ms, k, limit, p) OBVIOUS
<1>3. c.source = ms /\ c.older = Ids(Older(ms, k)) /\ c.kept = IF k = 1 THEN t ELSE Recent(ms, k)
  BY <1>2 DEF Candidate
<1>4. c.older = (f + 1) .. (f + g) BY <1>1, <1>3
<1>5. From(c.kept, f + g) /\ g + Len(c.kept) = Len(ms)
  <2>1. CASE k = 1
    <3>1. Alike(t, Recent(ms, 1)) BY <1>1, <2>1, TrimmedAlike DEF From
    <3>2. From(t, f + g) /\ Len(t) = Len(Recent(ms, 1)) BY <1>1, <2>1, <3>1, AlikeFrom
    <3> HIDE DEF t
    <3> QED BY <1>1, <1>3, <2>1, <3>2
  <2>2. CASE k # 1
    <3> HIDE DEF t
    <3> QED BY <1>1, <1>3, <2>2
  <2> QED BY <2>1, <2>2
<1>6. Divides(c, ms, f) BY <1>3, <1>4, <1>5 DEF Divides
<1> QED BY <1>2, <1>6

LEMMA LeastOfTwo ==
    ASSUME NEW a \in Int, NEW b \in Int
    PROVE  Min({a, b}) = IF a <= b THEN a ELSE b
<1>1. \E x \in {a, b} : \A y \in {a, b} : x =< y OBVIOUS
<1>2. Min({a, b}) \in {a, b} /\ \A y \in {a, b} : Min({a, b}) =< y BY <1>1 DEF Min
<1> QED BY <1>2

LEMMA GreatestOfTwo ==
    ASSUME NEW a \in Int, NEW b \in Int
    PROVE  Max({a, b}) = IF a >= b THEN a ELSE b
<1>1. \E x \in {a, b} : \A y \in {a, b} : x >= y OBVIOUS
<1>2. Max({a, b}) \in {a, b} /\ \A y \in {a, b} : Max({a, b}) >= y BY <1>1 DEF Max
<1> QED BY <1>2

\* What the compactor returns.
Compaction(c, ms, limit, p) ==
    \/ c = Outcome("same", ms) \/ c = Outcome("too big", ms)
    \/ /\ c.outcome = "compacted"
       /\ \E k \in 1 .. Cardinality(Starts(ms)) : c = Candidate(ms, k, limit, p)

LEMMA CompactionOf ==
    ASSUME NEW f \in Nat, NEW ms, From(ms, f), NEW keep \in Nat \ {0},
           NEW limit, NEW force, NEW p
    PROVE  Compaction(CompactV2(ms, keep, limit, force, p), ms, limit, p)
<1> DEFINE n == Cardinality(Starts(ms))
           top == Min({keep, Max({1, n - 1})})
           fitting == {k \in 1 .. top : Candidate(ms, k, limit, p).outcome = "compacted"}
<1>1. n \in Nat \ {0} BY StartsOf
<1>2. top \in 1 .. n
  <2> HIDE DEF n
  <2> DEFINE u == Max({1, n - 1})
  <2>1. u = IF 1 >= n - 1 THEN 1 ELSE n - 1 BY <1>1, GreatestOfTwo
  <2> HIDE DEF u
  <2>2. u \in 1 .. n BY <1>1, <2>1
  <2>3. top = IF keep <= u THEN keep ELSE u BY <2>2, LeastOfTwo DEF u
  <2> HIDE DEF top
  <2> QED BY <1>1, <2>2, <2>3
<1>3. PICK c : c = CompactV2(ms, keep, limit, force, p) OBVIOUS
<1>4. c = IF ~force /\ n <= keep + 1 /\ Size(ms) <= limit THEN Outcome("same", ms)
          ELSE IF fitting = {} THEN Outcome("too big", ms)
          ELSE Candidate(ms, Max(fitting), limit, p)
  BY <1>3 DEF CompactV2
<1> HIDE DEF n, top
<1>5. CASE fitting # {}
  <2>1. \A k \in fitting : k \in 1 .. n BY <1>1, <1>2
  <2>2. fitting \in SUBSET (0 .. n) BY <1>1, <2>1
  <2>3. \A k \in fitting : Candidate(ms, k, limit, p).outcome = "compacted" OBVIOUS
  <2> HIDE DEF fitting
  <2>4. Max(fitting) \in fitting BY <1>1, <1>5, <2>2, MaxOf
  <2>5. Max(fitting) \in 1 .. n BY <2>1, <2>4
  <2>6. Candidate(ms, Max(fitting), limit, p).outcome = "compacted" BY <2>3, <2>4
  <2>7. Max(fitting) \in 1 .. Cardinality(Starts(ms)) BY <2>5 DEF n
  <2>8. Compaction(c, ms, limit, p) BY <1>4, <1>5, <2>6, <2>7 DEF Compaction
  <2> QED BY <1>3, <2>8
<1> HIDE DEF fitting
<1>6. CASE fitting = {}
  <2>1. Compaction(c, ms, limit, p) BY <1>4, <1>6 DEF Compaction
  <2> QED BY <1>3, <2>1
<1> QED BY <1>5, <1>6

LEMMA CompactionDivides ==
    ASSUME NEW f \in Nat, NEW ms, From(ms, f), NEW limit, NEW p, NEW c, Compaction(c, ms, limit, p)
    PROVE  /\ c.outcome \in {"same", "too big", "compacted"}
           /\ c.outcome = "compacted" => Divides(c, ms, f)
<1>1. CASE c = Outcome("same", ms) BY <1>1 DEF Outcome
<1>2. CASE c = Outcome("too big", ms) BY <1>2 DEF Outcome
<1>3. CASE /\ c.outcome = "compacted"
           /\ \E k \in 1 .. Cardinality(Starts(ms)) : c = Candidate(ms, k, limit, p)
  BY <1>3, CandidateDivides
<1> QED BY <1>1, <1>2, <1>3 DEF Compaction

-----------------------------------------------------------------------------
(* The invariant                                                            *)

HistoryOK ==
    /\ history \in Seq(Messages)
    /\ history # <<>> => From(history, 0)
    /\ pc # "idle" => history # <<>>

\* The messages of an artifact, and those of the session when it was recorded.
ArtifactsOK ==
    /\ artifacts \in Seq(Range(artifacts))
    /\ \A a \in DOMAIN artifacts :
        /\ From(artifacts[a].source, 0) /\ Len(artifacts[a].source) <= Len(history)
        /\ Divides(artifacts[a], artifacts[a].source, 0)

Planned(c) == c = [outcome |-> c.outcome, source |-> c.source, older |-> c.older, kept |-> c.kept,
                   evidence |-> c.evidence, summary |-> c.summary]

\* A plan divides what the session has been all along.
PlanOK ==
    pc \in {"tighten", "summarize", "record"} =>
        /\ Planned(plan) /\ Alike(plan.source, history) /\ Divides(plan, plan.source, 0)

Viewed(v) == v = [messages |-> v.messages, summary |-> v.summary, artifact |-> v.artifact,
                  dropped |-> v.dropped]
Behind(v) == IF v.artifact = 0 THEN {} ELSE artifacts[v.artifact].older

\* The session is what is behind the summary, what the route dropped, and the messages.
Covers(v) ==
    /\ Viewed(v) /\ v.artifact \in {0} \cup DOMAIN artifacts
    /\ \E f, g \in 0 .. Len(history) :
        /\ Behind(v) = 1 .. f /\ v.dropped = (f + 1) .. (f + g)
        /\ From(v.messages, f + g) /\ f + g + Len(v.messages) = Len(history)

ViewOK ==
    /\ pc \in {"route", "send"} => Covers(view)
    /\ pc = "route" => view.dropped = {}

CInv == HistoryOK /\ ArtifactsOK /\ PlanOK /\ ViewOK

LEMMA InitCInv == ContextInit => CInv
<1> SUFFICES ASSUME ContextInit PROVE CInv OBVIOUS
<1>1. HistoryOK BY DEF ContextInit, HistoryOK
<1>2. ArtifactsOK
  <2>1. artifacts = <<>> BY DEF ContextInit
  <2> QED BY <2>1 DEF ArtifactsOK
<1>3. PlanOK BY DEF ContextInit, PlanOK
<1>4. ViewOK BY DEF ContextInit, ViewOK
<1> QED BY <1>1, <1>2, <1>3, <1>4 DEF CInv

-----------------------------------------------------------------------------
(* What is sent of a session                                                *)

LEMMA HistoryFrom ==
    ASSUME HistoryOK, pc # "idle"
    PROVE  From(history, 0) /\ From(PruneMessages(history), 0) /\ Alike(PruneMessages(history), history)
<1>1. From(history, 0) BY DEF HistoryOK
<1>2. Alike(PruneMessages(history), history) BY PruneAlike DEF HistoryOK
<1> QED BY <1>1, <1>2, AlikeFrom

LEMMA PlainCovers ==
    ASSUME HistoryOK, pc # "idle"
    PROVE  Covers(Plain) /\ Plain.dropped = {}
<1>1. From(PruneMessages(history), 0) /\ Len(PruneMessages(history)) = Len(history) BY HistoryFrom, AlikeFrom
<1>2. PICK v : v = Plain OBVIOUS
<1>3. Viewed(v) /\ v.artifact = 0 /\ v.dropped = {} /\ v.messages = PruneMessages(history)
  BY <1>2 DEF Viewed, Plain, NoView
<1>4. Len(history) \in Nat BY DEF HistoryOK
<1>5. 0 \in 0 .. Len(history) /\ 1 .. 0 = {} /\ (0 + 1) .. (0 + 0) = {} BY <1>4
<1>6. 0 + 0 + Len(v.messages) = Len(history) /\ From(v.messages, 0 + 0) BY <1>1, <1>3, <1>4
<1>7. Behind(v) = {} BY <1>3 DEF Behind
<1>8. Covers(v) BY <1>3, <1>5, <1>6, <1>7 DEF Covers
<1> QED BY <1>2, <1>3, <1>8

\* What was said since an artifact was recorded.
LEMMA SuffixOf ==
    ASSUME HistoryOK, ArtifactsOK, pc # "idle", NEW a \in DOMAIN artifacts,
           NEW n, n = Len(artifacts[a].source)
    PROVE  /\ n \in 0 .. Len(history)
           /\ Suffix(a) \in Seq(Messages) /\ Len(Suffix(a)) = Len(history) - n
           /\ \A j \in 1 .. Len(history) - n : Suffix(a)[j] = history[n + j]
<1> DEFINE source == artifacts[a].source
           after == {i \in DOMAIN history : \A id \in Ids(source) : history[i].id > id}
<1>1. PICK m \in Nat : m = Len(history) BY DEF HistoryOK
<1>2. From(source, 0) /\ n <= m /\ From(history, 0) BY <1>1, HistoryFrom DEF ArtifactsOK
<1>3. n \in Nat /\ n > 0 /\ DOMAIN source = 1 .. n /\ DOMAIN history = 1 .. m BY <1>1, <1>2 DEF From
<1>4. \A i \in 1 .. m : history[i].id = i BY <1>1, <1>2 DEF From
<1>5. \A i \in 1 .. n : source[i].id = i BY <1>2 DEF From
<1>6. Ids(source) = 1 .. n
  <2> HIDE DEF source
  <2> QED BY <1>3, <1>5 DEF Ids
<1>7. after = (n + 1) .. m
  <2>1. \A i \in 1 .. m : (\A id \in 1 .. n : i > id) <=> i > n BY <1>3
  <2>2. \A i \in 1 .. m : i \in after <=> i > n BY <1>3, <1>4, <1>6, <2>1
  <2>3. after \subseteq 1 .. m BY <1>3
  <2> HIDE DEF after
  <2>4. \A i : i \in (n + 1) .. m <=> i \in 1 .. m /\ i > n BY <1>3
  <2> QED BY <2>2, <2>3, <2>4
<1>8. Suffix(a) = IF after = {} THEN <<>> ELSE SubSeq(history, Min(after), m) BY <1>1 DEF Suffix
<1> HIDE DEF source, after
<1>9. CASE n = m
  <2>1. after = {} BY <1>7, <1>9
  <2>2. Suffix(a) = <<>> BY <1>8, <2>1
  <2> QED BY <1>1, <1>9, <2>2
<1>10. CASE n < m
  <2>1. n + 1 \in after /\ \A y \in after : n + 1 =< y BY <1>3, <1>7, <1>10
  <2>2. Min(after) \in after /\ \A y \in after : Min(after) =< y BY <2>1 DEF Min
  <2>3. \A y \in after : y \in Int BY <1>7
  <2>4. Min(after) = n + 1 BY <1>3, <2>1, <2>2, <2>3
  <2>5. Suffix(a) = SubSeq(history, n + 1, m) BY <1>8, <2>1, <2>4
  <2>6. history \in Seq(Messages) BY DEF HistoryOK
  <2>7. PICK i \in 1 .. m : i = n + 1 BY <1>3, <1>10
  <2>8. PICK qs : qs = SubSeq(history, i, m) OBVIOUS
  <2>9. qs \in Seq(Messages) /\ Len(qs) = m - i + 1 /\ \A j \in 1 .. m - i + 1 : qs[j] = history[i + j - 1]
    BY <1>1, <2>6, <2>8
  <2>10. m - i + 1 = m - n /\ \A j \in 1 .. m - n : i + j - 1 = n + j BY <1>3, <2>7
  <2>11. n \in 0 .. m BY <1>3, <1>10
  <2>12. Suffix(a) = qs BY <2>5, <2>7, <2>8
  <2>13. \A j \in 1 .. m - n : qs[j] = history[n + j] BY <2>9, <2>10
  <2>14. Len(qs) = m - n BY <2>9, <2>10
  <2> QED BY <1>1, <2>9, <2>11, <2>12, <2>13, <2>14
<1> QED BY <1>1, <1>2, <1>3, <1>9, <1>10

LEMMA ConcatOf ==
    ASSUME NEW T, NEW s \in Seq(T), NEW t \in Seq(T), NEW k, k = Len(s), NEW l, l = Len(t),
           NEW c, c = s \o t
    PROVE  /\ k \in Nat /\ l \in Nat /\ c \in Seq(T) /\ Len(c) = k + l
           /\ \A i \in 1 .. k + l : c[i] = IF i <= k THEN s[i] ELSE t[i - k]
OBVIOUS

LEMMA ConcatFrom ==
    ASSUME NEW f \in Nat, NEW ms, From(ms, f), NEW qs \in Seq(Messages),
           \A j \in 1 .. Len(qs) : qs[j].id = f + Len(ms) + j
    PROVE  From(ms \o qs, f) /\ Len(ms \o qs) = Len(ms) + Len(qs)
<1>1. PICK n \in Nat : n = Len(ms) BY DEF From
<1>2. PICK l \in Nat : l = Len(qs) OBVIOUS
<1>3. ms \in Seq(Messages) /\ n > 0 BY <1>1 DEF From
<1>4. PICK cs : cs = ms \o qs OBVIOUS
<1>5. cs \in Seq(Messages) /\ Len(cs) = n + l BY <1>1, <1>2, <1>3, <1>4
<1>6. \A i \in 1 .. n + l : cs[i] = IF i <= n THEN ms[i] ELSE qs[i - n] BY <1>1, <1>2, <1>3, <1>4
<1>7. ASSUME NEW i \in 1 .. n + l PROVE cs[i].id = f + i
  <2>1. CASE i <= n BY <1>1, <1>6, <2>1 DEF From
  <2>2. CASE i > n
    <3>1. i - n \in 1 .. l BY <1>1, <1>2, <2>2
    <3>2. cs[i] = qs[i - n] BY <1>6, <2>2
    <3>3. qs[i - n].id = f + n + (i - n) BY <1>1, <1>2, <3>1
    <3> QED BY <3>2, <3>3
  <2> QED BY <2>1, <2>2
<1>8. cs[1] = ms[1] BY <1>3, <1>6
<1>9. From(cs, f) BY <1>3, <1>5, <1>7, <1>8 DEF From
<1> QED BY <1>1, <1>2, <1>4, <1>5, <1>9

LEMMA CarriedCovers ==
    ASSUME HistoryOK, ArtifactsOK, pc # "idle", NEW a \in DOMAIN artifacts
    PROVE  Covers(ViewOf(a)) /\ ViewOf(a).dropped = {}
<1> DEFINE A == artifacts[a]
<1>1. PICK m \in Nat : m = Len(history) BY DEF HistoryOK
<1>2. From(A.source, 0) /\ Divides(A, A.source, 0) BY DEF ArtifactsOK
<1>3. PICK n \in Nat : n = Len(A.source) BY <1>2 DEF From
<1>4. PICK g \in 0 .. n - 1 :
         A.older = (0 + 1) .. (0 + g) /\ From(A.kept, 0 + g) /\ g + Len(A.kept) = n
  BY <1>2, <1>3 DEF Divides
<1>5. PICK qs : qs = Suffix(a) OBVIOUS
<1>6. /\ n \in 0 .. m /\ qs \in Seq(Messages) /\ Len(qs) = m - n
      /\ \A j \in 1 .. m - n : qs[j] = history[n + j]
  BY <1>1, <1>3, <1>5, SuffixOf
<1>7. \A i \in 1 .. m : history[i].id = i BY <1>1, HistoryFrom DEF From
<1>8. PICK l \in Nat : l = Len(A.kept) BY <1>4 DEF From
<1>9. From(A.kept, g) /\ A.older = 1 .. g /\ g \in Nat /\ g + l = n
  <2>1. 0 + g = g /\ g \in Nat BY <1>3
  <2> QED BY <1>4, <1>8, <2>1
<1>10. \A j \in 1 .. Len(qs) : qs[j].id = g + Len(A.kept) + j
  <2> SUFFICES ASSUME NEW j \in 1 .. m - n PROVE qs[j].id = g + l + j BY <1>6, <1>8
  <2>1. n + j \in 1 .. m BY <1>1, <1>3, <1>6
  <2>2. qs[j].id = n + j BY <1>6, <1>7, <2>1
  <2> QED BY <1>9, <2>2
<1> HIDE DEF A
<1>11. From(A.kept \o qs, g) /\ Len(A.kept \o qs) = Len(A.kept) + Len(qs) BY <1>6, <1>9, <1>10, ConcatFrom
<1>12. PICK cs : cs = A.kept \o qs OBVIOUS
<1>13. Alike(PruneMessages(cs), cs) BY <1>11, <1>12, PruneAlike DEF From
<1>14. From(PruneMessages(cs), g) /\ Len(PruneMessages(cs)) = l + (m - n)
  BY <1>6, <1>8, <1>11, <1>12, <1>13, AlikeFrom
<1>15. PICK v : v = ViewOf(a) OBVIOUS
<1>16. Viewed(v) /\ v.artifact = a /\ v.dropped = {} /\ v.messages = PruneMessages(cs)
  BY <1>5, <1>12, <1>15 DEF Viewed, ViewOf, Carried, A
<1>17. a # 0 /\ a \in DOMAIN artifacts BY DEF ArtifactsOK
<1>18. Behind(v) = 1 .. g BY <1>9, <1>16, <1>17 DEF Behind, A
<1>19. g \in 0 .. m /\ 0 \in 0 .. m /\ (g + 1) .. (g + 0) = {} /\ g + 0 = g /\ g + 0 + (l + (m - n)) = m
  <2>1. g \in Nat /\ g + l = n /\ n <= m BY <1>6, <1>9
  <2>2. (g + 1) .. (g + 0) = {} BY <2>1
  <2> QED BY <2>1, <2>2
<1>20. \E f, h \in 0 .. m : /\ Behind(v) = 1 .. f /\ v.dropped = (f + 1) .. (f + h)
                            /\ From(v.messages, f + h) /\ f + h + Len(v.messages) = m
  BY <1>14, <1>16, <1>18, <1>19
<1>21. Covers(v) BY <1>1, <1>16, <1>17, <1>20 DEF Covers
<1> QED BY <1>15, <1>16, <1>21

LEMMA CoversOnce ==
    ASSUME NEW v, Covers(v), HistoryOK, history # <<>>
    PROVE  LET ms == v.messages
               behind == Behind(v) \cup v.dropped
           IN /\ \A i, j \in DOMAIN ms : i < j => ms[i].id < ms[j].id
              /\ Ids(ms) \cap behind = {}
              /\ Ids(ms) \cup behind = Ids(history)
<1>1. PICK m \in Nat : m = Len(history) BY DEF HistoryOK
<1>2. PICK f \in 0 .. m, g \in 0 .. m :
        /\ Behind(v) = 1 .. f /\ v.dropped = (f + 1) .. (f + g)
        /\ From(v.messages, f + g) /\ f + g + Len(v.messages) = m
  BY <1>1 DEF Covers
<1>3. PICK ms : ms = v.messages OBVIOUS
<1>4. PICK h \in Nat : h = f + g OBVIOUS
<1>0. From(ms, h) /\ Behind(v) = 1 .. f /\ v.dropped = (f + 1) .. h /\ h + Len(ms) = m
  BY <1>2, <1>3, <1>4
<1>5. PICK l \in Nat : l = Len(ms) BY <1>0 DEF From
<1>6. From(ms, h) /\ h + l = m /\ f <= h /\ f \in Nat /\ Behind(v) = 1 .. f /\ v.dropped = (f + 1) .. h
  <2>1. f <= h /\ f \in Nat BY <1>4
  <2> QED BY <1>0, <1>5, <2>1
<1>7. DOMAIN ms = 1 .. l /\ DOMAIN history = 1 .. m BY <1>1, <1>5, <1>6 DEF From, HistoryOK
<1>8. \A i \in 1 .. l : ms[i].id = h + i BY <1>5, <1>6 DEF From
<1>9. Ids(ms) = (h + 1) .. m
  <2>1. \A i \in 1 .. l : h + i \in (h + 1) .. m BY <1>6
  <2>2. \A x \in (h + 1) .. m : x - h \in 1 .. l /\ x = h + (x - h) BY <1>6
  <2>3. Ids(ms) = {ms[i].id : i \in 1 .. l} BY <1>7 DEF Ids
  <2>4. \A i \in 1 .. l : ms[i].id \in (h + 1) .. m BY <1>8, <2>1
  <2>5. ASSUME NEW x \in (h + 1) .. m PROVE x \in {ms[i].id : i \in 1 .. l}
    <3>1. PICK i \in 1 .. l : x = h + i BY <2>2
    <3>2. ms[i].id = x BY <1>8, <3>1
    <3> QED BY <3>2
  <2> QED BY <2>3, <2>4, <2>5
<1>10. Ids(history) = 1 .. m
  <2>1. \A i \in 1 .. m : history[i].id = i BY <1>1 DEF HistoryOK, From
  <2> QED BY <1>7, <2>1 DEF Ids
<1>11. \A i, j \in DOMAIN ms : i < j => ms[i].id < ms[j].id BY <1>7, <1>8
<1>12. Behind(v) \cup v.dropped = 1 .. h BY <1>6
<1>13. ((h + 1) .. m) \cap (1 .. h) = {} /\ ((h + 1) .. m) \cup (1 .. h) = 1 .. m BY <1>6
<1> QED BY <1>3, <1>9, <1>10, <1>11, <1>12, <1>13

-----------------------------------------------------------------------------
(* Steps between two turns                                                  *)

LEMMA Recorded ==
    ASSUME ArtifactsOK
    PROVE  /\ Len(artifacts) \in Nat /\ DOMAIN artifacts = 1 .. Len(artifacts)
           /\ \A strategy : OfConfig(strategy) \in SUBSET (1 .. Len(artifacts))
           /\ \A strategy : Same(strategy) \in SUBSET (1 .. Len(artifacts))
<1>1. Len(artifacts) \in Nat /\ DOMAIN artifacts = 1 .. Len(artifacts) BY DEF ArtifactsOK
<1>2. ASSUME NEW strategy PROVE OfConfig(strategy) \subseteq DOMAIN artifacts BY DEF OfConfig
<1>3. ASSUME NEW strategy PROVE Same(strategy) \subseteq OfConfig(strategy) BY DEF Same
<1>4. \A strategy : OfConfig(strategy) \subseteq 1 .. Len(artifacts) BY <1>1, <1>2
<1>5. \A strategy : Same(strategy) \subseteq 1 .. Len(artifacts) BY <1>3, <1>4
<1> QED BY <1>1, <1>4, <1>5

LEMMA LatestArtifactOf ==
    ASSUME ArtifactsOK
    PROVE  LatestArtifact \in {0} \cup DOMAIN artifacts
<1>1. PICK n \in Nat : n = Len(artifacts) /\ DOMAIN artifacts = 1 .. n BY Recorded, Zenon
<1>2. ASSUME NEW strategy
      PROVE  OfConfig(strategy) # {} => Max(OfConfig(strategy)) \in DOMAIN artifacts
  <2>1. OfConfig(strategy) \in SUBSET (1 .. n) BY <1>1, Recorded
  <2>2. OfConfig(strategy) \in SUBSET (0 .. n) BY <2>1
  <2> QED BY <1>1, <2>1, <2>2, MaxOf
<1>3. Latest(OfConfig("deterministic")) \in {0} \cup DOMAIN artifacts
  <2>1. OfConfig("deterministic") \in SUBSET (1 .. n) BY <1>1, Recorded
  <2> QED BY <1>1, <2>1, LatestOf, Zenon
<1> QED BY ONLY <1>2, <1>3 DEF LatestArtifact

\* An artifact that is the same as the plan.
LEMMA SameArtifactOf ==
    ASSUME ArtifactsOK, NEW a, a = SameArtifact
    PROVE  \/ a = 0
           \/ /\ a \in DOMAIN artifacts /\ a # 0
              /\ artifacts[a].source = plan.source /\ artifacts[a].kept = plan.kept
              /\ artifacts[a].config = Config(Intended)
<1>1. PICK n \in Nat : n = Len(artifacts) /\ DOMAIN artifacts = 1 .. n BY Recorded, Zenon
<1>2. ASSUME NEW strategy
      PROVE  Same(strategy) # {} => Max(Same(strategy)) \in Same(strategy)
  <2>1. Same(strategy) \in SUBSET (1 .. n) BY <1>1, Recorded
  <2>2. Same(strategy) \in SUBSET (0 .. n) BY <2>1
  <2> QED BY <1>1, <2>2, MaxOf
<1>3. Latest(Same("deterministic")) \in {0} \cup Same("deterministic")
  <2>1. Same("deterministic") \in SUBSET (1 .. n) BY <1>1, Recorded
  <2> QED BY <1>1, <2>1, LatestOf
<1>4. \E strategy : a \in {0} \cup Same(strategy) BY <1>2, <1>3 DEF SameArtifact
<1>5. ASSUME NEW strategy, a \in Same(strategy)
      PROVE  /\ a \in DOMAIN artifacts /\ a # 0
             /\ artifacts[a].source = plan.source /\ artifacts[a].kept = plan.kept
             /\ artifacts[a].config = Config(Intended)
  BY <1>1, <1>5 DEF Same, OfConfig
<1> QED BY <1>4, <1>5

LEMMA CompactedOf ==
    ASSUME HistoryOK, pc # "idle", Version = 2, NEW limit, NEW force, NEW p
    PROVE  Compaction(Compacted(limit, force, p), PruneMessages(history), limit, p)
<1>1. From(PruneMessages(history), 0) BY HistoryFrom
<1>2. Compacted(limit, force, p) = CompactV2(PruneMessages(history), KeepRecent, limit, force, p)
  BY DEF Compacted
<1>3. 0 \in Nat OBVIOUS
<1> QED BY <1>1, <1>2, <1>3, CompactionOf, KeepAssumption

LEMMA CandidatePlanned ==
    ASSUME NEW ms, NEW k, NEW limit, NEW p
    PROVE  Planned(Candidate(ms, k, limit, p))
BY DEF Planned, Candidate

LEMMA OutcomeNamed ==
    ASSUME NEW o, NEW ms
    PROVE  Outcome(o, ms).outcome = o
BY DEF Outcome

LEMMA CompactedPlan ==
    ASSUME HistoryOK, pc # "idle", Version = 2, NEW limit, NEW force, NEW p,
           NEW got, got = Compacted(limit, force, p)
    PROVE  /\ got.outcome \in {"same", "too big", "compacted"}
           /\ got.outcome = "compacted" =>
                Planned(got) /\ Alike(got.source, history) /\ Divides(got, got.source, 0)
<1>1. From(PruneMessages(history), 0) /\ Alike(PruneMessages(history), history) BY HistoryFrom
<1>2. Compaction(got, PruneMessages(history), limit, p) BY CompactedOf
<1>3. 0 \in Nat OBVIOUS
<1>4. /\ got.outcome \in {"same", "too big", "compacted"}
      /\ got.outcome = "compacted" => Divides(got, PruneMessages(history), 0)
  BY <1>1, <1>2, <1>3, CompactionDivides
<1>5. ASSUME got.outcome = "compacted" PROVE Planned(got)
  <2>1. CASE got = Outcome("same", PruneMessages(history)) BY <1>5, <2>1 DEF Outcome
  <2>2. CASE got = Outcome("too big", PruneMessages(history))
    <3>1. got.outcome = "too big" BY <2>2, OutcomeNamed
    <3> QED BY <1>5, <3>1
  <2>3. CASE \E k \in 1 .. Cardinality(Starts(PruneMessages(history))) :
                got = Candidate(PruneMessages(history), k, limit, p)
    BY <2>3, CandidatePlanned
  <2> QED BY <1>2, <2>1, <2>2, <2>3 DEF Compaction
<1>6. ASSUME got.outcome = "compacted" PROVE Alike(got.source, history) /\ Divides(got, got.source, 0)
  <2>1. got.source = PruneMessages(history) BY <1>4, <1>6 DEF Divides
  <2> QED BY <1>1, <1>4, <1>6, <2>1
<1> QED BY <1>4, <1>5, <1>6

\* A step that says nothing, records nothing and leads to no view.
LEMMA QuietStep ==
    ASSUME CInv, UNCHANGED <<history, artifacts>>, pc' # "idle" => pc # "idle",
           pc' \notin {"route", "send"}, PlanOK'
    PROVE  CInv'
<1>1. HistoryOK' BY DEF CInv, HistoryOK
<1>2. ArtifactsOK' BY DEF CInv, ArtifactsOK
<1>3. ViewOK' BY DEF ViewOK
<1> QED BY <1>1, <1>2, <1>3 DEF CInv

LEMMA CoversStays ==
    ASSUME NEW v, Covers(v), UNCHANGED <<history, artifacts>>
    PROVE  Covers(v)'
BY DEF Covers, Behind, Viewed

\* A step that says nothing and records nothing, and leads to a view.
LEMMA ViewStep ==
    ASSUME CInv, UNCHANGED <<history, artifacts>>, pc # "idle", pc' \in {"route", "send"},
           NEW v, view' = v, Covers(v), pc' = "route" => v.dropped = {}
    PROVE  CInv'
<1>1. HistoryOK' BY DEF CInv, HistoryOK
<1>2. ArtifactsOK' BY DEF CInv, ArtifactsOK
<1>3. PlanOK' BY DEF PlanOK
<1>4. Covers(v)' BY CoversStays
<1>5. ViewOK' BY <1>4 DEF ViewOK
<1> QED BY <1>1, <1>2, <1>3, <1>5 DEF CInv

LEMMA PrepareStep ==
    ASSUME CInv, Version = 2, Prepare
    PROVE  CInv'
<1> DEFINE a == IF retries = 0 THEN LatestArtifact ELSE 0
           working == IF Reusable(a) THEN ViewOf(a) ELSE Plain
           first == FirstTarget(working)
           p == ParentOf(LatestArtifact, Plain.messages)
           force == Forced(working)
           got == Compacted(first, force, p)
<1>0. working = WorkingView BY DEF WorkingView
<1>1. pc = "ready" /\ UNCHANGED <<history, artifacts>> BY DEF Prepare, durable
<1>2. HistoryOK /\ ArtifactsOK /\ pc # "idle" BY <1>1 DEF CInv
<1>3. Covers(working) /\ working.dropped = {}
  <2>1. CASE Reusable(a)
    <3>1. a # 0 BY <2>1 DEF Reusable
    <3>2. a \in DOMAIN artifacts BY <1>2, <3>1, LatestArtifactOf
    <3> QED BY <1>2, <2>1, <3>2, CarriedCovers
  <2>2. CASE ~Reusable(a) BY <1>2, <2>2, PlainCovers
  <2> QED BY <2>1, <2>2
<1>4. \/ Refuse("refused")
      \/ pc' = "route" /\ view' = working
      \/ /\ plan' = got
         /\ \/ Refuse("refused")
            \/ pc' = "route" /\ view' = Plain
            \/ got.outcome = "compacted" /\ pc' = "tighten"
  <2> HIDE DEF working, first, p, force, got
  <2> QED BY <1>0 DEF Prepare, first, p, force, got
<1> HIDE DEF working, first, p, force
<1>5. CASE Refuse("refused")
  <2>1. pc' = "refused" BY <1>5 DEF Refuse
  <2>2. PlanOK' BY <2>1 DEF PlanOK
  <2> QED BY <1>1, <2>1, <2>2, QuietStep
<1>6. CASE pc' = "route" /\ view' = working BY <1>1, <1>3, <1>6, ViewStep
<1>7. CASE pc' = "route" /\ view' = Plain BY <1>1, <1>2, <1>7, PlainCovers, ViewStep
<1>8. CASE plan' = got /\ got.outcome = "compacted" /\ pc' = "tighten"
  <2>1. Planned(got) /\ Alike(got.source, history) /\ Divides(got, got.source, 0)
    BY <1>2, <1>8, CompactedPlan
  <2> HIDE DEF got
  <2>2. PlanOK' BY <1>1, <1>8, <2>1 DEF PlanOK
  <2> QED BY <1>1, <1>8, <2>2, QuietStep
<1> HIDE DEF got
<1> QED BY <1>4, <1>5, <1>6, <1>7, <1>8

LEMMA TightenStep ==
    ASSUME CInv, Version = 2, Tighten
    PROVE  CInv'
<1> DEFINE got == Compacted(NextTarget, Forced(WorkingView), parent)
<1>1. pc = "tighten" /\ UNCHANGED <<history, artifacts>> BY DEF Tighten, durable
<1>2. HistoryOK /\ ArtifactsOK /\ pc # "idle" BY <1>1 DEF CInv
<1>3. \/ Refuse("refused")
      \/ pc' = "route" /\ view' = Plain
      \/ plan' = got /\ got.outcome = "compacted" /\ pc' = pc
  BY DEF Tighten
<1>4. CASE Refuse("refused")
  <2>1. pc' = "refused" BY <1>4 DEF Refuse
  <2>2. PlanOK' BY <2>1 DEF PlanOK
  <2> QED BY <1>1, <2>1, <2>2, QuietStep
<1>5. CASE pc' = "route" /\ view' = Plain BY <1>1, <1>2, <1>5, PlainCovers, ViewStep
<1>6. CASE plan' = got /\ got.outcome = "compacted" /\ pc' = pc
  <2>1. Planned(got) /\ Alike(got.source, history) /\ Divides(got, got.source, 0)
    BY <1>2, <1>6, CompactedPlan
  <2> HIDE DEF got
  <2>2. PlanOK' BY <1>1, <1>6, <2>1 DEF PlanOK
  <2> QED BY <1>1, <1>6, <2>2, QuietStep
<1> HIDE DEF got
<1> QED BY <1>3, <1>4, <1>5, <1>6

\* Only what the summary says is the model's.
Reworded(c, d) ==
    \/ d = c
    \/ \E s : d = [c EXCEPT !.summary = s, !.outcome = "llm"]

LEMMA RewordedPlan ==
    ASSUME NEW c, Planned(c), NEW d, Reworded(c, d)
    PROVE  /\ Planned(d) /\ d.source = c.source /\ d.older = c.older /\ d.kept = c.kept
           /\ d.evidence = c.evidence
<1>1. CASE d = c BY <1>1
<1>2. ASSUME NEW s, d = [c EXCEPT !.summary = s, !.outcome = "llm"]
      PROVE  /\ Planned(d) /\ d.source = c.source /\ d.older = c.older /\ d.kept = c.kept
             /\ d.evidence = c.evidence
  BY <1>2 DEF Planned
<1> QED BY <1>1, <1>2 DEF Reworded

LEMMA JudgeReworded ==
    ASSUME NEW valid, Judge(valid)
    PROVE  Reworded(plan, plan') /\ (pc' = "record" \/ pc' = "summarize")
<1>1. ASSUME NEW E, Accept(E) PROVE Reworded(plan, plan') /\ (pc' = "record" \/ pc' = "summarize")
  BY <1>1 DEF Accept, Reworded
<1>2. ASSUME FallBack PROVE Reworded(plan, plan') /\ (pc' = "record" \/ pc' = "summarize")
  BY <1>2 DEF FallBack, Reworded
<1> QED BY <1>1, <1>2 DEF Judge

LEMMA RewordStep ==
    ASSUME CInv, UNCHANGED <<history, artifacts>>, pc \in {"tighten", "summarize"},
           Reworded(plan, plan'), pc' \in {"summarize", "record"}
    PROVE  CInv'
<1>1. Planned(plan) /\ Alike(plan.source, history) /\ Divides(plan, plan.source, 0)
  BY DEF CInv, PlanOK
<1>2. PICK d : d = plan' OBVIOUS
<1>3. Planned(d) /\ d.source = plan.source /\ d.older = plan.older /\ d.kept = plan.kept
  BY <1>1, <1>2, RewordedPlan
<1>4. Alike(d.source, history) /\ Divides(d, d.source, 0) BY <1>1, <1>3 DEF Divides
<1>5. PlanOK' BY <1>2, <1>3, <1>4 DEF PlanOK
<1> QED BY <1>5, QuietStep

LEMMA ChooseStep ==
    ASSUME CInv, Choose
    PROVE  CInv'
<1>1. pc = "tighten" /\ UNCHANGED <<history, artifacts, plan>> /\ pc' \in {"summarize", "record"}
  BY DEF Choose, durable
<1>2. Reworded(plan, plan') BY <1>1 DEF Reworded
<1> QED BY <1>1, <1>2, RewordStep

LEMMA SummaryStep ==
    ASSUME CInv, SummarizeCached \/ Summarize \/ SummaryFails \/ NoRequestLeft
    PROVE  CInv'
<1>1. pc = "summarize" /\ UNCHANGED <<history, artifacts>>
  BY DEF SummarizeCached, Summarize, SummaryFails, NoRequestLeft, durable
<1>2. Reworded(plan, plan') /\ pc' \in {"summarize", "record"}
  <2>1. CASE SummarizeCached BY <2>1, JudgeReworded DEF SummarizeCached
  <2>2. CASE Summarize BY <2>2, JudgeReworded DEF Summarize
  <2>3. CASE SummaryFails \/ NoRequestLeft
    BY <1>1, <2>3 DEF SummaryFails, NoRequestLeft, FallBack, Reworded
  <2> QED BY <2>1, <2>2, <2>3
<1> QED BY <1>1, <1>2, RewordStep

LEMMA RecordStep ==
    ASSUME CInv, Record
    PROVE  CInv'
<1> DEFINE old == SameArtifact
           fresh == old = 0
           used == IF fresh THEN Artifact ELSE artifacts[old]
           place == IF fresh THEN Len(artifacts) + 1 ELSE old
           v == [messages |-> plan.kept, summary |-> SummarySize(used.summary),
                 artifact |-> place, dropped |-> {}]
<1>1. pc = "record" /\ UNCHANGED history BY DEF Record
<1>2. HistoryOK /\ ArtifactsOK BY DEF CInv
<1>3. artifacts' = IF fresh THEN Append(artifacts, Artifact) ELSE artifacts BY DEF Record
<1>4. (pc' \in {"broken", "refused"}) \/ (pc' = "route" /\ view' = v)
  <2> HIDE DEF used, place, v
  <2> QED BY DEF Record, Refuse, v, used, place
<1>5. Alike(plan.source, history) /\ Divides(plan, plan.source, 0) BY <1>1 DEF CInv, PlanOK
<1>6. From(history, 0) BY <1>1, <1>2, HistoryFrom
<1>7. From(plan.source, 0) /\ Len(plan.source) = Len(history) BY ONLY <1>5, <1>6, AlikeFrom, ZenonT(20)
<1>8. PICK n \in Nat : n = Len(artifacts) /\ DOMAIN artifacts = 1 .. n BY <1>2, Recorded, Zenon
<1>9. PICK A : A = Artifact OBVIOUS
<1>10. A.source = plan.source /\ A.older = plan.older /\ A.kept = plan.kept BY <1>9 DEF Artifact
<1>11. Divides(A, plan.source, 0) BY <1>5, <1>10 DEF Divides
<1> HIDE DEF old
<1>12. /\ ArtifactsOK' /\ place # 0 /\ place \in DOMAIN artifacts'
       /\ Divides(artifacts'[place], plan.source, 0) /\ artifacts'[place].kept = plan.kept
  <2>1. CASE fresh
    <3>1. PICK S : S = Range(artifacts) /\ artifacts \in Seq(S) BY <1>2 DEF ArtifactsOK
    <3>2. PICK as : as = artifacts' OBVIOUS
    <3>3. as = Append(artifacts, A) BY <1>3, <1>9, <2>1, <3>2
    <3>4. /\ as \in Seq(S \cup {A}) /\ Len(as) = n + 1 /\ DOMAIN as = 1 .. n + 1
          /\ \A a \in 1 .. n : as[a] = artifacts[a]
          /\ as[n + 1] = A
      BY <1>8, <3>1, <3>3
    <3>5. as \in Seq(Range(as)) BY <3>4, SequenceOfRange
    <3>6. ASSUME NEW a \in 1 .. n + 1
          PROVE  /\ From(as[a].source, 0) /\ Len(as[a].source) <= Len(history)
                 /\ Divides(as[a], as[a].source, 0)
      <4>1. CASE a = n + 1
        <5>1. as[a] = A BY <3>4, <4>1
        <5>2. Len(history) \in Nat BY <1>2 DEF HistoryOK
        <5> QED BY <1>7, <1>10, <1>11, <5>1, <5>2
      <4>2. CASE a # n + 1
        <5>1. a \in 1 .. n BY <1>8, <4>2
        <5>2. as[a] = artifacts[a] /\ a \in DOMAIN artifacts BY <1>8, <3>4, <5>1
        <5> QED BY <1>2, <5>2 DEF ArtifactsOK
      <4> QED BY <4>1, <4>2
    <3>7. ArtifactsOK' BY <1>1, <3>2, <3>4, <3>5, <3>6 DEF ArtifactsOK
    <3>8. place = n + 1 BY <1>8, <2>1
    <3>9. place # 0 /\ place \in DOMAIN artifacts' /\ artifacts'[place] = A BY <1>8, <3>2, <3>4, <3>8
    <3>10. Divides(artifacts'[place], plan.source, 0) /\ artifacts'[place].kept = plan.kept BY <1>10, <1>11, <3>9
    <3> QED BY <3>7, <3>9, <3>10
  <2>2. CASE ~fresh
    <3>1. /\ old \in DOMAIN artifacts /\ old # 0
          /\ artifacts[old].source = plan.source /\ artifacts[old].kept = plan.kept
      BY <1>2, <2>2, SameArtifactOf DEF old
    <3>2. place = old /\ artifacts' = artifacts BY <1>3, <2>2
    <3>3. ArtifactsOK' BY <1>1, <1>2, <3>2 DEF ArtifactsOK
    <3>4. Divides(artifacts[old], plan.source, 0) BY <1>2, <3>1 DEF ArtifactsOK
    <3> QED BY <3>1, <3>2, <3>3, <3>4
  <2> QED BY <2>1, <2>2
<1>13. HistoryOK' BY <1>1, <1>2, <1>4 DEF HistoryOK
<1>14. PlanOK' BY <1>4 DEF PlanOK
<1>15. PICK m \in Nat : m = Len(history) /\ m = Len(plan.source) BY <1>2, <1>7 DEF HistoryOK
<1>16. PICK g \in 0 .. m - 1 :
         /\ artifacts'[place].older = (0 + 1) .. (0 + g)
         /\ From(plan.kept, 0 + g) /\ g + Len(plan.kept) = m
  BY <1>12, <1>15 DEF Divides
<1>17. PICK w : w = v OBVIOUS
<1>18. /\ Viewed(w) /\ w.messages = plan.kept /\ w.artifact = place /\ w.dropped = {}
  BY <1>17 DEF Viewed
<1> HIDE DEF place, v
<1>19. Covers(w)'
  <2>1. Behind(w)' = 1 .. g BY <1>12, <1>16, <1>18 DEF Behind
  <2>2. g \in 0 .. m /\ 0 \in 0 .. m /\ g + 0 = g /\ 0 + g = g /\ (g + 1) .. (g + 0) = {} BY <1>15
  <2>3. From(w.messages, g + 0) /\ g + 0 + Len(w.messages) = m BY <1>16, <1>18, <2>2
  <2>4. \E f, h \in 0 .. m : /\ Behind(w)' = 1 .. f /\ w.dropped = (f + 1) .. (f + h)
                             /\ From(w.messages, f + h) /\ f + h + Len(w.messages) = m
    BY <1>18, <2>1, <2>2, <2>3
  <2>5. w.artifact \in {0} \cup DOMAIN artifacts' BY <1>12, <1>18
  <2>6. Len(history)' = m BY <1>1, <1>15
  <2> QED BY <1>18, <2>4, <2>5, <2>6 DEF Covers, Viewed
<1>20. ViewOK' BY <1>4, <1>17, <1>18, <1>19 DEF ViewOK
<1> QED BY <1>12, <1>13, <1>14, <1>20 DEF CInv

\* What is left of a view after the route's compaction.
LEMMA RouteCovers ==
    ASSUME CInv, pc = "route", NEW got, NEW limit, NEW v,
           Compaction(got, PruneMessages(view.messages), limit, NoParent), got.outcome = "compacted",
           Viewed(v), v.messages = got.kept, v.dropped = got.older, v.artifact = view.artifact
    PROVE  Covers(v)
<1>1. Covers(view) /\ view.dropped = {} BY DEF CInv, ViewOK
<1>2. PICK m \in Nat : m = Len(history) BY DEF CInv, HistoryOK
<1>3. PICK f \in 0 .. m, h \in 0 .. m :
        /\ Behind(view) = 1 .. f /\ view.dropped = (f + 1) .. (f + h)
        /\ From(view.messages, f + h) /\ f + h + Len(view.messages) = m
  BY <1>1, <1>2 DEF Covers
<1>4. h = 0
  <2>0. f \in Nat /\ h \in Nat BY <1>2
  <2>1. (f + 1) .. (f + h) = {} BY <1>1, <1>3
  <2>2. f + 1 \notin (f + 1) .. (f + h) BY <2>1
  <2> QED BY <2>0, <2>2
<1>5. PICK ms : ms = view.messages OBVIOUS
<1>6. From(ms, f) /\ f + Len(ms) = m /\ f \in Nat
  <2>1. f + h = f /\ f \in Nat BY <1>4
  <2> QED BY <1>3, <1>5, <2>1
<1>7. Alike(PruneMessages(ms), ms) BY <1>6, PruneAlike DEF From
<1>8. From(PruneMessages(ms), f) /\ Len(PruneMessages(ms)) = Len(ms) BY <1>6, <1>7, AlikeFrom
<1>9. Divides(got, PruneMessages(ms), f) BY <1>5, <1>6, <1>8, CompactionDivides
<1>10. PICK l \in Nat : l = Len(ms) BY <1>6 DEF From
<1>11. PICK g \in 0 .. l - 1 : /\ got.older = (f + 1) .. (f + g)
                               /\ From(got.kept, f + g) /\ g + Len(got.kept) = l
  BY <1>8, <1>9, <1>10 DEF Divides
<1>12. Behind(v) = 1 .. f BY <1>3 DEF Behind
<1>13. g \in 0 .. m /\ f \in 0 .. m
  <2>1. f + l = m /\ f \in Nat /\ l \in Nat BY <1>6, <1>10
  <2> QED BY <2>1
<1>14. f + g + Len(v.messages) = m
  <2>1. PICK k \in Nat : k = Len(got.kept) BY <1>11 DEF From
  <2>2. g + k = l /\ f + l = m BY <1>6, <1>10, <1>11, <2>1
  <2>3. Len(v.messages) = k BY <2>1
  <2>4. f \in Nat /\ g \in Nat BY <1>13
  <2>5. f + g + k = m BY <2>2, <2>4
  <2> QED BY <2>3, <2>5
<1>15. v.artifact \in {0} \cup DOMAIN artifacts BY <1>1 DEF Covers
<1> QED BY <1>2, <1>11, <1>12, <1>13, <1>14, <1>15 DEF Covers

LEMMA RouteStep ==
    ASSUME CInv, Route
    PROVE  CInv'
<1>1. pc = "route" /\ UNCHANGED <<history, artifacts>> BY DEF Route, durable
<1>2. PICK limit \in RouteLimits :
        LET room == ((limit - SystemSize - view.summary) * 8) \div 10
            got == CompactV2(PruneMessages(view.messages), 1, Max({1, room}), TRUE, NoParent) IN
        \/ pc' = "send" /\ UNCHANGED view
        \/ Refuse("refused")
        \/ /\ got.outcome = "compacted"
           /\ view' = [view EXCEPT !.messages = got.kept, !.dropped = got.older,
                                   !.summary = @ + SummarySize(got.summary)]
           /\ pc' \in {"send", "refused"}
  BY DEF Route
<1> DEFINE room == ((limit - SystemSize - view.summary) * 8) \div 10
           top == Max({1, room})
           got == CompactV2(PruneMessages(view.messages), 1, top, TRUE, NoParent)
           v == [view EXCEPT !.messages = got.kept, !.dropped = got.older,
                             !.summary = @ + SummarySize(got.summary)]
<1>3. Covers(view) /\ view.dropped = {} BY <1>1 DEF CInv, ViewOK
<1>4. CASE pc' = "send" /\ UNCHANGED view
  <2>1. PICK w : w = view OBVIOUS
  <2> QED BY <1>1, <1>3, <1>4, <2>1, ViewStep
<1>5. CASE pc' \in {"broken", "refused"}
  <2>1. PlanOK' BY <1>5 DEF PlanOK
  <2> QED BY <1>1, <1>5, <2>1, QuietStep
<1>6. CASE got.outcome = "compacted" /\ view' = v /\ pc' = "send"
  <2>1. PICK c : c = got OBVIOUS
  <2>2. Compaction(c, PruneMessages(view.messages), top, NoParent)
    <3>1. PICK f, h \in 0 .. Len(history) : From(view.messages, f + h) BY <1>3 DEF Covers
    <3>2. PICK e \in Nat : e = f + h BY DEF HistoryOK
    <3>3. From(view.messages, e) BY <3>1, <3>2
    <3>4. Alike(PruneMessages(view.messages), view.messages) BY <3>3, PruneAlike DEF From
    <3>5. From(PruneMessages(view.messages), e) BY <3>3, <3>4, AlikeFrom
    <3>6. 1 \in Nat \ {0} OBVIOUS
    <3> HIDE DEF top
    <3> QED BY <2>1, <3>5, <3>6, CompactionOf
  <2>3. PICK w : w = view' OBVIOUS
  <2>4. w = [view EXCEPT !.messages = c.kept, !.dropped = c.older,
                         !.summary = @ + SummarySize(c.summary)]
    <3> HIDE DEF got
    <3> QED BY <1>6, <2>1, <2>3
  <2>5. Viewed(view) BY <1>3 DEF Covers
  <2>6. Viewed(w) /\ w.messages = c.kept /\ w.dropped = c.older /\ w.artifact = view.artifact
    BY <2>4, <2>5 DEF Viewed
  <2>7. c.outcome = "compacted" BY <1>6, <2>1
  <2> HIDE DEF top
  <2>8. Covers(w) BY <1>1, <2>2, <2>6, <2>7, RouteCovers
  <2> QED BY <1>1, <1>6, <2>3, <2>8, ViewStep
<1>7. Refuse("refused") => pc' \in {"broken", "refused"} BY DEF Refuse
<1> HIDE DEF got, v
<1>8. \/ pc' = "send" /\ UNCHANGED view
      \/ pc' \in {"broken", "refused"}
      \/ got.outcome = "compacted" /\ view' = v /\ pc' = "send"
  BY <1>2, <1>7 DEF got, v
<1> QED BY <1>4, <1>5, <1>6, <1>8

LEMMA GrowStep ==
    ASSUME CInv, UNCHANGED artifacts, From(history', 0), Len(history) < Len(history'),
           pc' \in {"idle", "ready"}
    PROVE  CInv'
<1>1. HistoryOK' BY DEF HistoryOK, From
<1>2. ArtifactsOK'
  <2>1. ASSUME NEW a \in DOMAIN artifacts PROVE Len(artifacts[a].source) <= Len(history')
    <3>1. PICK n \in Nat : n = Len(artifacts[a].source) BY DEF CInv, ArtifactsOK, From
    <3>2. PICK m \in Nat : m = Len(history) BY DEF CInv, HistoryOK
    <3>3. PICK l \in Nat : l = Len(history') BY DEF From
    <3>4. n <= m BY <3>1, <3>2 DEF CInv, ArtifactsOK
    <3>5. m < l BY <3>2, <3>3
    <3>6. n <= l BY <3>1, <3>2, <3>3, <3>4, <3>5
    <3> QED BY <3>1, <3>3, <3>6
  <2> QED BY <2>1 DEF CInv, ArtifactsOK
<1>3. PlanOK' /\ ViewOK' BY DEF PlanOK, ViewOK
<1> QED BY <1>1, <1>2, <1>3 DEF CInv

LEMMA MessageOf ==
    ASSUME NEW id \in Nat, NEW role \in Roles, NEW tag \in Tags, NEW calls \in SUBSET Nat,
           NEW path \in Paths \cup {NoPath}, NEW m, m = Message(id, role, tag, calls, path)
    PROVE  m \in Messages /\ m.id = id /\ m.role = role /\ m.tag = tag /\ m.calls = calls /\ m.path = path
BY DEF Message, Messages

\* One more message.
LEMMA AppendFrom ==
    ASSUME HistoryOK, NEW m \in Messages, m.id = Len(history) + 1, history = <<>> => m.role # "tool"
    PROVE  From(Append(history, m), 0) /\ Len(history) <= Len(Append(history, m))
<1>1. PICK n \in Nat : n = Len(history) BY DEF HistoryOK
<1>2. history \in Seq(Messages) BY DEF HistoryOK
<1>3. PICK hs : hs = Append(history, m) OBVIOUS
<1>4. /\ hs \in Seq(Messages) /\ Len(hs) = n + 1 /\ hs[n + 1] = m
      /\ \A i \in 1 .. n : hs[i] = history[i]
  BY <1>1, <1>2, <1>3
<1>5. ASSUME NEW i \in 1 .. n + 1 PROVE hs[i].id = 0 + i
  <2>1. CASE i = n + 1 BY <1>1, <1>4, <2>1
  <2>2. CASE i # n + 1
    <3>1. i \in 1 .. n /\ history # <<>> BY <1>1, <2>2
    <3>2. history[i].id = 0 + i BY <1>1, <3>1 DEF HistoryOK, From
    <3> QED BY <1>4, <3>1, <3>2
  <2> QED BY <2>1, <2>2
<1>6. hs[1].role # "tool"
  <2>1. CASE history = <<>>
    <3>1. n = 0 BY <1>1, <2>1
    <3> QED BY <1>4, <2>1, <3>1
  <2>2. CASE history # <<>>
    <3>1. 1 \in 1 .. n BY <1>1, <1>2, <2>2
    <3>2. hs[1] = history[1] BY <1>4, <3>1
    <3> QED BY <2>2, <3>2 DEF HistoryOK, From
  <2> QED BY <2>1, <2>2
<1>7. From(hs, 0) /\ n <= Len(hs) BY <1>4, <1>5, <1>6 DEF From
<1> QED BY <1>1, <1>3, <1>7

LEMMA SayFrom ==
    ASSUME HistoryOK, NEW tag \in Tags, NEW path \in Paths \cup {NoPath}
    PROVE  From(Say(tag, path), 0) /\ Len(history) < Len(Say(tag, path))
<1>1. PICK n \in Nat : n = Len(history) BY DEF HistoryOK
<1>2. PICK m : m = Message(n + 1, "user", tag, {}, path) OBVIOUS
<1>3. m \in Messages /\ m.id = n + 1 /\ m.role = "user"
  <2>1. n + 1 \in Nat /\ "user" \in Roles /\ {} \in SUBSET Nat BY DEF Roles
  <2> QED BY <1>2, <2>1, MessageOf
<1>4. Say(tag, path) = Append(history, m) BY <1>1, <1>2 DEF Say
<1> QED BY <1>1, <1>3, <1>4, AppendFrom

\* What a turn with l calls adds to the n messages before it.
Turned(hs, n, l, tags, path) ==
    /\ hs \in Seq(Messages) /\ n \in Nat /\ l \in Nat /\ Len(hs) = n + 1 + l
    /\ \A i \in 1 .. n : hs[i] = history[i]
    /\ hs[n + 1] = Message(n + 1, "assistant", "calls", {n + 1 + i : i \in 1 .. l}, NoPath)
    /\ \A i \in 1 .. l : hs[n + 1 + i] = Message(n + 1 + i, "tool", tags[i], {}, path)

LEMMA TurnOf ==
    ASSUME HistoryOK, history # <<>>, NEW tags \in Seq(Tags), NEW path \in Paths \cup {NoPath},
           NEW n, n = Len(history), NEW l, l = Len(tags), NEW hs, hs = Turn(tags, path)
    PROVE  Turned(hs, n, l, tags, path)
<1>1. n \in Nat /\ l \in Nat /\ DOMAIN tags = 1 .. l /\ history \in Seq(Messages) BY DEF HistoryOK
<1>2. PICK C : C = {n + 1 + i : i \in 1 .. l} OBVIOUS
<1>3. C \in SUBSET Nat BY <1>1, <1>2
<1>4. PICK m : m = Message(n + 1, "assistant", "calls", C, NoPath) OBVIOUS
<1>5. m \in Messages
  <2>1. n + 1 \in Nat /\ "assistant" \in Roles /\ "calls" \in Tags /\ NoPath \in Paths \cup {NoPath}
    BY <1>1 DEF Roles, Tags
  <2> QED BY <1>3, <1>4, <2>1, MessageOf
<1>6. PICK rs : rs = [i \in 1 .. l |-> Message(n + 1 + i, "tool", tags[i], {}, path)] OBVIOUS
<1>7. ASSUME NEW i \in 1 .. l PROVE Message(n + 1 + i, "tool", tags[i], {}, path) \in Messages
  <2>1. n + 1 + i \in Nat /\ tags[i] \in Tags BY <1>1
  <2>2. PICK q : q = Message(n + 1 + i, "tool", tags[i], {}, path) OBVIOUS
  <2>3. "tool" \in Roles /\ {} \in SUBSET Nat BY DEF Roles
  <2>4. q \in Messages BY <2>1, <2>2, <2>3, MessageOf
  <2> QED BY <2>2, <2>4
<1>8. rs \in Seq(Messages) /\ Len(rs) = l BY <1>1, <1>6, <1>7
<1>9. hs = history \o <<m>> \o rs BY <1>1, <1>2, <1>4, <1>6 DEF Turn
<1>10. PICK gs : gs = history \o <<m>> OBVIOUS
<1>11. /\ gs \in Seq(Messages) /\ Len(gs) = n + 1 /\ gs[n + 1] = m
       /\ \A i \in 1 .. n : gs[i] = history[i]
  BY <1>1, <1>5, <1>10
<1>12. /\ hs \in Seq(Messages) /\ Len(hs) = n + 1 + l
       /\ \A i \in 1 .. n + 1 + l : hs[i] = IF i <= n + 1 THEN gs[i] ELSE rs[i - (n + 1)]
  <2>1. PICK k \in Nat : k = n + 1 BY <1>1
  <2>2. Len(gs) = k /\ gs \in Seq(Messages) /\ hs = gs \o rs BY <1>9, <1>10, <1>11, <2>1
  <2>3. /\ hs \in Seq(Messages) /\ Len(hs) = k + l
        /\ \A i \in 1 .. k + l : hs[i] = IF i <= k THEN gs[i] ELSE rs[i - k]
    <3>1. gs \in Seq(Messages) /\ rs \in Seq(Messages) BY <1>8, <2>2
    <3>2. k = Len(gs) /\ l = Len(rs) /\ hs = gs \o rs BY <1>8, <2>2
    <3>3. /\ k \in Nat /\ l \in Nat /\ hs \in Seq(Messages) /\ Len(hs) = k + l
          /\ \A i \in 1 .. k + l : hs[i] = IF i <= k THEN gs[i] ELSE rs[i - k]
      BY ONLY <3>1, <3>2
    <3> QED BY <3>3
  <2> QED BY <2>1, <2>3
<1>13. ASSUME NEW i \in 1 .. n PROVE hs[i] = history[i]
  <2>1. i \in 1 .. n + 1 + l /\ i <= n + 1 BY <1>1
  <2> QED BY <1>11, <1>12, <2>1
<1>14. hs[n + 1] = m
  <2>1. n + 1 \in 1 .. n + 1 + l BY <1>1
  <2> QED BY <1>11, <1>12, <2>1
<1>15. ASSUME NEW i \in 1 .. l PROVE hs[n + 1 + i] = Message(n + 1 + i, "tool", tags[i], {}, path)
  <2>1. n + 1 + i \in 1 .. n + 1 + l /\ ~(n + 1 + i <= n + 1) /\ n + 1 + i - (n + 1) = i BY <1>1
  <2>2. hs[n + 1 + i] = rs[i] BY <1>12, <2>1
  <2> QED BY <1>6, <2>2
<1> QED BY <1>1, <1>2, <1>4, <1>12, <1>13, <1>14, <1>15 DEF Turned

LEMMA TurnFrom ==
    ASSUME HistoryOK, history # <<>>, NEW tags \in Seq(Tags), NEW path \in Paths \cup {NoPath}
    PROVE  From(Turn(tags, path), 0) /\ Len(history) < Len(Turn(tags, path))
<1>1. PICK n : n = Len(history) OBVIOUS
<1>2. PICK l : l = Len(tags) OBVIOUS
<1>3. PICK hs : hs = Turn(tags, path) OBVIOUS
<1>4. /\ hs \in Seq(Messages) /\ n \in Nat /\ l \in Nat /\ Len(hs) = n + 1 + l
      /\ \A i \in 1 .. n : hs[i] = history[i]
      /\ hs[n + 1] = Message(n + 1, "assistant", "calls", {n + 1 + i : i \in 1 .. l}, NoPath)
      /\ \A i \in 1 .. l : hs[n + 1 + i] = Message(n + 1 + i, "tool", tags[i], {}, path)
  <2>1. Turned(hs, n, l, tags, path) BY <1>1, <1>2, <1>3, TurnOf
  <2> QED BY <2>1 DEF Turned
<1>5. From(history, 0) BY DEF HistoryOK
<1>6. 1 \in 1 .. n BY <1>1, <1>4, <1>5 DEF From
<1>7. hs[1].role # "tool" BY <1>4, <1>5, <1>6 DEF From
<1>8. ASSUME NEW i \in 1 .. n + 1 + l PROVE hs[i].id = 0 + i
  <2>1. CASE i \in 1 .. n BY <1>1, <1>4, <1>5, <2>1 DEF From
  <2>2. CASE i = n + 1
    <3>1. hs[i].id = n + 1 BY <1>4, <2>2 DEF Message
    <3> QED BY <1>4, <2>2, <3>1
  <2>3. CASE i > n + 1
    <3>1. PICK j \in 1 .. l : i = n + 1 + j
      <4>1. i - (n + 1) \in 1 .. l /\ i = n + 1 + (i - (n + 1)) BY <1>4, <2>3
      <4> QED BY <4>1
    <3>2. hs[i] = Message(i, "tool", tags[j], {}, path) BY <1>4, <3>1
    <3>3. hs[i].id = i BY <3>2 DEF Message
    <3> QED BY <1>4, <3>3
  <2> QED BY <1>4, <2>1, <2>2, <2>3
<1>9. From(hs, 0) /\ n < Len(hs)
  <2>1. n + 1 + l > 0 /\ n < n + 1 + l BY <1>4
  <2> QED BY <1>4, <1>7, <1>8, <2>1 DEF From
<1> QED BY <1>1, <1>3, <1>9

LEMMA SpeechGrows ==
    ASSUME CInv, Answer \/ Call \/ Ask \/ Hear
    PROVE  /\ UNCHANGED artifacts /\ pc' \in {"idle", "ready"}
           /\ From(history', 0) /\ Len(history) < Len(history')
<1>1. HistoryOK BY DEF CInv
<1>2. CASE Answer
  <2>1. PICK n \in Nat : n = Len(history) BY <1>1 DEF HistoryOK
  <2>2. PICK m : m = Message(n + 1, "assistant", "answer", {}, NoPath) OBVIOUS
  <2>3. m \in Messages /\ m.id = n + 1 /\ m.role = "assistant"
    <3>1. /\ n + 1 \in Nat /\ "assistant" \in Roles /\ "answer" \in Tags /\ {} \in SUBSET Nat
          /\ NoPath \in Paths \cup {NoPath}
      BY DEF Roles, Tags
    <3>2. PICK k \in Nat : k = n + 1 OBVIOUS
    <3>3. m = Message(k, "assistant", "answer", {}, NoPath) BY <2>2, <3>2
    <3> QED BY <3>1, <3>2, <3>3, MessageOf
  <2>4. history' = Append(history, m) BY <1>2, <2>1, <2>2 DEF Answer
  <2>5. UNCHANGED artifacts /\ pc' = "idle" BY <1>2 DEF Answer, End
  <2>6. From(history', 0) /\ Len(history) < Len(history') BY <1>1, <2>1, <2>3, <2>4, AppendFrom
  <2> QED BY <2>5, <2>6
<1>3. CASE Call
  <2>1. PICK tags \in Results, p \in Paths : history' = Turn(tags, p) BY <1>3 DEF Call
  <2>2. tags \in Seq(Tags) /\ p \in Paths \cup {NoPath}
    <3>1. tags \in Seq(Range(tags)) BY ResultsAssumption, SequenceOfRange
    <3>2. Range(tags) \subseteq Tags BY DEF Tags
    <3> QED BY <3>1, <3>2
  <2>3. UNCHANGED artifacts /\ pc' = "ready" /\ pc # "idle" BY <1>3 DEF Call
  <2>4. history # <<>> BY <1>1, <2>3 DEF HistoryOK
  <2>5. From(history', 0) /\ Len(history) < Len(history') BY <1>1, <2>1, <2>2, <2>4, TurnFrom
  <2> QED BY <2>3, <2>5
<1>4. CASE Ask
  <2>1. PICK tag \in Asks : history' = Say(tag, NoPath) BY <1>4 DEF Ask
  <2>2. tag \in Tags /\ NoPath \in Paths \cup {NoPath} BY DEF Tags
  <2>3. From(history', 0) /\ Len(history) < Len(history') BY <1>1, <2>1, <2>2, SayFrom
  <2>4. UNCHANGED artifacts /\ pc' = "ready" BY <1>4 DEF Ask
  <2> QED BY <2>3, <2>4
<1>5. CASE Hear
  <2>1. PICK tag \in Hears, path \in Paths \cup {NoPath} : history' = Say(tag, path) BY <1>5 DEF Hear
  <2>2. tag \in Tags BY DEF Tags
  <2>3. From(history', 0) /\ Len(history) < Len(history') BY <1>1, <2>1, <2>2, SayFrom
  <2>4. UNCHANGED artifacts /\ pc' = "ready" BY <1>5 DEF Hear
  <2> QED BY <2>3, <2>4
<1> QED BY <1>2, <1>3, <1>4, <1>5

LEMMA SpeechStep ==
    ASSUME CInv, Answer \/ Call \/ Ask \/ Hear
    PROVE  CInv'
BY SpeechGrows, GrowStep

LEMMA EndStep ==
    ASSUME CInv, Overflow \/ Stop \/ Interrupt
    PROVE  CInv'
<1>1. UNCHANGED <<history, artifacts>> BY DEF Overflow, Stop, Interrupt, durable
<1>2. pc' = "idle" \/ (pc' = "ready" /\ pc = "send") BY DEF Overflow, Stop, Interrupt, End
<1>3. PlanOK' BY <1>2 DEF PlanOK
<1> QED BY <1>1, <1>2, <1>3, QuietStep

LEMMA NextCInv ==
    ASSUME Version = 2, CInv, [ContextNext]_contextVars
    PROVE  CInv'
<1>1. CASE Prepare BY <1>1, PrepareStep
<1>2. CASE Tighten BY <1>2, TightenStep
<1>3. CASE Choose BY <1>3, ChooseStep
<1>4. CASE SummarizeCached \/ Summarize \/ SummaryFails \/ NoRequestLeft BY <1>4, SummaryStep
<1>5. CASE Record BY <1>5, RecordStep
<1>6. CASE Route BY <1>6, RouteStep
<1>7. CASE Answer \/ Call \/ Ask \/ Hear BY <1>7, SpeechStep
<1>8. CASE Overflow \/ Stop \/ Interrupt BY <1>8, EndStep
<1>9. CASE UNCHANGED contextVars
  <2>1. UNCHANGED <<history, artifacts, pc, plan, view>> BY <1>9 DEF contextVars, durable, work
  <2> QED BY <2>1 DEF CInv, HistoryOK, ArtifactsOK, PlanOK, ViewOK, Covers, Behind, Viewed, Planned
<1> QED BY <1>1, <1>2, <1>3, <1>4, <1>5, <1>6, <1>7, <1>8, <1>9 DEF ContextNext

LEMMA CInvOnce == CInv => EverythingOnce
<1> SUFFICES ASSUME CInv, pc = "send" PROVE EverythingOnce BY DEF EverythingOnce
<1>1. PICK v : v = view OBVIOUS
<1>2. Covers(v) /\ HistoryOK /\ history # <<>> BY <1>1 DEF CInv, ViewOK, HistoryOK
<1>3. LET ms == v.messages
          behind == Behind(v) \cup v.dropped
      IN /\ \A i, j \in DOMAIN ms : i < j => ms[i].id < ms[j].id
         /\ Ids(ms) \cap behind = {}
         /\ Ids(ms) \cup behind = Ids(history)
  BY <1>2, CoversOnce
<1> QED BY <1>1, <1>3 DEF EverythingOnce, Behind

THEOREM SentOnce ==
    ASSUME Version = 2
    PROVE  ContextSpec => []EverythingOnce
<1>1. CInv /\ [ContextNext]_contextVars => CInv' BY NextCInv
<1> QED BY InitCInv, <1>1, CInvOnce, PTL DEF ContextSpec

-----------------------------------------------------------------------------
(* What the messages are evidence of                                        *)

LEMMA LatestBounds ==
    ASSUME NEW n \in Nat, NEW S \in SUBSET (1 .. n)
    PROVE  /\ Latest(S) \in 0 .. n /\ (S # {} => Latest(S) \in S)
           /\ (Latest(S) # 0 => Latest(S) \in S) /\ \A x \in S : x <= Latest(S)
<1>1. CASE S = {}
  <2>1. Latest(S) = 0 BY <1>1 DEF Latest
  <2> QED BY <1>1, <2>1
<1>2. CASE S # {}
  <2>1. S \in SUBSET (0 .. n) OBVIOUS
  <2>2. Max(S) \in S /\ \A x \in S : x <= Max(S) BY <1>2, <2>1, MaxOf
  <2>3. Latest(S) = Max(S) BY <1>2 DEF Latest
  <2>4. \A x \in S : x \in 0 .. n BY <2>1
  <2> QED BY <1>2, <2>2, <2>3, <2>4
<1> QED BY <1>1, <1>2

LEMMA LatestIs ==
    ASSUME NEW n \in Nat, NEW S \in SUBSET (1 .. n), NEW x \in S, \A y \in S : y <= x
    PROVE  Latest(S) = x
<1>1. Latest(S) \in S /\ x <= Latest(S) BY LatestBounds
<1>2. Latest(S) <= x BY <1>1
<1>3. Latest(S) \in 0 .. n /\ x \in 1 .. n BY LatestBounds
<1> QED BY <1>1, <1>2, <1>3

\* The messages ms are those of pre and the news.
Parted(ms, n, m, pre, news) ==
    /\ m \in Nat /\ n \in 0 .. m
    /\ ms \in Seq(Messages) /\ Len(ms) = m
    /\ pre \in Seq(Messages) /\ Len(pre) = n
    /\ news \in Seq(Messages) /\ Len(news) = m - n
    /\ \A i \in 1 .. n : pre[i] = ms[i]
    /\ \A i \in 1 .. m - n : news[i] = ms[n + i]

Tagged(ms, X) == {i \in DOMAIN ms : ms[i].tag \in X}

LEMMA EditsTagged ==
    ASSUME NEW ms
    PROVE  Edits(ms) = Tagged(ms, {"edit", "notice"})
BY DEF Edits, Where, Tagged

LEMMA TaggedParts ==
    ASSUME NEW ms, NEW n, NEW m, NEW pre, NEW news, Parted(ms, n, m, pre, news), NEW X
    PROVE  /\ Tagged(ms, X) \in SUBSET (1 .. m) /\ Tagged(pre, X) \in SUBSET (1 .. n)
           /\ Tagged(news, X) \in SUBSET (1 .. m - n)
           /\ \A i \in 1 .. n : i \in Tagged(pre, X) <=> i \in Tagged(ms, X)
           /\ \A i \in 1 .. m - n : i \in Tagged(news, X) <=> n + i \in Tagged(ms, X)
           /\ \A i \in Tagged(ms, X) : i > n => i - n \in Tagged(news, X)
<1>1. m \in Nat /\ n \in Nat /\ n <= m BY DEF Parted
<1>2. DOMAIN ms = 1 .. m /\ DOMAIN pre = 1 .. n /\ DOMAIN news = 1 .. m - n BY <1>1 DEF Parted
<1>3. \A i \in 1 .. n : i \in 1 .. m BY <1>1
<1>4. \A i \in 1 .. m - n : n + i \in 1 .. m BY <1>1
<1>5. \A i \in 1 .. n : i \in Tagged(pre, X) <=> i \in Tagged(ms, X)
  <2>1. \A i \in 1 .. n : pre[i] = ms[i] BY DEF Parted
  <2> QED BY <1>2, <1>3, <2>1 DEF Tagged
<1>6. \A i \in 1 .. m - n : i \in Tagged(news, X) <=> n + i \in Tagged(ms, X)
  <2>1. \A i \in 1 .. m - n : news[i] = ms[n + i] BY DEF Parted
  <2> QED BY <1>2, <1>4, <2>1 DEF Tagged
<1>7. /\ Tagged(ms, X) \in SUBSET (1 .. m) /\ Tagged(pre, X) \in SUBSET (1 .. n)
      /\ Tagged(news, X) \in SUBSET (1 .. m - n)
  BY <1>2 DEF Tagged
<1>8. ASSUME NEW i \in Tagged(ms, X), i > n PROVE i - n \in Tagged(news, X)
  <2>1. i \in 1 .. m BY <1>7
  <2>2. PICK j \in 1 .. m - n : i = n + j
    <3>1. i - n \in 1 .. m - n /\ i = n + (i - n) BY <1>1, <1>8, <2>1
    <3> QED BY <3>1
  <2>3. j \in Tagged(news, X) BY <1>6, <2>2
  <2>4. i - n = j BY <1>1, <2>2
  <2> QED BY <2>3, <2>4
<1> QED BY <1>5, <1>6, <1>7, <1>8

\* The latest message with one of the tags is the latest of the news, if any.
LEMMA LatestParts ==
    ASSUME NEW ms, NEW n, NEW m, NEW pre, NEW news, Parted(ms, n, m, pre, news), NEW X,
           NEW l, l = Latest(Tagged(ms, X)), NEW a, a = Latest(Tagged(pre, X)),
           NEW b, b = Latest(Tagged(news, X))
    PROVE  /\ a \in 0 .. n /\ b \in 0 .. m - n /\ l \in 0 .. m
           /\ b # 0 => l = n + b /\ ms[l] = news[b] /\ b \in Tagged(news, X)
           /\ b = 0 => l = a /\ Tagged(news, X) = {}
           /\ b = 0 /\ a # 0 => ms[l] = pre[a]
<1>1. m \in Nat /\ n \in Nat /\ n <= m /\ m - n \in Nat BY DEF Parted
<1>2. PICK S : S = Tagged(ms, X) OBVIOUS
<1>3. PICK A : A = Tagged(pre, X) OBVIOUS
<1>4. PICK B : B = Tagged(news, X) OBVIOUS
<1>5. S \in SUBSET (1 .. m) /\ A \in SUBSET (1 .. n) /\ B \in SUBSET (1 .. m - n)
  BY <1>2, <1>3, <1>4, TaggedParts
<1>6. /\ \A i \in 1 .. n : i \in A <=> i \in S
      /\ \A i \in 1 .. m - n : i \in B <=> n + i \in S
      /\ \A i \in S : i > n => i - n \in B
  BY <1>2, <1>3, <1>4, TaggedParts
<1>7. /\ b \in 0 .. m - n /\ (B # {} => b \in B) /\ (b # 0 => b \in B) /\ \A x \in B : x <= b
  BY <1>1, <1>4, <1>5, LatestBounds
<1>8. /\ a \in 0 .. n /\ (a # 0 => a \in A) /\ \A x \in A : x <= a
  BY <1>1, <1>3, <1>5, LatestBounds
<1>9. l \in 0 .. m /\ (l # 0 => l \in S) BY <1>1, <1>2, <1>5, LatestBounds
<1>10. ASSUME b # 0 PROVE l = n + b /\ ms[l] = news[b] /\ b \in B
  <2>1. b \in B /\ b \in 1 .. m - n BY <1>5, <1>7, <1>10
  <2>2. n + b \in S BY <1>6, <2>1
  <2>3. ASSUME NEW y \in S PROVE y <= n + b
    <3>1. y \in 1 .. m /\ b \in Nat BY <1>1, <1>5, <2>1
    <3>2. CASE y <= n BY <1>1, <3>1, <3>2
    <3>3. CASE y > n
      <4>1. y - n \in B BY <1>6, <3>3
      <4>2. y - n <= b BY <1>7, <4>1
      <4> QED BY <1>1, <3>1, <4>2
    <3> QED BY <1>1, <3>1, <3>2, <3>3
  <2>4. Latest(S) = n + b BY <1>1, <1>5, <2>2, <2>3, LatestIs
  <2>5. news[b] = ms[n + b] BY <2>1 DEF Parted
  <2> QED BY <1>2, <2>1, <2>4, <2>5
<1>11. ASSUME b = 0 PROVE l = a /\ B = {}
  <2>1. B = {} BY <1>5, <1>7, <1>11
  <2>2. \A i \in S : i <= n BY <1>1, <1>5, <1>6, <2>1
  <2>3. S = A
    <3>1. \A i \in S : i \in 1 .. n BY <1>1, <1>5, <2>2
    <3> QED BY <1>5, <1>6, <3>1
  <2> QED BY <1>2, <1>3, <2>1, <2>3
<1>12. ASSUME b = 0, a # 0 PROVE ms[l] = pre[a]
  <2>1. l = a /\ a \in 1 .. n BY <1>5, <1>8, <1>11, <1>12
  <2> QED BY <2>1 DEF Parted
<1> QED BY <1>4, <1>7, <1>8, <1>9, <1>10, <1>11, <1>12

Evident(e) ==
    e = [objective |-> e.objective, constraints |-> e.constraints, work |-> e.work,
         files |-> e.files, findings |-> e.findings, claims |-> e.claims,
         failures |-> e.failures, pending |-> e.pending, excerpts |-> e.excerpts]
Found(f) == f = [id |-> f.id, path |-> f.path, stale |-> f.stale]

Changed(ms) == {ms[i].path : i \in Edits(ms)}

\* The evidence e is of the messages ms.
Sound(e, ms) ==
    /\ Evident(e)
    /\ e.objective \in Ids(ms) \/ (ms = <<>> /\ e.objective = 0)
    /\ e.constraints \subseteq Ids(ms)
    /\ e.files = Changed(ms) /\ e.work = Work(ms, NoEvidence)
    /\ e.failures = Failures(ms, NoEvidence) /\ e.pending = Pending(ms, NoEvidence)
    /\ \A f \in e.findings :
        Found(f) /\ f.id \in 1 .. Len(ms) /\ (f.stale <=> EditedLater(ms, f.id, f.path))
    /\ \A c \in e.claims : c[1] \in {"verified", "git"} => \A k \in Edits(ms) : k < c[2]

LEMMA NothingSound == Sound(NoEvidence, <<>>)
<1>1. DOMAIN <<>> = {} OBVIOUS
<1>2. \A X : Tagged(<<>>, X) = {} BY <1>1 DEF Tagged
<1>3. Edits(<<>>) = {} BY <1>2, EditsTagged
<1>4. Latest({}) = 0 BY DEF Latest
<1>5. PICK e : e = NoEvidence OBVIOUS
<1>6. /\ Evident(e) /\ e.objective = 0 /\ e.constraints = {} /\ e.files = {} /\ e.work = {}
      /\ e.failures = {} /\ e.pending = {} /\ e.findings = {} /\ e.claims = {}
  BY <1>5 DEF NoEvidence, Evident
<1>7. Work(<<>>, e) = {}
  <2>1. Latest(Tagged(<<>>, {"plan", "done"})) = 0 BY <1>2, <1>4
  <2>2. Where(<<>>, LAMBDA m : m.tag \in {"plan", "done"}) = Tagged(<<>>, {"plan", "done"})
    BY DEF Where, Tagged
  <2> QED BY <1>3, <1>6, <2>1, <2>2 DEF Work
<1>8. Failures(<<>>, e) = {}
  <2>1. Latest(Tagged(<<>>, {"fail", "pass"})) = 0 BY <1>2, <1>4
  <2>2. Where(<<>>, LAMBDA m : m.tag \in {"fail", "pass"}) = Tagged(<<>>, {"fail", "pass"})
    BY DEF Where, Tagged
  <2> QED BY <1>6, <2>1, <2>2 DEF Failures
<1>9. Pending(<<>>, e) = {}
  <2>1. Latest(Tagged(<<>>, {"plan", "done"})) = 0 BY <1>2, <1>4
  <2>2. Where(<<>>, LAMBDA m : m.tag \in {"plan", "done"}) = Tagged(<<>>, {"plan", "done"})
    BY DEF Where, Tagged
  <2> QED BY <1>6, <2>1, <2>2 DEF Pending
<1>10. Changed(<<>>) = {} BY <1>3 DEF Changed
<1> QED BY <1>3, <1>5, <1>6, <1>7, <1>8, <1>9, <1>10 DEF Sound

LEMMA LatestOfTags ==
    ASSUME NEW ms
    PROVE  /\ Where(ms, LAMBDA m : m.tag \in {"plan", "done"}) = Tagged(ms, {"plan", "done"})
           /\ Where(ms, LAMBDA m : m.tag \in {"fail", "pass"}) = Tagged(ms, {"fail", "pass"})
           /\ Where(ms, LAMBDA m : m.tag = "verified") = Tagged(ms, {"verified"})
           /\ Where(ms, LAMBDA m : m.tag = "git") = Tagged(ms, {"git"})
           /\ Where(ms, LAMBDA m : m.tag = "finding") = Tagged(ms, {"finding"})
BY DEF Where, Tagged

LEMMA FilesParts ==
    ASSUME NEW ms, NEW n, NEW m, NEW pre, NEW news, Parted(ms, n, m, pre, news)
    PROVE  /\ Changed(ms) = Changed(pre) \cup Changed(news)
           /\ \A i \in Edits(ms) : ms[i].path \in Paths \cup {NoPath}
<1> DEFINE X == {"edit", "notice"}
<1>1. /\ Tagged(ms, X) \in SUBSET (1 .. m) /\ Tagged(pre, X) \in SUBSET (1 .. n)
      /\ Tagged(news, X) \in SUBSET (1 .. m - n)
      /\ \A i \in 1 .. n : i \in Tagged(pre, X) <=> i \in Tagged(ms, X)
      /\ \A i \in 1 .. m - n : i \in Tagged(news, X) <=> n + i \in Tagged(ms, X)
      /\ \A i \in Tagged(ms, X) : i > n => i - n \in Tagged(news, X)
  BY TaggedParts
<1>2. PICK S : S = Tagged(ms, X) OBVIOUS
<1>3. PICK A : A = Tagged(pre, X) OBVIOUS
<1>4. PICK B : B = Tagged(news, X) OBVIOUS
<1>5. Edits(ms) = S /\ Edits(pre) = A /\ Edits(news) = B BY <1>2, <1>3, <1>4, EditsTagged
<1>6. m \in Nat /\ n \in Nat /\ n <= m BY DEF Parted
<1>7. ASSUME NEW i \in S
      PROVE  (\E j \in A : pre[j].path = ms[i].path) \/ (\E j \in B : news[j].path = ms[i].path)
  <2>0. i \in 1 .. m BY <1>1, <1>2
  <2>1. CASE i <= n
    <3>1. i \in 1 .. n BY <1>6, <2>0, <2>1
    <3>2. i \in A BY <1>1, <1>2, <1>3, <3>1
    <3>3. pre[i] = ms[i] BY <3>1 DEF Parted
    <3> QED BY <3>2, <3>3
  <2>2. CASE i > n
    <3>1. i - n \in B BY <1>1, <1>2, <1>4, <2>2
    <3>2. PICK j \in B : j = i - n BY <3>1
    <3>3. j \in 1 .. m - n /\ n + j = i BY <1>1, <1>4, <1>6, <2>0, <3>2
    <3>4. news[j] = ms[i] BY <3>3 DEF Parted
    <3> QED BY <3>4
  <2> QED BY <1>6, <2>0, <2>1, <2>2
<1>8. ASSUME NEW i \in A PROVE i \in S /\ pre[i] = ms[i]
  <2>1. i \in 1 .. n BY <1>1, <1>3
  <2>2. i \in S BY <1>1, <1>2, <1>3, <2>1
  <2> QED BY <2>1, <2>2 DEF Parted
<1>9. ASSUME NEW i \in B PROVE \E j \in S : news[i] = ms[j]
  <2>1. i \in 1 .. m - n BY <1>1, <1>4
  <2>2. n + i \in S BY <1>1, <1>2, <1>4, <2>1
  <2>3. news[i] = ms[n + i] BY <2>1 DEF Parted
  <2> QED BY <2>2, <2>3
<1>10. ASSUME NEW i \in S PROVE ms[i].path \in Paths \cup {NoPath}
  <2>1. ms[i] \in Messages
    <3>1. i \in 1 .. m BY <1>1, <1>2
    <3> QED BY <3>1 DEF Parted
  <2> QED BY <2>1 DEF Messages
<1> HIDE DEF X
<1>11. {ms[i].path : i \in S} = {pre[i].path : i \in A} \cup {news[i].path : i \in B}
  <2>1. ASSUME NEW x \in {ms[i].path : i \in S}
        PROVE  x \in {pre[i].path : i \in A} \cup {news[i].path : i \in B}
    BY <1>7
  <2>2. ASSUME NEW x \in {pre[i].path : i \in A} PROVE x \in {ms[i].path : i \in S}
    BY <1>8
  <2>3. ASSUME NEW x \in {news[i].path : i \in B} PROVE x \in {ms[i].path : i \in S}
    BY <1>9
  <2> QED BY <2>1, <2>2, <2>3
<1> QED BY <1>5, <1>10, <1>11 DEF Changed

LEMMA EditedParts ==
    ASSUME NEW ms, NEW n, NEW m, NEW pre, NEW news, Parted(ms, n, m, pre, news), NEW p
    PROVE  /\ \A i \in 1 .. n :
                 EditedLater(ms, i, p) <=> EditedLater(pre, i, p) \/ EditedLater(news, 0, p)
           /\ \A i \in 1 .. m - n : EditedLater(ms, n + i, p) <=> EditedLater(news, i, p)
<1> DEFINE X == {"edit", "notice"}
<1>1. /\ Tagged(ms, X) \in SUBSET (1 .. m) /\ Tagged(pre, X) \in SUBSET (1 .. n)
      /\ Tagged(news, X) \in SUBSET (1 .. m - n)
      /\ \A i \in 1 .. n : i \in Tagged(pre, X) <=> i \in Tagged(ms, X)
      /\ \A i \in 1 .. m - n : i \in Tagged(news, X) <=> n + i \in Tagged(ms, X)
      /\ \A i \in Tagged(ms, X) : i > n => i - n \in Tagged(news, X)
  BY TaggedParts
<1>2. PICK S : S = Tagged(ms, X) OBVIOUS
<1>3. PICK A : A = Tagged(pre, X) OBVIOUS
<1>4. PICK B : B = Tagged(news, X) OBVIOUS
<1>5. Edits(ms) = S /\ Edits(pre) = A /\ Edits(news) = B BY <1>2, <1>3, <1>4, EditsTagged
<1>6. m \in Nat /\ n \in Nat /\ n <= m BY DEF Parted
<1> DEFINE Hit(q) == p = NoPath \/ q.path = p
<1>7. /\ \A i : EditedLater(ms, i, p) <=> \E k \in S : k > i /\ Hit(ms[k])
      /\ \A i : EditedLater(pre, i, p) <=> \E k \in A : k > i /\ Hit(pre[k])
      /\ \A i : EditedLater(news, i, p) <=> \E k \in B : k > i /\ Hit(news[k])
  BY <1>5 DEF EditedLater
<1> HIDE DEF X, Hit
<1>8. ASSUME NEW k \in A PROVE k \in S /\ pre[k] = ms[k]
  <2>1. k \in 1 .. n BY <1>1, <1>3
  <2>2. k \in S BY <1>1, <1>2, <1>3, <2>1
  <2> QED BY <2>1, <2>2 DEF Parted
<1>9. ASSUME NEW k \in B PROVE k \in 1 .. m - n /\ n + k \in S /\ news[k] = ms[n + k]
  <2>1. k \in 1 .. m - n BY <1>1, <1>4
  <2>2. n + k \in S BY <1>1, <1>2, <1>4, <2>1
  <2> QED BY <2>1, <2>2 DEF Parted
<1>10. ASSUME NEW k \in S, k <= n PROVE k \in A /\ pre[k] = ms[k]
  <2>1. k \in 1 .. n BY <1>1, <1>2, <1>6, <1>10
  <2>2. k \in A BY <1>1, <1>2, <1>3, <2>1
  <2> QED BY <2>1, <2>2 DEF Parted
<1>11. ASSUME NEW k \in S, k > n PROVE \E j \in B : k = n + j /\ news[j] = ms[k] /\ j > 0
  <2>1. k - n \in B BY <1>1, <1>2, <1>4, <1>11
  <2>2. k \in 1 .. m BY <1>1, <1>2
  <2>3. PICK j \in B : j = k - n BY <2>1
  <2>4. k = n + j /\ j > 0 BY <1>6, <1>11, <2>2, <2>3
  <2> QED BY <1>9, <2>4
<1>12. \A k \in S : k \in 1 .. m BY <1>1, <1>2
<1>13. \A k \in A : k \in 1 .. n BY <1>1, <1>3
<1>14. ASSUME NEW i \in 1 .. n
       PROVE  EditedLater(ms, i, p) <=> EditedLater(pre, i, p) \/ EditedLater(news, 0, p)
  <2>1. ASSUME NEW k \in S, k > i, Hit(ms[k])
        PROVE  (\E j \in A : j > i /\ Hit(pre[j])) \/ (\E j \in B : j > 0 /\ Hit(news[j]))
    <3>1. CASE k <= n BY <1>10, <2>1, <3>1
    <3>2. CASE k > n BY <1>11, <2>1, <3>2
    <3> QED BY <1>6, <1>12, <3>1, <3>2
  <2>2. ASSUME NEW k \in A, k > i, Hit(pre[k]) PROVE \E j \in S : j > i /\ Hit(ms[j])
    BY <1>8, <2>2
  <2>3. ASSUME NEW k \in B, k > 0, Hit(news[k]) PROVE \E j \in S : j > i /\ Hit(ms[j])
    <3>1. n + k \in S /\ news[k] = ms[n + k] /\ k \in 1 .. m - n BY <1>9
    <3>2. n + k > i BY <1>6, <3>1
    <3> QED BY <2>3, <3>1, <3>2
  <2> QED BY <1>7, <2>1, <2>2, <2>3
<1>15. ASSUME NEW i \in 1 .. m - n PROVE EditedLater(ms, n + i, p) <=> EditedLater(news, i, p)
  <2>1. ASSUME NEW k \in S, k > n + i, Hit(ms[k]) PROVE \E j \in B : j > i /\ Hit(news[j])
    <3>1. k > n BY <1>6, <1>12, <2>1
    <3>2. PICK j \in B : k = n + j /\ news[j] = ms[k] BY <1>11, <3>1
    <3>3. j \in 1 .. m - n BY <1>9
    <3>4. j > i BY <1>6, <2>1, <3>2, <3>3
    <3> QED BY <2>1, <3>2, <3>4
  <2>2. ASSUME NEW k \in B, k > i, Hit(news[k]) PROVE \E j \in S : j > n + i /\ Hit(ms[j])
    <3>1. n + k \in S /\ news[k] = ms[n + k] /\ k \in 1 .. m - n BY <1>9
    <3>2. n + k > n + i BY <1>6, <2>2, <3>1
    <3> QED BY <2>2, <3>1, <3>2
  <2> QED BY <1>7, <2>1, <2>2
<1> QED BY <1>14, <1>15

LEMMA IdsParts ==
    ASSUME NEW ms, NEW n, NEW m, NEW pre, NEW news, Parted(ms, n, m, pre, news)
    PROVE  Ids(pre) \subseteq Ids(ms) /\ Ids(news) \subseteq Ids(ms)
<1>1. m \in Nat /\ n \in Nat /\ n <= m BY DEF Parted
<1>2. DOMAIN ms = 1 .. m /\ DOMAIN pre = 1 .. n /\ DOMAIN news = 1 .. m - n BY <1>1 DEF Parted
<1>3. ASSUME NEW i \in 1 .. n PROVE i \in 1 .. m /\ pre[i] = ms[i] BY <1>1 DEF Parted
<1>4. ASSUME NEW i \in 1 .. m - n PROVE n + i \in 1 .. m /\ news[i] = ms[n + i]
  <2>1. n + i \in 1 .. m BY <1>1
  <2> QED BY <2>1 DEF Parted
<1>5. ASSUME NEW x \in Ids(pre) PROVE x \in Ids(ms) BY <1>2, <1>3 DEF Ids
<1>6. ASSUME NEW x \in Ids(news) PROVE x \in Ids(ms) BY <1>2, <1>4 DEF Ids
<1> QED BY <1>5, <1>6

LEMMA FailuresParts ==
    ASSUME NEW ms, NEW n, NEW m, NEW pre, NEW news, Parted(ms, n, m, pre, news),
           NEW base, base.failures = Failures(pre, NoEvidence), base.pending = Pending(pre, NoEvidence)
    PROVE  /\ Failures(news, base) = Failures(ms, NoEvidence)
           /\ Pending(news, base) = Pending(ms, NoEvidence)
<1>1. NoEvidence.failures = {} /\ NoEvidence.pending = {} BY DEF NoEvidence
<1>2. Failures(news, base) = Failures(ms, NoEvidence)
  <2> DEFINE X == {"fail", "pass"}
  <2>1. PICK l : l = Latest(Tagged(ms, X)) OBVIOUS
  <2>2. PICK a : a = Latest(Tagged(pre, X)) OBVIOUS
  <2>3. PICK b : b = Latest(Tagged(news, X)) OBVIOUS
  <2>4. /\ a \in 0 .. n /\ b \in 0 .. m - n /\ l \in 0 .. m
        /\ b # 0 => l = n + b /\ ms[l] = news[b]
        /\ b = 0 => l = a
        /\ b = 0 /\ a # 0 => ms[l] = pre[a]
    BY <2>1, <2>2, <2>3, LatestParts
  <2>5. n \in Nat BY DEF Parted
  <2>6. b # 0 => l # 0 BY <2>4, <2>5
  <2>7. Failures(ms, NoEvidence) = IF l = 0 THEN {} ELSE IF ms[l].tag = "fail" THEN {"shell"} ELSE {}
    BY <1>1, <2>1, LatestOfTags DEF Failures
  <2>8. Failures(pre, NoEvidence) = IF a = 0 THEN {} ELSE IF pre[a].tag = "fail" THEN {"shell"} ELSE {}
    BY <1>1, <2>2, LatestOfTags DEF Failures
  <2>9. Failures(news, base) =
           IF b = 0 THEN base.failures ELSE IF news[b].tag = "fail" THEN {"shell"} ELSE {}
    BY <2>3, LatestOfTags DEF Failures
  <2>10. CASE b # 0 BY <2>4, <2>6, <2>7, <2>9, <2>10
  <2>11. CASE b = 0 BY <2>4, <2>7, <2>8, <2>9, <2>11
  <2> QED BY <2>10, <2>11
<1>3. Pending(news, base) = Pending(ms, NoEvidence)
  <2> DEFINE X == {"plan", "done"}
  <2>1. PICK l : l = Latest(Tagged(ms, X)) OBVIOUS
  <2>2. PICK a : a = Latest(Tagged(pre, X)) OBVIOUS
  <2>3. PICK b : b = Latest(Tagged(news, X)) OBVIOUS
  <2>4. /\ a \in 0 .. n /\ b \in 0 .. m - n /\ l \in 0 .. m
        /\ b # 0 => l = n + b /\ ms[l] = news[b]
        /\ b = 0 => l = a
        /\ b = 0 /\ a # 0 => ms[l] = pre[a]
    BY <2>1, <2>2, <2>3, LatestParts
  <2>5. n \in Nat BY DEF Parted
  <2>6. b # 0 => l # 0 BY <2>4, <2>5
  <2>7. Pending(ms, NoEvidence) = IF l = 0 THEN {} ELSE IF ms[l].tag = "plan" THEN {"step"} ELSE {}
    BY <1>1, <2>1, LatestOfTags DEF Pending
  <2>8. Pending(pre, NoEvidence) = IF a = 0 THEN {} ELSE IF pre[a].tag = "plan" THEN {"step"} ELSE {}
    BY <1>1, <2>2, LatestOfTags DEF Pending
  <2>9. Pending(news, base) =
           IF b = 0 THEN base.pending ELSE IF news[b].tag = "plan" THEN {"step"} ELSE {}
    BY <2>3, LatestOfTags DEF Pending
  <2>10. CASE b # 0 BY <2>4, <2>6, <2>7, <2>9, <2>10
  <2>11. CASE b = 0 BY <2>4, <2>7, <2>8, <2>9, <2>11
  <2> QED BY <2>10, <2>11
<1> QED BY <1>2, <1>3

LEMMA WorkParts ==
    ASSUME NEW ms, NEW n, NEW m, NEW pre, NEW news, Parted(ms, n, m, pre, news),
           NEW base, base.work = Work(pre, NoEvidence)
    PROVE  Work(news, base) = Work(ms, NoEvidence)
<1> DEFINE X == {"plan", "done"}
           Done(q) == IF q.tag = "done" THEN {"step"} ELSE {}
<1>1. NoEvidence.work = {} BY DEF NoEvidence
<1>2. PICK l : l = Latest(Tagged(ms, X)) OBVIOUS
<1>3. PICK a : a = Latest(Tagged(pre, X)) OBVIOUS
<1>4. PICK b : b = Latest(Tagged(news, X)) OBVIOUS
<1>5. /\ a \in 0 .. n /\ b \in 0 .. m - n /\ l \in 0 .. m
      /\ b # 0 => l = n + b /\ ms[l] = news[b]
      /\ b = 0 => l = a
      /\ b = 0 /\ a # 0 => ms[l] = pre[a]
  BY <1>2, <1>3, <1>4, LatestParts
<1>6. n \in Nat BY DEF Parted
<1>7. b # 0 => l # 0 BY <1>5, <1>6
<1>8. PICK P : P = Changed(pre) OBVIOUS
<1>9. PICK N : N = Changed(news) OBVIOUS
<1>10. PICK M : M = Changed(ms) OBVIOUS
<1>11. M = P \cup N BY <1>8, <1>9, <1>10, FilesParts
<1>12. "step" \notin M
  <2>1. \A i \in Edits(ms) : ms[i].path # "step" BY FilesParts, PathsAssumption
  <2> QED BY <1>10, <2>1 DEF Changed
<1>13. Work(ms, NoEvidence) = IF l = 0 THEN M ELSE (M \ {"step"}) \cup Done(ms[l])
  BY <1>1, <1>2, <1>10, LatestOfTags DEF Work, Changed
<1>14. Work(pre, NoEvidence) = IF a = 0 THEN P ELSE (P \ {"step"}) \cup Done(pre[a])
  BY <1>1, <1>3, <1>8, LatestOfTags DEF Work, Changed
<1>15. Work(news, base) =
          IF b = 0 THEN base.work \cup N ELSE ((base.work \cup N) \ {"step"}) \cup Done(news[b])
  BY <1>4, <1>9, LatestOfTags DEF Work, Changed
<1>16. \A q : Done(q) \subseteq {"step"} OBVIOUS
<1> HIDE DEF Done, X
<1>17. base.work \ {"step"} = P
  <2>1. P \ {"step"} = P BY <1>11, <1>12
  <2> QED BY <1>14, <1>16, <2>1
<1>18. N \ {"step"} = N /\ P \ {"step"} = P /\ M \ {"step"} = M BY <1>11, <1>12
<1>19. CASE b # 0
  <2>1. (base.work \cup N) \ {"step"} = M BY <1>11, <1>17, <1>18
  <2> QED BY <1>5, <1>7, <1>13, <1>15, <1>18, <1>19, <2>1
<1>20. CASE b = 0 /\ a = 0 BY <1>5, <1>11, <1>13, <1>14, <1>15, <1>20
<1>21. CASE b = 0 /\ a # 0
  <2>1. Work(ms, NoEvidence) = M \cup Done(pre[a]) BY <1>5, <1>13, <1>18, <1>21
  <2>2. base.work = P \cup Done(pre[a]) BY <1>14, <1>18, <1>21
  <2> QED BY <1>11, <1>15, <1>21, <2>1, <2>2
<1> QED BY <1>19, <1>20, <1>21

LEMMA FindingsParts ==
    ASSUME NEW ms, NEW n, NEW m, NEW pre, NEW news, Parted(ms, n, m, pre, news), From(ms, 0),
           NEW base,
           \A f \in base.findings :
              Found(f) /\ f.id \in 1 .. n /\ (f.stale <=> EditedLater(pre, f.id, f.path)),
           NEW f \in Findings(news, base)
    PROVE  Found(f) /\ f.id \in 1 .. m /\ (f.stale <=> EditedLater(ms, f.id, f.path))
<1>1. m \in Nat /\ n \in Nat /\ n <= m BY DEF Parted
<1>2. \/ \E g \in base.findings : f = [g EXCEPT !.stale = @ \/ EditedLater(news, 0, g.path)]
      \/ \E i \in Tagged(news, {"finding"}) :
            f = [id |-> news[i].id, path |-> news[i].path, stale |-> EditedLater(news, i, news[i].path)]
  <2>1. PICK all :
          all = {[g EXCEPT !.stale = @ \/ EditedLater(news, 0, g.path)] : g \in base.findings}
                   \cup {[id |-> news[i].id, path |-> news[i].path, stale |-> EditedLater(news, i, news[i].path)] :
                            i \in Where(news, LAMBDA q : q.tag = "finding")}
    OBVIOUS
  <2>2. Findings(news, base) \subseteq all BY <2>1 DEF Findings
  <2>3. f \in all BY <2>2
  <2> QED BY <2>1, <2>3, LatestOfTags
<1>3. ASSUME NEW g \in base.findings, f = [g EXCEPT !.stale = @ \/ EditedLater(news, 0, g.path)]
      PROVE  Found(f) /\ f.id \in 1 .. m /\ (f.stale <=> EditedLater(ms, f.id, f.path))
  <2>1. Found(g) /\ g.id \in 1 .. n /\ (g.stale <=> EditedLater(pre, g.id, g.path)) OBVIOUS
  <2>2. Found(f) /\ f.id = g.id /\ f.path = g.path /\ f.stale = (g.stale \/ EditedLater(news, 0, g.path))
    BY <1>3, <2>1 DEF Found
  <2>3. EditedLater(ms, g.id, g.path) <=> EditedLater(pre, g.id, g.path) \/ EditedLater(news, 0, g.path)
    <3>1. \A p : \A i \in 1 .. n :
             EditedLater(ms, i, p) <=> EditedLater(pre, i, p) \/ EditedLater(news, 0, p)
      BY EditedParts
    <3> QED BY <2>1, <3>1
  <2>4. f.id \in 1 .. m BY <1>1, <2>1, <2>2
  <2> QED BY <2>1, <2>2, <2>3, <2>4
<1>4. ASSUME NEW i \in Tagged(news, {"finding"}),
             f = [id |-> news[i].id, path |-> news[i].path, stale |-> EditedLater(news, i, news[i].path)]
      PROVE  Found(f) /\ f.id \in 1 .. m /\ (f.stale <=> EditedLater(ms, f.id, f.path))
  <2>1. i \in 1 .. m - n BY TaggedParts
  <2>2. news[i].id = n + i /\ n + i \in 1 .. m
    <3>1. n + i \in 1 .. m BY <1>1, <2>1
    <3>2. news[i] = ms[n + i] BY <2>1 DEF Parted
    <3>3. ms[n + i].id = 0 + (n + i) BY <3>1 DEF From, Parted
    <3> QED BY <1>1, <2>1, <3>1, <3>2, <3>3
  <2>3. f.id = n + i /\ f.path = news[i].path /\ (f.stale <=> EditedLater(news, i, news[i].path)) /\ Found(f)
    BY <1>4, <2>2 DEF Found
  <2>4. EditedLater(ms, n + i, news[i].path) <=> EditedLater(news, i, news[i].path)
    <3>1. \A p : \A j \in 1 .. m - n : EditedLater(ms, n + j, p) <=> EditedLater(news, j, p)
      BY EditedParts
    <3> QED BY <2>1, <3>1
  <2> QED BY <2>2, <2>3, <2>4
<1> QED BY <1>2, <1>3, <1>4

LEMMA ClaimsParts ==
    ASSUME NEW ms, NEW n, NEW m, NEW pre, NEW news, Parted(ms, n, m, pre, news), From(ms, 0),
           NEW base,
           \A c \in base.claims : c[1] \in {"verified", "git"} => \A k \in Edits(pre) : k < c[2],
           NEW c \in Claims(news, base), c[1] \in {"verified", "git"}, NEW k \in Edits(ms)
    PROVE  k < c[2]
<1> DEFINE X == {"edit", "notice"}
<1>1. m \in Nat /\ n \in Nat /\ n <= m BY DEF Parted
<1>2. PICK v : v = Latest(Tagged(news, {"verified"})) OBVIOUS
<1>3. PICK g : g = Latest(Tagged(news, {"git"})) OBVIOUS
<1>4. PICK e : e = Latest(Tagged(news, X)) OBVIOUS
<1>5. /\ Tagged(ms, X) \in SUBSET (1 .. m) /\ Tagged(news, X) \in SUBSET (1 .. m - n)
      /\ Tagged(news, {"verified"}) \in SUBSET (1 .. m - n)
      /\ Tagged(news, {"git"}) \in SUBSET (1 .. m - n)
      /\ \A i \in 1 .. n : i \in Tagged(pre, X) <=> i \in Tagged(ms, X)
      /\ \A i \in Tagged(ms, X) : i > n => i - n \in Tagged(news, X)
  BY TaggedParts
<1>6. m - n \in Nat BY <1>1
<1>7. /\ e \in 0 .. m - n /\ (e # 0 => e \in Tagged(news, X)) /\ \A x \in Tagged(news, X) : x <= e
  BY <1>4, <1>5, <1>6, LatestBounds
<1>8. v \in 0 .. m - n /\ (v # 0 => v \in Tagged(news, {"verified"})) BY <1>2, <1>5, <1>6, LatestBounds
<1>9. g \in 0 .. m - n /\ (g # 0 => g \in Tagged(news, {"git"})) BY <1>3, <1>5, <1>6, LatestBounds
<1>10. Edits(ms) = Tagged(ms, X) /\ Edits(pre) = Tagged(pre, X) /\ Edits(news) = Tagged(news, X)
  BY EditsTagged
<1>11. k \in 1 .. m /\ k \in Tagged(ms, X) BY <1>5, <1>10
\* An edit is one of the news' or is known to the base.
<1>12. k > n => k - n <= e BY <1>5, <1>7, <1>11
<1>13. k <= n => k \in Edits(pre)
  <2>1. k <= n => k \in 1 .. n BY <1>1, <1>11
  <2> QED BY <1>5, <1>10, <1>11, <2>1
<1>14. \A i \in 1 .. m - n : news[i].id = n + i
  <2> SUFFICES ASSUME NEW i \in 1 .. m - n PROVE news[i].id = n + i OBVIOUS
  <2>1. n + i \in 1 .. m BY <1>1
  <2>2. news[i] = ms[n + i] BY DEF Parted
  <2>3. ms[n + i].id = 0 + (n + i) BY <2>1 DEF From, Parted
  <2> QED BY <1>1, <2>2, <2>3
<1>15. \A i : i \in Tagged(news, X) => i \notin Tagged(news, {"verified"}) /\ i \notin Tagged(news, {"git"})
  BY DEF Tagged
<1> DEFINE recorded == IF v # 0 THEN {<<"verified", news[v].id>>} ELSE base.claims
           fresh == IF e > v /\ recorded # {} THEN {<<"stale verification", 0>>} ELSE recorded
<1>16. Claims(news, base) =
          IF g = 0 THEN fresh
          ELSE {d \in fresh : d[1] \notin {"git", "stale git"}}
                  \cup {IF g < e THEN <<"stale git", 0>> ELSE <<"git", news[g].id>>}
  BY <1>2, <1>3, <1>4, <1>10, LatestOfTags DEF Claims
<1>17. ASSUME c \in fresh PROVE k < c[2]
  <2>1. c # <<"stale verification", 0>>
    <3>1. <<"stale verification", 0>>[1] = "stale verification" OBVIOUS
    <3>2. "stale verification" \notin {"verified", "git"} OBVIOUS
    <3> QED BY <3>1, <3>2
  <2>2. c \in recorded /\ ~(e > v) BY <1>17, <2>1
  <2>3. CASE v # 0
    <3>1. c[2] = n + v
      <4>1. c = <<"verified", news[v].id>> BY <2>2, <2>3
      <4>2. v \in 1 .. m - n BY <1>5, <1>8, <2>3
      <4> QED BY <1>14, <4>1, <4>2
    <3>2. e # v BY <1>7, <1>8, <1>15, <2>3
    <3>3. e < v BY <1>7, <1>8, <2>2, <3>2
    <3>4. CASE k > n BY <1>1, <1>7, <1>8, <1>11, <1>12, <3>1, <3>3, <3>4
    <3>5. CASE k <= n BY <1>1, <1>7, <1>8, <1>11, <3>1, <3>3, <3>5
    <3> QED BY <1>1, <1>11, <3>4, <3>5
  <2>4. CASE v = 0
    <3>1. c \in base.claims /\ e = 0 BY <1>7, <2>2, <2>4
    <3>2. k <= n BY <1>1, <1>11, <1>12, <3>1
    <3> QED BY <1>13, <3>1, <3>2
  <2> QED BY <2>3, <2>4
<1>18. ASSUME c \notin fresh PROVE k < c[2]
  <2>1. g # 0 /\ c = IF g < e THEN <<"stale git", 0>> ELSE <<"git", news[g].id>>
    <3> HIDE DEF fresh
    <3> QED BY <1>16, <1>18
  <2>2. ~(g < e)
    <3>1. <<"stale git", 0>>[1] = "stale git" OBVIOUS
    <3>2. "stale git" \notin {"verified", "git"} OBVIOUS
    <3> QED BY <2>1, <3>1, <3>2
  <2>3. c = <<"git", news[g].id>> BY <2>1, <2>2
  <2>4. g \in 1 .. m - n BY <1>5, <1>9, <2>1
  <2>5. c[2] = n + g BY <1>14, <2>3, <2>4
  <2>6. e # g BY <1>7, <1>9, <1>15, <2>1
  <2>7. e < g BY <1>7, <1>9, <2>2, <2>6
  <2>8. CASE k > n BY <1>1, <1>7, <1>9, <1>11, <1>12, <2>5, <2>7, <2>8
  <2>9. CASE k <= n BY <1>1, <1>7, <1>9, <1>11, <2>5, <2>7, <2>9
  <2> QED BY <1>1, <1>11, <2>8, <2>9
<1> QED BY <1>17, <1>18

LEMMA NewestWithin ==
    ASSUME NEW n, NEW S
    PROVE  Newest(n, S) \subseteq S
BY DEF Newest

\* A run of the program begins with what the user asks.
LEMMA ObjectiveParts ==
    ASSUME NEW ms, NEW n, NEW m, NEW pre, NEW news, Parted(ms, n, m, pre, news), From(ms, 0),
           Instruction(ms[1]), NEW base,
           base.objective \in Ids(pre) \/ (pre = <<>> /\ base.objective = 0)
    PROVE  Objective(news, base) \in Ids(ms)
<1> DEFINE users == {i \in DOMAIN news : Instruction(news[i])}
           content == {i \in users : news[i].tag # "continue"}
           said == Substantive(news, base)
           asked == {i \in said : news[i].tag # "steering"}
<1>1. m \in Nat /\ n \in Nat /\ n <= m /\ m - n \in Nat /\ m > 0 BY DEF Parted, From
<1>2. DOMAIN news = 1 .. m - n BY <1>1 DEF Parted
<1>3. said = IF content # {} THEN content ELSE IF base.objective # 0 THEN {} ELSE users
  BY DEF Substantive, Where
<1>4. said \in SUBSET (1 .. m - n)
  <2>1. users \subseteq 1 .. m - n /\ content \subseteq users BY <1>2
  <2> HIDE DEF users, content, said
  <2> QED BY <1>3, <2>1
<1>5. Objective(news, base) =
         IF asked # {} THEN news[Max(asked)].id
         ELSE IF said # {} /\ base.objective = 0 THEN news[Max(said)].id ELSE base.objective
  BY DEF Objective
<1>6. \A S \in SUBSET (1 .. m - n) : S # {} => Max(S) \in 1 .. m - n
  <2> SUFFICES ASSUME NEW S \in SUBSET (1 .. m - n), S # {} PROVE Max(S) \in 1 .. m - n OBVIOUS
  <2>1. S \in SUBSET (0 .. m - n) OBVIOUS
  <2>2. Max(S) \in S BY <1>1, <2>1, MaxOf
  <2> QED BY <2>2
<1>7. \A i \in 1 .. m - n : news[i].id \in Ids(ms)
  <2>1. \A i \in 1 .. m - n : news[i].id \in Ids(news) BY <1>2 DEF Ids
  <2> QED BY <2>1, IdsParts
<1>8. asked \in SUBSET (1 .. m - n) BY <1>4
<1> HIDE DEF said, asked
<1>9. CASE asked # {} BY <1>5, <1>6, <1>7, <1>8, <1>9
<1>10. CASE asked = {} /\ base.objective # 0
  <2>1. base.objective \in Ids(pre) BY <1>10
  <2> QED BY <1>5, <1>10, <2>1, IdsParts
<1>11. CASE asked = {} /\ base.objective = 0
  <2>1. n = 0
    <3>1. 0 \notin Ids(pre)
      <4>1. DOMAIN pre = 1 .. n BY <1>1 DEF Parted
      <4>2. ASSUME NEW i \in 1 .. n PROVE pre[i].id # 0
        <5>1. i \in 1 .. m /\ pre[i] = ms[i] BY <1>1 DEF Parted
        <5>2. ms[i].id = 0 + i BY <5>1 DEF From, Parted
        <5> QED BY <5>1, <5>2
      <4> QED BY <4>1, <4>2 DEF Ids
    <3>2. pre = <<>> BY <1>11, <3>1
    <3>3. Len(pre) = n BY DEF Parted
    <3> QED BY <3>2, <3>3
  <2>2. 1 \in 1 .. m - n /\ news[1] = ms[1]
    <3>1. 1 \in 1 .. m - n /\ n + 1 = 1 BY <1>1, <2>1
    <3>2. news[1] = ms[n + 1] BY <3>1 DEF Parted
    <3> QED BY <3>1, <3>2
  <2>3. 1 \in users BY <1>2, <2>2
  <2>4. said # {} BY <1>3, <1>11, <2>3
  <2> QED BY <1>4, <1>5, <1>6, <1>7, <1>11, <2>4
<1> QED BY <1>9, <1>10, <1>11

LEMMA ConstraintsParts ==
    ASSUME NEW ms, NEW n, NEW m, NEW pre, NEW news, Parted(ms, n, m, pre, news),
           NEW base, base.constraints \subseteq Ids(pre)
    PROVE  Newest(3, base.constraints \cup {news[i].id : i \in Newest(3, Substantive(news, base))})
              \subseteq Ids(ms)
<1>1. Substantive(news, base) \subseteq DOMAIN news BY DEF Substantive, Where
<1>2. Newest(3, Substantive(news, base)) \subseteq DOMAIN news BY <1>1, NewestWithin
<1>3. {news[i].id : i \in Newest(3, Substantive(news, base))} \subseteq Ids(news) BY <1>2 DEF Ids
<1> DEFINE C == base.constraints \cup {news[i].id : i \in Newest(3, Substantive(news, base))}
<1>4. C \subseteq Ids(ms) BY <1>3, IdsParts
<1> HIDE DEF C
<1>5. Newest(3, C) \subseteq C BY NewestWithin
<1>6. Newest(3, C) \subseteq Ids(ms) BY <1>4, <1>5
<1> QED BY <1>6 DEF C

\* The evidence of the news, on top of that of what was before, is that of all.
LEMMA ExtractSound ==
    ASSUME NEW ms, NEW n, NEW m, NEW pre, NEW news, Parted(ms, n, m, pre, news), From(ms, 0),
           Instruction(ms[1]), NEW base, Sound(base, pre),
           NEW e, NEW X, e = [Extract(news, base) EXCEPT !.excerpts = X]
    PROVE  Sound(e, ms)
<1>1. /\ Evident(e) /\ e.objective = Objective(news, base)
      /\ e.constraints = Newest(3, base.constraints \cup {news[i].id : i \in Newest(3, Substantive(news, base))})
      /\ e.work = Work(news, base) /\ e.files = base.files \cup {news[i].path : i \in Edits(news)}
      /\ e.findings = Findings(news, base) /\ e.claims = Claims(news, base)
      /\ e.failures = Failures(news, base) /\ e.pending = Pending(news, base)
  BY DEF Extract, Evident
<1>2. Objective(news, base) \in Ids(ms) BY ObjectiveParts DEF Sound
<1>3. e.constraints \subseteq Ids(ms) BY <1>1, ConstraintsParts DEF Sound
<1>4. e.files = Changed(ms)
  <2>1. e.files = Changed(pre) \cup Changed(news) BY <1>1 DEF Sound, Changed
  <2>2. Changed(ms) = Changed(pre) \cup Changed(news) BY FilesParts
  <2> QED BY <2>1, <2>2
<1>5. e.work = Work(ms, NoEvidence) BY <1>1, WorkParts DEF Sound
<1>6. e.failures = Failures(ms, NoEvidence) /\ e.pending = Pending(ms, NoEvidence)
  BY <1>1, FailuresParts DEF Sound
<1>7. Len(ms) = m /\ Len(pre) = n BY DEF Parted
<1>8. ASSUME NEW f \in e.findings
      PROVE  Found(f) /\ f.id \in 1 .. Len(ms) /\ (f.stale <=> EditedLater(ms, f.id, f.path))
  <2>1. f \in Findings(news, base) BY <1>1
  <2>2. \A g \in base.findings :
           Found(g) /\ g.id \in 1 .. n /\ (g.stale <=> EditedLater(pre, g.id, g.path))
    BY <1>7 DEF Sound
  <2>3. Found(f) /\ f.id \in 1 .. m /\ (f.stale <=> EditedLater(ms, f.id, f.path))
    BY <2>1, <2>2, FindingsParts
  <2> QED BY <1>7, <2>3
<1>9. ASSUME NEW c \in e.claims, c[1] \in {"verified", "git"}, NEW k \in Edits(ms) PROVE k < c[2]
  <2>1. c \in Claims(news, base) BY <1>1
  <2>2. \A d \in base.claims : d[1] \in {"verified", "git"} => \A j \in Edits(pre) : j < d[2]
    BY DEF Sound
  <2> QED BY <1>9, <2>1, <2>2, ClaimsParts
<1>10. e.objective \in Ids(ms) BY <1>1, <1>2
<1> QED BY <1>1, <1>3, <1>4, <1>5, <1>6, <1>8, <1>9, <1>10 DEF Sound

\* Prefixes and rests.
LEMMA PartsOf ==
    ASSUME NEW ms \in Seq(Messages), NEW m, m = Len(ms), NEW n \in 0 .. m,
           NEW pre, pre = SubSeq(ms, 1, n), NEW news, news = SubSeq(ms, n + 1, m)
    PROVE  Parted(ms, n, m, pre, news)
<1>1. m \in Nat /\ n \in Nat /\ n <= m OBVIOUS
<1>2. pre \in Seq(Messages) /\ Len(pre) = n /\ \A i \in 1 .. n : pre[i] = ms[i] BY <1>1
<1>3. PICK k \in Nat : k = n + 1 BY <1>1
<1>4. /\ SubSeq(ms, k, m) \in Seq(Messages) /\ Len(SubSeq(ms, k, m)) = m - k + 1
      /\ \A i \in 1 .. m - k + 1 : SubSeq(ms, k, m)[i] = ms[k + i - 1]
  BY <1>1, <1>3
<1>5. m - k + 1 = m - n /\ \A i \in 1 .. m - n : k + i - 1 = n + i BY <1>1, <1>3
<1>6. news \in Seq(Messages) /\ Len(news) = m - n BY <1>3, <1>4, <1>5
<1>7. \A i \in 1 .. m - n : news[i] = ms[n + i] BY <1>3, <1>4, <1>5
<1> QED BY <1>1, <1>2, <1>6, <1>7 DEF Parted

-----------------------------------------------------------------------------
(* The evidence that is carried from artifact to artifact                   *)

\* What a compaction goes on from is the evidence of a prefix.
ParentSound(p) ==
    p.length \in 0 .. Len(history) /\ Sound(p.evidence, SubSeq(PruneMessages(history), 1, p.length))

EvidenceOK ==
    /\ history # <<>> => Instruction(history[1])
    /\ \A a \in DOMAIN artifacts : Sound(artifacts[a].evidence, artifacts[a].source)
    /\ pc \in {"tighten", "summarize", "record"} => Sound(plan.evidence, plan.source)
    /\ pc = "tighten" => ParentSound(parent)

LEMMA ExcerptsSound ==
    ASSUME NEW e, NEW ms, Sound(e, ms), NEW X, NEW d, d = [e EXCEPT !.excerpts = X]
    PROVE  Sound(d, ms)
<1>1. /\ Evident(d) /\ d.objective = e.objective /\ d.constraints = e.constraints
      /\ d.work = e.work /\ d.files = e.files /\ d.findings = e.findings /\ d.claims = e.claims
      /\ d.failures = e.failures /\ d.pending = e.pending
  BY DEF Sound, Evident
<1> QED BY <1>1 DEF Sound

LEMMA ParentOfSound ==
    ASSUME CInv, EvidenceOK, pc # "idle", NEW a \in {0} \cup DOMAIN artifacts
    PROVE  ParentSound(ParentOf(a, PruneMessages(history)))
<1>1. PICK p : p = ParentOf(a, PruneMessages(history)) OBVIOUS
<1>2. PICK ms : ms = PruneMessages(history) OBVIOUS
<1>3. PICK m \in Nat : m = Len(history) BY DEF CInv, HistoryOK
<1>4. ms \in Seq(Messages) /\ Len(ms) = m BY <1>2, <1>3, HistoryFrom DEF CInv, Alike
<1>5. CASE p = NoParent
  <2>1. p.length = 0 /\ p.evidence = NoEvidence BY <1>5 DEF NoParent
  <2>2. SubSeq(ms, 1, 0) = <<>> BY <1>4
  <2>3. 0 \in 0 .. m BY <1>3
  <2> QED BY <1>1, <1>2, <1>3, <2>1, <2>2, <2>3, NothingSound DEF ParentSound
<1>6. CASE p # NoParent
  <2>1. a # 0 /\ IsPrefix(artifacts[a].source, ms) /\ a \in DOMAIN artifacts
    BY <1>1, <1>2, <1>6 DEF ParentOf
  <2>2. p.length = Len(artifacts[a].source)
        /\ p.evidence = [artifacts[a].evidence EXCEPT !.excerpts = artifacts[a].summary.excerpts]
    BY <1>1, <1>2, <1>6 DEF ParentOf
  <2>3. PICK src : src = artifacts[a].source OBVIOUS
  <2>4. src \in Seq(Messages) /\ Len(src) <= m BY <1>3, <2>1, <2>3 DEF CInv, ArtifactsOK, From
  <2>5. PICK l \in Nat : l = Len(src) BY <2>4
  <2>6. SubSeq(src, 1, l) = SubSeq(ms, 1, l) BY <2>1, <2>3, <2>5 DEF IsPrefix
  <2>7. SubSeq(src, 1, l) = src BY <2>4, <2>5
  <2>8. Sound(p.evidence, src) BY <2>1, <2>2, <2>3, ExcerptsSound DEF EvidenceOK
  <2>9. l \in 0 .. m BY <1>3, <2>4, <2>5
  <2>10. p.length = l /\ SubSeq(ms, 1, l) = src BY <2>2, <2>3, <2>5, <2>6, <2>7
  <2>11. p.length \in 0 .. Len(history) /\ Sound(p.evidence, SubSeq(ms, 1, p.length))
    BY <1>3, <2>8, <2>9, <2>10
  <2> QED BY <1>1, <1>2, <2>11 DEF ParentSound
<1> QED BY <1>5, <1>6

LEMMA CandidateSound ==
    ASSUME CInv, EvidenceOK, pc # "idle", NEW k, NEW limit, NEW p, ParentSound(p),
           NEW c, c = Candidate(PruneMessages(history), k, limit, p)
    PROVE  Sound(c.evidence, c.source)
<1>1. PICK ms : ms = PruneMessages(history) OBVIOUS
<1>2. PICK m \in Nat : m = Len(history) BY DEF CInv, HistoryOK
<1>3. ms \in Seq(Messages) /\ Len(ms) = m /\ From(ms, 0) /\ Alike(ms, history)
  BY <1>1, <1>2, HistoryFrom DEF CInv, Alike
<1>4. PICK n \in 0 .. m : n = p.length BY <1>2 DEF ParentSound
<1>5. PICK pre : pre = SubSeq(ms, 1, n) OBVIOUS
<1>6. PICK news : news = SubSeq(ms, n + 1, m) OBVIOUS
<1>7. Parted(ms, n, m, pre, news) BY <1>3, <1>4, <1>5, <1>6, PartsOf
<1>8. Sound(p.evidence, pre) BY <1>1, <1>4, <1>5 DEF ParentSound
<1>9. Instruction(ms[1])
  <2>1. history # <<>> BY DEF CInv, HistoryOK
  <2>2. Instruction(history[1]) BY <2>1 DEF EvidenceOK
  <2>3. 1 \in 1 .. Len(history) BY <1>2, <1>3 DEF From
  <2>4. ms[1].role = history[1].role /\ ms[1].tag = history[1].tag BY <1>3, <2>3 DEF Alike
  <2> QED BY <2>2, <2>4 DEF Instruction
<1>10. PICK X : c.evidence = [Extract(news, p.evidence) EXCEPT !.excerpts = X]
  BY <1>1, <1>3, <1>4, <1>6 DEF Candidate
<1>11. c.source = ms BY <1>1 DEF Candidate
<1>12. PICK e : e = c.evidence OBVIOUS
<1>13. PICK base : base = p.evidence OBVIOUS
<1>14. Sound(e, ms)
  <2>1. e = [Extract(news, base) EXCEPT !.excerpts = X] BY <1>10, <1>12, <1>13
  <2>2. Sound(base, pre) BY <1>8, <1>13
  <2> QED BY <1>3, <1>7, <1>9, <2>1, <2>2, ExtractSound
<1> QED BY <1>11, <1>12, <1>14

LEMMA CompactedSound ==
    ASSUME CInv, EvidenceOK, pc # "idle", Version = 2, NEW limit, NEW force, NEW p, ParentSound(p),
           NEW got, got = Compacted(limit, force, p), got.outcome = "compacted"
    PROVE  Sound(got.evidence, got.source)
<1>1. Compaction(got, PruneMessages(history), limit, p) BY CompactedOf DEF CInv
<1>2. CASE got = Outcome("same", PruneMessages(history))
  <2>1. got.outcome = "same" BY <1>2, OutcomeNamed
  <2> QED BY <2>1
<1>3. CASE got = Outcome("too big", PruneMessages(history))
  <2>1. got.outcome = "too big" BY <1>3, OutcomeNamed
  <2> QED BY <2>1
<1>4. CASE \E k \in 1 .. Cardinality(Starts(PruneMessages(history))) :
              got = Candidate(PruneMessages(history), k, limit, p)
  BY <1>4, CandidateSound
<1> QED BY <1>1, <1>2, <1>3, <1>4 DEF Compaction

LEMMA InitEvidence == ContextInit => EvidenceOK
<1> SUFFICES ASSUME ContextInit PROVE EvidenceOK OBVIOUS
<1>1. history = <<>> /\ DOMAIN artifacts = {} /\ pc = "idle" BY DEF ContextInit
<1> QED BY <1>1 DEF EvidenceOK

LEMMA EvidenceStays ==
    ASSUME EvidenceOK, UNCHANGED <<history, artifacts>>,
           pc' \in {"tighten", "summarize", "record"} => Sound(plan.evidence, plan.source)',
           pc' = "tighten" => ParentSound(parent)'
    PROVE  EvidenceOK'
BY DEF EvidenceOK

LEMMA PrepareEvidence ==
    ASSUME CInv, EvidenceOK, Version = 2, Prepare
    PROVE  EvidenceOK'
<1> DEFINE a == IF retries = 0 THEN LatestArtifact ELSE 0
           working == IF Reusable(a) THEN ViewOf(a) ELSE Plain
           first == FirstTarget(working)
           p == ParentOf(LatestArtifact, Plain.messages)
           force == Forced(working)
           got == Compacted(first, force, p)
<1>0. working = WorkingView BY DEF WorkingView
<1>1. pc = "ready" /\ UNCHANGED <<history, artifacts>> BY DEF Prepare, durable
<1>2. pc' \in {"refused", "route"} \/ (plan' = got /\ parent' = p /\ got.outcome = "compacted")
  <2> HIDE DEF working, first, p, force, got
  <2> QED BY <1>0 DEF Prepare, Refuse, first, p, force, got
<1>3. ParentSound(p)
  <2>1. Plain.messages = PruneMessages(history) BY DEF Plain, NoView
  <2>2. LatestArtifact \in {0} \cup DOMAIN artifacts BY LatestArtifactOf DEF CInv
  <2> QED BY <1>1, <2>1, <2>2, ParentOfSound
<1>4. CASE pc' \in {"refused", "route"} BY <1>1, <1>4, EvidenceStays
<1>5. CASE plan' = got /\ parent' = p /\ got.outcome = "compacted"
  <2> HIDE DEF first, p, force
  <2>1. Sound(got.evidence, got.source) BY <1>1, <1>3, <1>5, CompactedSound
  <2> HIDE DEF got
  <2>2. PICK q : q = p OBVIOUS
  <2>3. ParentSound(q)' BY <1>1, <1>3, <2>2 DEF ParentSound
  <2>4. ParentSound(parent)' BY <1>5, <2>2, <2>3 DEF ParentSound
  <2>5. Sound(plan.evidence, plan.source)'
    <3>1. PICK c : c = got OBVIOUS
    <3>2. Sound(c.evidence, c.source) /\ plan' = c BY <1>5, <2>1, <3>1
    <3> QED BY <3>2
  <2> QED BY <1>1, <2>4, <2>5, EvidenceStays
<1> QED BY <1>2, <1>4, <1>5

LEMMA TightenEvidence ==
    ASSUME CInv, EvidenceOK, Version = 2, Tighten
    PROVE  EvidenceOK'
<1> DEFINE got == Compacted(NextTarget, Forced(WorkingView), parent)
<1>1. pc = "tighten" /\ UNCHANGED <<history, artifacts, parent>> BY DEF Tighten, durable
<1>2. pc' \in {"refused", "route"} \/ (plan' = got /\ got.outcome = "compacted")
  BY DEF Tighten, Refuse
<1>3. ParentSound(parent) BY <1>1 DEF EvidenceOK
<1>4. ParentSound(parent)' BY <1>1, <1>3 DEF ParentSound
<1>5. CASE pc' \in {"refused", "route"} BY <1>1, <1>5, EvidenceStays
<1>6. CASE plan' = got /\ got.outcome = "compacted"
  <2>1. PICK c : c = got OBVIOUS
  <2>2. PICK q : q = parent OBVIOUS
  <2>3. ParentSound(q) BY <1>3, <2>2
  <2>4. PICK force : force = Forced(WorkingView) OBVIOUS
  <2>5. c = Compacted(NextTarget, force, q) BY <2>1, <2>2, <2>4
  <2>6. Sound(c.evidence, c.source) BY <1>1, <1>6, <2>1, <2>3, <2>5, CompactedSound
  <2>7. Sound(plan.evidence, plan.source)' BY <1>6, <2>1, <2>6
  <2> QED BY <1>1, <1>4, <2>7, EvidenceStays
<1> QED BY <1>2, <1>5, <1>6

LEMMA RewordEvidence ==
    ASSUME CInv, EvidenceOK, UNCHANGED <<history, artifacts>>, pc \in {"tighten", "summarize"},
           Reworded(plan, plan'), pc' \in {"summarize", "record"}
    PROVE  EvidenceOK'
<1>1. Planned(plan) /\ Sound(plan.evidence, plan.source) BY DEF CInv, PlanOK, EvidenceOK
<1>2. PICK d : d = plan' OBVIOUS
<1>3. d.source = plan.source /\ d.evidence = plan.evidence BY <1>1, <1>2, RewordedPlan
<1>4. Sound(plan.evidence, plan.source)' BY <1>1, <1>2, <1>3
<1> QED BY <1>4, EvidenceStays

LEMMA ChooseEvidence ==
    ASSUME CInv, EvidenceOK, Choose
    PROVE  EvidenceOK'
<1>1. pc = "tighten" /\ UNCHANGED <<history, artifacts, plan>> /\ pc' \in {"summarize", "record"}
  BY DEF Choose, durable
<1>2. Reworded(plan, plan') BY <1>1 DEF Reworded
<1> QED BY <1>1, <1>2, RewordEvidence

LEMMA SummaryEvidence ==
    ASSUME CInv, EvidenceOK, SummarizeCached \/ Summarize \/ SummaryFails \/ NoRequestLeft
    PROVE  EvidenceOK'
<1>1. pc = "summarize" /\ UNCHANGED <<history, artifacts>>
  BY DEF SummarizeCached, Summarize, SummaryFails, NoRequestLeft, durable
<1>2. Reworded(plan, plan') /\ pc' \in {"summarize", "record"}
  <2>1. CASE SummarizeCached BY <2>1, JudgeReworded DEF SummarizeCached
  <2>2. CASE Summarize BY <2>2, JudgeReworded DEF Summarize
  <2>3. CASE SummaryFails \/ NoRequestLeft
    BY <1>1, <2>3 DEF SummaryFails, NoRequestLeft, FallBack, Reworded
  <2> QED BY <2>1, <2>2, <2>3
<1> QED BY <1>1, <1>2, RewordEvidence

LEMMA RecordEvidence ==
    ASSUME CInv, EvidenceOK, Record
    PROVE  EvidenceOK'
<1>1. pc = "record" /\ UNCHANGED history /\ pc' \in {"broken", "refused", "route"}
  BY DEF Record, Refuse
<1>2. artifacts' = artifacts \/ artifacts' = Append(artifacts, Artifact) BY DEF Record
<1>3. \A a \in DOMAIN artifacts' : Sound(artifacts'[a].evidence, artifacts'[a].source)
  <2>1. CASE artifacts' = artifacts BY <2>1 DEF EvidenceOK
  <2>2. CASE artifacts' = Append(artifacts, Artifact)
    <3>1. PICK S : artifacts \in Seq(S) BY DEF CInv, ArtifactsOK
    <3>2. PICK A : A = Artifact OBVIOUS
    <3>3. PICK as : as = artifacts' OBVIOUS
    <3>4. as = Append(artifacts, A) BY <2>2, <3>2, <3>3
    <3>5. PICK n \in Nat : n = Len(artifacts) BY <3>1
    <3>6. /\ DOMAIN as = 1 .. n + 1 /\ as[n + 1] = A /\ \A a \in 1 .. n : as[a] = artifacts[a]
          /\ DOMAIN artifacts = 1 .. n
      BY <3>1, <3>4, <3>5
    <3>7. Sound(A.evidence, A.source)
      <4>1. A.evidence = plan.evidence /\ A.source = plan.source BY <3>2 DEF Artifact
      <4> QED BY <1>1, <4>1 DEF EvidenceOK
    <3>8. \A a \in 1 .. n + 1 : a = n + 1 \/ a \in 1 .. n BY <3>5
    <3>9. \A a \in 1 .. n : Sound(as[a].evidence, as[a].source) BY <3>6 DEF EvidenceOK
    <3> QED BY <3>3, <3>6, <3>7, <3>8, <3>9
  <2> QED BY <1>2, <2>1, <2>2
<1> QED BY <1>1, <1>3 DEF EvidenceOK

LEMMA RestEvidence ==
    ASSUME CInv, EvidenceOK, Route \/ Overflow \/ Stop \/ Interrupt
    PROVE  EvidenceOK'
<1>1. UNCHANGED <<history, artifacts>> /\ pc' \in {"send", "refused", "idle", "ready"}
  BY DEF Route, Refuse, Overflow, Stop, Interrupt, End, durable
<1> QED BY <1>1, EvidenceStays

\* The first message is the one that the user asks with.
LEMMA SpeechEvidence ==
    ASSUME CInv, EvidenceOK, Answer \/ Call \/ Ask \/ Hear
    PROVE  EvidenceOK'
<1>1. UNCHANGED artifacts /\ pc' \in {"idle", "ready"}
  BY DEF Answer, Call, Ask, Hear, End
<1>2. PICK n \in Nat : n = Len(history) /\ history \in Seq(Messages) BY DEF CInv, HistoryOK
<1>3. history' # <<>> => Instruction(history'[1])
  <2>1. CASE history # <<>>
    <3>1. 1 \in 1 .. n BY <1>2, <2>1
    <3>2. history'[1] = history[1]
      <4>1. ASSUME NEW q, history' = Append(history, q) PROVE history'[1] = history[1]
        BY <1>2, <3>1, <4>1
      <4>2. CASE Call
        <5>1. PICK tags \in Results, p \in Paths : history' = Turn(tags, p) BY <4>2 DEF Call
        <5>2. tags \in Seq(Tags) /\ p \in Paths \cup {NoPath}
          <6>1. tags \in Seq(Range(tags)) BY ResultsAssumption, SequenceOfRange
          <6>2. Range(tags) \subseteq Tags BY DEF Tags
          <6> QED BY <6>1, <6>2
        <5>3. PICK l : l = Len(tags) OBVIOUS
        <5>4. PICK hs : hs = Turn(tags, p) OBVIOUS
        <5>5. Turned(hs, n, l, tags, p) BY <1>2, <2>1, <5>2, <5>3, <5>4, TurnOf DEF CInv
        <5> QED BY <3>1, <5>1, <5>4, <5>5 DEF Turned
      <4>3. CASE Answer BY <4>1, <4>3 DEF Answer
      <4>4. CASE Ask BY <4>1, <4>4 DEF Ask, Say
      <4>5. CASE Hear BY <4>1, <4>5 DEF Hear, Say
      <4> QED BY <4>2, <4>3, <4>4, <4>5
    <3> QED BY <2>1, <3>2 DEF EvidenceOK
  <2>2. CASE history = <<>>
    <3>1. Ask BY <2>2 DEF CInv, HistoryOK, Answer, Call, Hear
    <3>2. PICK tag \in Asks : history' = Say(tag, NoPath) BY <3>1 DEF Ask
    <3>3. PICK q : q = Message(Len(history) + 1, "user", tag, {}, NoPath) OBVIOUS
    <3>4. history' = <<q>> BY <2>2, <3>2, <3>3 DEF Say
    <3>5. q.role = "user" /\ q.tag = tag BY <3>3 DEF Message
    <3>6. Instruction(q) BY <3>5, AsksAssumption DEF Instruction
    <3> QED BY <3>4, <3>6
  <2> QED BY <2>1, <2>2
<1> QED BY <1>1, <1>3 DEF EvidenceOK

LEMMA NextEvidence ==
    ASSUME Version = 2, CInv, EvidenceOK, [ContextNext]_contextVars
    PROVE  EvidenceOK'
<1>1. CASE Prepare BY <1>1, PrepareEvidence
<1>2. CASE Tighten BY <1>2, TightenEvidence
<1>3. CASE Choose BY <1>3, ChooseEvidence
<1>4. CASE SummarizeCached \/ Summarize \/ SummaryFails \/ NoRequestLeft BY <1>4, SummaryEvidence
<1>5. CASE Record BY <1>5, RecordEvidence
<1>6. CASE Route \/ Overflow \/ Stop \/ Interrupt BY <1>6, RestEvidence
<1>7. CASE Answer \/ Call \/ Ask \/ Hear BY <1>7, SpeechEvidence
<1>8. CASE UNCHANGED contextVars
  <2>1. UNCHANGED <<history, artifacts, pc, plan, parent>> BY <1>8 DEF contextVars, durable, work
  <2> QED BY <2>1 DEF EvidenceOK, ParentSound
<1> QED BY <1>1, <1>2, <1>3, <1>4, <1>5, <1>6, <1>7, <1>8 DEF ContextNext

LEMMA SoundFaithful == CInv /\ EvidenceOK => EvidenceFaithful
<1> SUFFICES ASSUME CInv, EvidenceOK, NEW a \in DOMAIN artifacts, Version = 2
             PROVE  LET ms == artifacts[a].source
                        e == artifacts[a].evidence
                        whole == Extract(ms, NoEvidence) IN
                    /\ e.files = whole.files /\ e.work = whole.work
                    /\ e.failures = whole.failures /\ e.pending = whole.pending
                    /\ e.constraints \subseteq Ids(ms) /\ e.objective \in Ids(ms)
                    /\ \A f \in e.findings : f.stale <=> EditedLater(ms, f.id, f.path)
                    /\ \A c \in e.claims : c[1] \in {"verified", "git"} => \A k \in Edits(ms) : k < c[2]
  BY DEF EvidenceFaithful
<1>1. PICK ms : ms = artifacts[a].source OBVIOUS
<1>2. PICK e : e = artifacts[a].evidence OBVIOUS
<1>3. PICK whole : whole = Extract(ms, NoEvidence) OBVIOUS
<1>4. Sound(e, ms) BY <1>1, <1>2 DEF EvidenceOK
<1>5. /\ whole.files = {} \cup {ms[i].path : i \in Edits(ms)} /\ whole.work = Work(ms, NoEvidence)
      /\ whole.failures = Failures(ms, NoEvidence) /\ whole.pending = Pending(ms, NoEvidence)
  BY <1>3 DEF Extract, NoEvidence
<1>6. e.files = whole.files BY <1>4, <1>5 DEF Sound, Changed
<1>7. e.objective \in Ids(ms)
  <2>1. From(ms, 0) BY <1>1 DEF CInv, ArtifactsOK
  <2>2. ms # <<>> BY <2>1 DEF From
  <2> QED BY <1>4, <2>2 DEF Sound
<1>8. e.work = whole.work /\ e.failures = whole.failures /\ e.pending = whole.pending
  BY <1>4, <1>5 DEF Sound
<1>9. /\ e.constraints \subseteq Ids(ms)
      /\ \A f \in e.findings : f.stale <=> EditedLater(ms, f.id, f.path)
      /\ \A c \in e.claims : c[1] \in {"verified", "git"} => \A k \in Edits(ms) : k < c[2]
  BY <1>4 DEF Sound
<1> HIDE DEF EvidenceOK, CInv
<1> QED BY <1>1, <1>2, <1>3, <1>6, <1>7, <1>8, <1>9

\* The evidence of every artifact that was ever recorded, although each read only
\* the messages that were new, is what a reading of the whole conversation would
\* have found: extract_compaction_evidence from the parent of an artifact, through
\* any sequence of compactions, tightenings, overflows, crashes and edits.
THEOREM EvidenceCarried ==
    ASSUME Version = 2
    PROVE  ContextSpec => []EvidenceFaithful
<1>1. CInv /\ EvidenceOK /\ [ContextNext]_contextVars => (CInv /\ EvidenceOK)'
  <2> SUFFICES ASSUME CInv, EvidenceOK, [ContextNext]_contextVars PROVE CInv' /\ EvidenceOK' OBVIOUS
  <2>1. CInv' BY NextCInv
  <2>2. EvidenceOK' BY NextEvidence
  <2> QED BY <2>1, <2>2
<1> QED BY InitCInv, InitEvidence, <1>1, SoundFaithful, PTL DEF ContextSpec

-----------------------------------------------------------------------------
(* The order of calls and results                                           *)

\* Every call is followed by its results, and every result follows its call.
Grouped(ms) ==
    /\ \A a \in 1 .. Len(ms) : \E n \in 0 .. Len(ms) - a :
        /\ ms[a].calls = (ms[a].id + 1) .. (ms[a].id + n)
        /\ \A k \in (a + 1) .. (a + n) : ms[k].role = "tool" /\ ms[k].calls = {}
    /\ \A i \in 1 .. Len(ms) : ms[i].role = "tool" => \E a \in 1 .. i - 1 : ms[i].id \in ms[a].calls

\* The n messages after the a-th are the results of its calls.
Owns(ms, f, a, n) ==
    /\ n \in 0 .. Len(ms) - a
    /\ ms[a].calls = (f + a + 1) .. (f + a + n) /\ Cardinality(ms[a].calls) = n
    /\ \A k \in (a + 1) .. (a + n) : ms[k].role = "tool" /\ ms[k].calls = {}

LEMMA OwnsResults ==
    ASSUME NEW f \in Nat, NEW ms, From(ms, f), Grouped(ms), NEW a \in 1 .. Len(ms)
    PROVE  \E n \in Nat : Owns(ms, f, a, n)
<1>1. PICK n \in 0 .. Len(ms) - a :
         /\ ms[a].calls = (ms[a].id + 1) .. (ms[a].id + n)
         /\ \A k \in (a + 1) .. (a + n) : ms[k].role = "tool" /\ ms[k].calls = {}
  BY DEF Grouped
<1>2. Len(ms) \in Nat BY DEF From
<1>3. a \in Nat /\ n \in Nat BY <1>1, <1>2
<1>4. ms[a].id = f + a BY DEF From
<1>5. Cardinality((f + a + 1) .. (f + a + n)) = n
  <2>1. PICK x \in Nat : x = f + a + 1 BY <1>3
  <2>2. PICK y \in Nat : y = f + a + n BY <1>3
  <2>3. Cardinality(x .. y) = IF x > y THEN 0 ELSE y - x + 1 BY <2>1, <2>2, FS_Interval
  <2> QED BY <1>3, <2>1, <2>2, <2>3
<1>6. Owns(ms, f, a, n) BY <1>1, <1>4, <1>5 DEF Owns
<1> QED BY <1>3, <1>6

LEMMA GroupedValid ==
    ASSUME NEW f \in Nat, NEW ms, From(ms, f), Grouped(ms)
    PROVE  ValidOrder(ms)
<1>1. PICK m \in Nat : m = Len(ms) BY DEF From
<1>2. DOMAIN ms = 1 .. m /\ \A i \in 1 .. m : ms[i].id = f + i BY <1>1 DEF From
<1>3. ASSUME NEW i \in 1 .. m, ms[i].role = "tool"
      PROVE  \E a \in 1 .. (i - 1) : i <= a + Cardinality(ms[a].calls)
  <2>1. PICK a \in 1 .. i - 1 : ms[i].id \in ms[a].calls BY <1>1, <1>3 DEF Grouped
  <2>2. a \in 1 .. m BY <1>1, <2>1
  <2>3. PICK n \in Nat : Owns(ms, f, a, n) BY <1>1, <2>2, OwnsResults
  <2>4. f + i \in (f + a + 1) .. (f + a + n) BY <1>2, <2>1, <2>3 DEF Owns
  <2>5. i <= a + n BY <2>4
  <2>6. Cardinality(ms[a].calls) = n BY <2>3 DEF Owns
  <2> QED BY <2>1, <2>5, <2>6
<1>4. ASSUME NEW a \in 1 .. m
      PROVE  LET last == a + Cardinality(ms[a].calls) IN
             /\ last <= m
             /\ {ms[k].id : k \in (a + 1) .. last} = ms[a].calls
             /\ \A k \in (a + 1) .. last : ms[k].role = "tool"
  <2>1. PICK n \in Nat : Owns(ms, f, a, n) BY <1>1, OwnsResults
  <2>2. PICK last \in Nat : last = a + n BY <2>1
  <2>3. Cardinality(ms[a].calls) = n /\ n \in 0 .. m - a BY <1>1, <2>1 DEF Owns
  <2>4. last <= m /\ \A k \in (a + 1) .. last : k \in 1 .. m BY <2>2, <2>3
  <2>5. {ms[k].id : k \in (a + 1) .. last} = {f + k : k \in (a + 1) .. last} BY <1>2, <2>4
  <2>6. ms[a].calls = (f + a + 1) .. (f + a + n) BY <2>1 DEF Owns
  <2>7. {f + k : k \in (a + 1) .. last} = (f + a + 1) .. (f + a + n)
    <3>1. ASSUME NEW x \in (f + a + 1) .. (f + a + n)
          PROVE  x - f \in (a + 1) .. last /\ x = f + (x - f)
      BY <2>2
    <3>2. ASSUME NEW k \in (a + 1) .. last PROVE f + k \in (f + a + 1) .. (f + a + n) BY <2>2
    <3> QED BY <3>1, <3>2
  <2>8. \A k \in (a + 1) .. last : ms[k].role = "tool" BY <2>1, <2>2 DEF Owns
  <2>9. last = a + Cardinality(ms[a].calls) BY <2>2, <2>3
  <2>10. /\ last <= m /\ {ms[k].id : k \in (a + 1) .. last} = ms[a].calls
         /\ \A k \in (a + 1) .. last : ms[k].role = "tool"
    BY <2>4, <2>5, <2>6, <2>7, <2>8
  <2> QED BY <2>9, <2>10
<1>5. ASSUME NEW a \in 1 .. m, NEW b \in 1 .. m, a < b PROVE ms[a].calls \cap ms[b].calls = {}
  <2>1. PICK n \in Nat : Owns(ms, f, a, n) BY <1>1, OwnsResults
  <2>2. PICK l \in Nat : Owns(ms, f, b, l) BY <1>1, OwnsResults
  <2>3. CASE b <= a + n
    <3>1. b \in (a + 1) .. (a + n) BY <1>5, <2>3
    <3>2. ms[b].calls = {} BY <2>1, <3>1 DEF Owns
    <3> QED BY <3>2
  <2>4. CASE ~(b <= a + n)
    <3>1. \A x \in (f + a + 1) .. (f + a + n) : x \notin (f + b + 1) .. (f + b + l)
      BY <2>4
    <3> QED BY <2>1, <2>2, <3>1 DEF Owns
  <2> QED BY <2>3, <2>4
<1>6. \A a, b \in 1 .. m : a # b => ms[a].calls \cap ms[b].calls = {}
  <2> SUFFICES ASSUME NEW a \in 1 .. m, NEW b \in 1 .. m, a # b PROVE ms[a].calls \cap ms[b].calls = {}
    OBVIOUS
  <2>1. a < b \/ b < a OBVIOUS
  <2>2. CASE a < b BY <2>2, <1>5
  <2>3. CASE b < a
    <3>1. ms[b].calls \cap ms[a].calls = {} BY <2>3, <1>5
    <3> QED BY <3>1
  <2> QED BY <2>1, <2>2, <2>3
<1> QED BY <1>1, <1>2, <1>3, <1>4, <1>6 DEF ValidOrder

LEMMA AlikeGrouped ==
    ASSUME NEW ms, NEW qs, Alike(qs, ms), Grouped(ms), ms \in Seq(Messages)
    PROVE  Grouped(qs)
<1>1. PICK m \in Nat : m = Len(ms) OBVIOUS
<1>2. Len(qs) = m /\ \A i \in 1 .. m : /\ qs[i].id = ms[i].id /\ qs[i].role = ms[i].role
                                       /\ qs[i].calls = ms[i].calls
  BY <1>1 DEF Alike
<1>3. ASSUME NEW a \in 1 .. m
      PROVE  \E n \in 0 .. m - a :
                /\ qs[a].calls = (qs[a].id + 1) .. (qs[a].id + n)
                /\ \A k \in (a + 1) .. (a + n) : qs[k].role = "tool" /\ qs[k].calls = {}
  <2>1. PICK n \in 0 .. m - a :
           /\ ms[a].calls = (ms[a].id + 1) .. (ms[a].id + n)
           /\ \A k \in (a + 1) .. (a + n) : ms[k].role = "tool" /\ ms[k].calls = {}
    BY <1>1 DEF Grouped
  <2>2. \A k \in (a + 1) .. (a + n) : k \in 1 .. m BY <1>1, <2>1
  <2>3. \A k \in (a + 1) .. (a + n) : qs[k].role = "tool" /\ qs[k].calls = {}
    BY <1>2, <2>1, <2>2
  <2>4. qs[a].calls = (qs[a].id + 1) .. (qs[a].id + n) BY <1>2, <2>1
  <2> QED BY <2>3, <2>4
<1>4. ASSUME NEW i \in 1 .. m, qs[i].role = "tool"
      PROVE  \E a \in 1 .. i - 1 : qs[i].id \in qs[a].calls
  <2>1. PICK a \in 1 .. i - 1 : ms[i].id \in ms[a].calls BY <1>1, <1>2, <1>4 DEF Grouped
  <2>2. a \in 1 .. m BY <1>1, <2>1
  <2> QED BY <1>2, <2>1, <2>2
<1> QED BY <1>2, <1>3, <1>4 DEF Grouped

\* The end rs of the messages, after g of them, begins with no result.
LEMMA EndGrouped ==
    ASSUME NEW f \in Nat, NEW ms, From(ms, f), Grouped(ms), NEW g \in 0 .. Len(ms) - 1, NEW rs,
           Len(rs) = Len(ms) - g, \A j \in 1 .. Len(ms) - g : rs[j] = ms[g + j], rs[1].role # "tool"
    PROVE  Grouped(rs)
<1>1. PICK m \in Nat : m = Len(ms) BY DEF From
<1>0. g \in 0 .. m - 1 BY <1>1
<1>2. PICK l \in Nat : l = m - g /\ l = Len(rs)
  <2>1. m - g \in Nat BY <1>0
  <2>2. Len(rs) = m - g BY <1>1
  <2> QED BY <2>1, <2>2
<1>3. \A j \in 1 .. l : g + j \in 1 .. m /\ rs[j] = ms[g + j] BY <1>1, <1>2
<1>4. ASSUME NEW a \in 1 .. l
      PROVE  \E n \in 0 .. l - a :
                /\ rs[a].calls = (rs[a].id + 1) .. (rs[a].id + n)
                /\ \A k \in (a + 1) .. (a + n) : rs[k].role = "tool" /\ rs[k].calls = {}
  <2>1. PICK b \in 1 .. m : b = g + a BY <1>3
  <2>2. PICK n \in 0 .. m - b :
           /\ ms[b].calls = (ms[b].id + 1) .. (ms[b].id + n)
           /\ \A k \in (b + 1) .. (b + n) : ms[k].role = "tool" /\ ms[k].calls = {}
    BY <1>1, <2>1 DEF Grouped
  <2>3. n \in 0 .. l - a BY <1>1, <1>2, <2>1, <2>2
  <2>4. ASSUME NEW k \in (a + 1) .. (a + n) PROVE rs[k].role = "tool" /\ rs[k].calls = {}
    <3>1. k \in 1 .. l /\ g + k \in (b + 1) .. (b + n) BY <1>2, <2>1, <2>2, <2>3
    <3>2. PICK j : j = g + k OBVIOUS
    <3>3. ms[j].role = "tool" /\ ms[j].calls = {} BY <2>2, <3>1, <3>2
    <3>4. rs[k] = ms[j] BY <1>3, <3>1, <3>2
    <3> QED BY <3>3, <3>4
  <2>5. rs[a] = ms[b] BY <1>3, <2>1
  <2> QED BY <2>2, <2>3, <2>4, <2>5
<1>5. ASSUME NEW i \in 1 .. l, rs[i].role = "tool"
      PROVE  \E a \in 1 .. i - 1 : rs[i].id \in rs[a].calls
  <2>1. PICK j \in 1 .. m : j = g + i BY <1>3
  <2>2. rs[i] = ms[j] BY <1>3, <2>1
  <2>3. PICK b \in 1 .. j - 1 : ms[j].id \in ms[b].calls BY <1>1, <1>5, <2>2 DEF Grouped
  <2>4. b \in 1 .. m BY <1>1, <2>1, <2>3
  <2>5. PICK n \in Nat : Owns(ms, f, b, n) BY <1>1, <2>4, OwnsResults
  <2>6. ms[j].id = f + j BY <1>1, <2>1 DEF From
  <2>7. j <= b + n
    <3>1. f + j \in (f + b + 1) .. (f + b + n) BY <2>3, <2>5, <2>6 DEF Owns
    <3> QED BY <3>1
  <2>8. b > g
    <3> SUFFICES ASSUME b <= g PROVE FALSE BY <1>2, <2>4
    <3>1. g + 1 \in (b + 1) .. (b + n) BY <2>1, <2>7, <1>2, <2>4
    <3>2. ms[g + 1].role = "tool" BY <2>5, <3>1 DEF Owns
    <3>3. 1 \in 1 .. l BY <1>2
    <3>4. rs[1] = ms[g + 1] BY <1>3, <3>3
    <3> QED BY <3>2, <3>4
  <2>9. PICK a \in 1 .. i - 1 : b = g + a
    <3>1. b - g \in 1 .. i - 1 /\ b = g + (b - g) BY <1>2, <2>1, <2>3, <2>8
    <3> QED BY <3>1
  <2>10. a \in 1 .. l BY <1>2, <2>9
  <2>11. rs[a] = ms[b] BY <1>3, <2>9, <2>10
  <2> QED BY <2>2, <2>3, <2>9, <2>11
<1> QED BY <1>2, <1>4, <1>5 DEF Grouped

LEMMA CandidateGrouped ==
    ASSUME NEW f \in Nat, NEW ms, From(ms, f), Grouped(ms), NEW k \in 1 .. Cardinality(Starts(ms)),
           NEW limit, NEW p
    PROVE  Grouped(Candidate(ms, k, limit, p).kept)
<1> DEFINE t == Trimmed(Recent(ms, 1), (limit * 6) \div 10)
<1>1. PICK g \in 0 .. Len(ms) - 1 :
         /\ g + 1 = NewestFrom(ms, k)
         /\ From(Recent(ms, k), f + g) /\ g + Len(Recent(ms, k)) = Len(ms)
  BY NewestBundles
<1>2. PICK rs : rs = Recent(ms, k) OBVIOUS
<1>3. PICK m \in Nat : m = Len(ms) BY DEF From
<1>4. rs = SubSeq(ms, g + 1, m) BY <1>1, <1>2, <1>3 DEF Recent
<1>5. ms \in Seq(Messages) BY DEF From
<1>6. Len(rs) = m - g /\ \A j \in 1 .. m - g : rs[j] = ms[g + j]
  <2>1. g + 1 \in 1 .. m BY <1>3
  <2>2. Len(rs) = m - (g + 1) + 1 BY <1>3, <1>4, <1>5, <2>1
  <2>3. \A j \in 1 .. m - g : rs[j] = ms[(g + 1) + j - 1] BY <1>3, <1>4, <1>5, <2>1
  <2>4. \A j \in 1 .. m - g : (g + 1) + j - 1 = g + j BY <1>3
  <2> QED BY <1>3, <2>2, <2>3, <2>4
<1>7. rs[1].role # "tool" /\ rs \in Seq(Messages) BY <1>1, <1>2 DEF From
<1>8. Grouped(rs) BY <1>3, <1>6, <1>7, EndGrouped
<1>9. PICK c : c = Candidate(ms, k, limit, p) OBVIOUS
<1>10. c.kept = IF k = 1 THEN t ELSE Recent(ms, k) BY <1>9 DEF Candidate
<1>11. k = 1 => Grouped(t)
  <2> SUFFICES ASSUME k = 1 PROVE Grouped(t) OBVIOUS
  <2>1. PICK q : q = t OBVIOUS
  <2>2. Alike(q, rs) BY <1>2, <1>7, <2>1, TrimmedAlike
  <2>3. Grouped(q) BY <1>7, <1>8, <2>2, AlikeGrouped
  <2> QED BY <2>1, <2>3
<1> HIDE DEF t
<1> QED BY <1>2, <1>8, <1>9, <1>10, <1>11

OrderOK ==
    /\ Grouped(history)
    /\ pc \in {"tighten", "summarize", "record"} => Grouped(plan.kept)

LEMMA InitOrder == ContextInit => OrderOK
<1> SUFFICES ASSUME ContextInit PROVE OrderOK OBVIOUS
<1>1. history = <<>> /\ pc = "idle" BY DEF ContextInit
<1>2. Len(<<>>) = 0 /\ 1 .. 0 = {} OBVIOUS
<1>3. Grouped(<<>>) BY <1>2 DEF Grouped
<1> QED BY <1>1, <1>3 DEF OrderOK

LEMMA CompactedGrouped ==
    ASSUME CInv, OrderOK, pc # "idle", Version = 2, NEW limit, NEW force, NEW p,
           NEW got, got = Compacted(limit, force, p), got.outcome = "compacted"
    PROVE  Grouped(got.kept)
<1>1. PICK ms : ms = PruneMessages(history) OBVIOUS
<1>2. From(ms, 0) /\ Alike(ms, history) BY <1>1, HistoryFrom DEF CInv
<1>3. Grouped(ms) BY <1>2, AlikeGrouped DEF OrderOK, CInv, HistoryOK
<1>4. Compaction(got, ms, limit, p) BY <1>1, CompactedOf DEF CInv
<1>5. CASE got = Outcome("same", ms)
  <2>1. got.outcome = "same" BY <1>5, OutcomeNamed
  <2> QED BY <2>1
<1>6. CASE got = Outcome("too big", ms)
  <2>1. got.outcome = "too big" BY <1>6, OutcomeNamed
  <2> QED BY <2>1
<1>7. CASE \E k \in 1 .. Cardinality(Starts(ms)) : got = Candidate(ms, k, limit, p)
  <2>1. 0 \in Nat OBVIOUS
  <2> QED BY <1>2, <1>3, <1>7, <2>1, CandidateGrouped
<1> QED BY <1>4, <1>5, <1>6, <1>7 DEF Compaction

\* A step that says nothing.
LEMMA OrderStays ==
    ASSUME OrderOK, UNCHANGED history,
           pc' \in {"tighten", "summarize", "record"} => Grouped(plan.kept)'
    PROVE  OrderOK'
<1>1. Grouped(history)' BY DEF OrderOK
<1> QED BY <1>1 DEF OrderOK

LEMMA PrepareOrder ==
    ASSUME CInv, OrderOK, Version = 2, Prepare
    PROVE  OrderOK'
<1> DEFINE a == IF retries = 0 THEN LatestArtifact ELSE 0
           working == IF Reusable(a) THEN ViewOf(a) ELSE Plain
           first == FirstTarget(working)
           p == ParentOf(LatestArtifact, Plain.messages)
           force == Forced(working)
           got == Compacted(first, force, p)
<1>0. working = WorkingView BY DEF WorkingView
<1>1. pc = "ready" /\ UNCHANGED history BY DEF Prepare, durable
<1>2. pc' \in {"refused", "route"} \/ (plan' = got /\ got.outcome = "compacted")
  <2> HIDE DEF working, first, p, force, got
  <2> QED BY <1>0 DEF Prepare, Refuse, first, p, force, got
<1>3. CASE pc' \in {"refused", "route"} BY <1>1, <1>3, OrderStays
<1>4. CASE plan' = got /\ got.outcome = "compacted"
  <2> HIDE DEF first, p, force
  <2>1. PICK c : c = got OBVIOUS
  <2>2. Grouped(c.kept) BY <1>1, <1>4, <2>1, CompactedGrouped
  <2> HIDE DEF got
  <2>3. Grouped(plan.kept)' BY <1>4, <2>1, <2>2
  <2> QED BY <1>1, <2>3, OrderStays
<1> QED BY <1>2, <1>3, <1>4

LEMMA TightenOrder ==
    ASSUME CInv, OrderOK, Version = 2, Tighten
    PROVE  OrderOK'
<1> DEFINE got == Compacted(NextTarget, Forced(WorkingView), parent)
<1>1. pc = "tighten" /\ UNCHANGED history BY DEF Tighten, durable
<1>2. pc' \in {"refused", "route"} \/ (plan' = got /\ got.outcome = "compacted")
  BY DEF Tighten, Refuse
<1>3. CASE pc' \in {"refused", "route"} BY <1>1, <1>3, OrderStays
<1>4. CASE plan' = got /\ got.outcome = "compacted"
  <2>1. PICK c : c = got OBVIOUS
  <2>2. PICK force : force = Forced(WorkingView) OBVIOUS
  <2>3. c = Compacted(NextTarget, force, parent) BY <2>1, <2>2
  <2>4. Grouped(c.kept) BY <1>1, <1>4, <2>1, <2>3, CompactedGrouped
  <2>5. Grouped(plan.kept)' BY <1>4, <2>1, <2>4
  <2> QED BY <1>1, <2>5, OrderStays
<1> QED BY <1>2, <1>3, <1>4

LEMMA RewordOrder ==
    ASSUME CInv, OrderOK, UNCHANGED history, pc \in {"tighten", "summarize"}, Reworded(plan, plan')
    PROVE  OrderOK'
<1>1. Planned(plan) /\ Grouped(plan.kept) BY DEF CInv, PlanOK, OrderOK
<1>2. PICK d : d = plan' OBVIOUS
<1>3. d.kept = plan.kept BY <1>1, <1>2, RewordedPlan
<1>4. Grouped(plan.kept)' BY <1>1, <1>2, <1>3
<1> QED BY <1>4, OrderStays

LEMMA PlanOrder ==
    ASSUME CInv, OrderOK, Choose \/ SummarizeCached \/ Summarize \/ SummaryFails \/ NoRequestLeft
    PROVE  OrderOK'
<1>1. pc \in {"tighten", "summarize"} /\ UNCHANGED history
  BY DEF Choose, SummarizeCached, Summarize, SummaryFails, NoRequestLeft, durable
<1>2. Reworded(plan, plan')
  <2>1. CASE SummarizeCached BY <2>1, JudgeReworded DEF SummarizeCached
  <2>2. CASE Summarize BY <2>2, JudgeReworded DEF Summarize
  <2>3. CASE SummaryFails \/ NoRequestLeft
    BY <1>1, <2>3 DEF SummaryFails, NoRequestLeft, FallBack, Reworded
  <2>4. CASE Choose BY <2>4 DEF Choose, Reworded
  <2> QED BY <2>1, <2>2, <2>3, <2>4
<1> QED BY <1>1, <1>2, RewordOrder

LEMMA RestOrder ==
    ASSUME OrderOK, Record \/ Route \/ Overflow \/ Stop \/ Interrupt
    PROVE  OrderOK'
<1>1. UNCHANGED history /\ pc' \in {"broken", "refused", "route", "send", "idle", "ready"}
  BY DEF Record, Route, Refuse, Overflow, Stop, Interrupt, End, durable
<1> QED BY <1>1, OrderStays

LEMMA AppendGrouped ==
    ASSUME NEW ms \in Seq(Messages), Grouped(ms), NEW q, q.id \in Nat, q.role # "tool",
           q.calls = {}
    PROVE  Grouped(Append(ms, q))
<1>1. PICK n \in Nat : n = Len(ms) OBVIOUS
<1>2. PICK hs : hs = Append(ms, q) OBVIOUS
<1>3. Len(hs) = n + 1 /\ hs[n + 1] = q /\ \A i \in 1 .. n : hs[i] = ms[i] BY <1>1, <1>2
<1>4. ASSUME NEW a \in 1 .. n + 1
      PROVE  \E l \in 0 .. n + 1 - a :
                /\ hs[a].calls = (hs[a].id + 1) .. (hs[a].id + l)
                /\ \A k \in (a + 1) .. (a + l) : hs[k].role = "tool" /\ hs[k].calls = {}
  <2>1. CASE a = n + 1
    <3>1. hs[a].calls = {} BY <1>3, <2>1
    <3>2. PICK x \in Nat : x = hs[a].id BY <1>3, <2>1
    <3>3. (x + 1) .. (x + 0) = {} BY <3>2
    <3>4. (a + 1) .. (a + 0) = {} /\ 0 \in 0 .. n + 1 - a BY <1>1
    <3> QED BY <3>1, <3>2, <3>3, <3>4
  <2>2. CASE a # n + 1
    <3>1. a \in 1 .. n BY <1>1, <2>2
    <3>2. PICK l \in 0 .. n - a :
             /\ ms[a].calls = (ms[a].id + 1) .. (ms[a].id + l)
             /\ \A k \in (a + 1) .. (a + l) : ms[k].role = "tool" /\ ms[k].calls = {}
      BY <1>1, <3>1 DEF Grouped
    <3>3. \A k \in (a + 1) .. (a + l) : k \in 1 .. n BY <1>1, <3>1, <3>2
    <3>4. \A k \in (a + 1) .. (a + l) : hs[k].role = "tool" /\ hs[k].calls = {} BY <1>3, <3>2, <3>3
    <3>5. hs[a] = ms[a] /\ l \in 0 .. n + 1 - a BY <1>1, <1>3, <3>1, <3>2
    <3> QED BY <3>2, <3>4, <3>5
  <2> QED BY <2>1, <2>2
<1>5. ASSUME NEW i \in 1 .. n + 1, hs[i].role = "tool"
      PROVE  \E a \in 1 .. i - 1 : hs[i].id \in hs[a].calls
  <2>1. i # n + 1 BY <1>3, <1>5
  <2>2. i \in 1 .. n BY <1>1, <2>1
  <2>3. hs[i] = ms[i] BY <1>3, <2>2
  <2>4. PICK a \in 1 .. i - 1 : ms[i].id \in ms[a].calls BY <1>1, <1>5, <2>2, <2>3 DEF Grouped
  <2>5. a \in 1 .. n BY <1>1, <2>2, <2>4
  <2>6. hs[a] = ms[a] BY <1>3, <2>5
  <2> QED BY <2>3, <2>4, <2>6
<1>6. PICK N \in Nat : N = n + 1 BY <1>1
<1>7. Len(hs) = N BY <1>3, <1>6
<1>8. \A a \in 1 .. N : \E l \in 0 .. N - a :
         /\ hs[a].calls = (hs[a].id + 1) .. (hs[a].id + l)
         /\ \A k \in (a + 1) .. (a + l) : hs[k].role = "tool" /\ hs[k].calls = {}
  BY <1>4, <1>6
<1>9. \A i \in 1 .. N : hs[i].role = "tool" => \E a \in 1 .. i - 1 : hs[i].id \in hs[a].calls
  BY <1>5, <1>6
<1>10. Grouped(hs) BY <1>7, <1>8, <1>9 DEF Grouped
<1> QED BY <1>2, <1>10

LEMMA TurnGrouped ==
    ASSUME HistoryOK, history # <<>>, Grouped(history),
           NEW tags \in Seq(Tags), NEW path \in Paths \cup {NoPath}
    PROVE  Grouped(Turn(tags, path))
<1>1. PICK n : n = Len(history) OBVIOUS
<1>2. PICK l : l = Len(tags) OBVIOUS
<1>3. PICK hs : hs = Turn(tags, path) OBVIOUS
<1>4. Turned(hs, n, l, tags, path) BY <1>1, <1>2, <1>3, TurnOf
<1>5. n \in Nat /\ l \in Nat /\ Len(hs) = n + 1 + l /\ \A i \in 1 .. n : hs[i] = history[i]
  BY <1>4 DEF Turned
<1>6. /\ hs[n + 1].id = n + 1 /\ hs[n + 1].role = "assistant"
      /\ hs[n + 1].calls = {n + 1 + i : i \in 1 .. l}
  <2>1. PICK m : m = hs[n + 1] OBVIOUS
  <2>2. m = Message(n + 1, "assistant", "calls", {n + 1 + i : i \in 1 .. l}, NoPath)
    BY <1>4, <2>1 DEF Turned
  <2>3. m.id = n + 1 /\ m.role = "assistant" /\ m.calls = {n + 1 + i : i \in 1 .. l}
    BY <2>2 DEF Message
  <2> QED BY <2>1, <2>3
<1>7. ASSUME NEW i \in 1 .. l
      PROVE  hs[n + 1 + i].id = n + 1 + i /\ hs[n + 1 + i].role = "tool" /\ hs[n + 1 + i].calls = {}
  <2>1. PICK m : m = hs[n + 1 + i] OBVIOUS
  <2>2. m = Message(n + 1 + i, "tool", tags[i], {}, path) BY <1>4, <2>1 DEF Turned
  <2>3. m.id = n + 1 + i /\ m.role = "tool" /\ m.calls = {} BY <2>2 DEF Message
  <2> QED BY <2>1, <2>3
<1>8. PICK N \in Nat : N = n + 1 + l BY <1>5
<1>9. \A k \in (n + 2) .. N : hs[k].id = k /\ hs[k].role = "tool" /\ hs[k].calls = {}
  <2> SUFFICES ASSUME NEW k \in (n + 2) .. N
               PROVE  hs[k].id = k /\ hs[k].role = "tool" /\ hs[k].calls = {}
    OBVIOUS
  <2>1. PICK i \in 1 .. l : k = n + 1 + i
    <3>1. k - (n + 1) \in 1 .. l /\ k = n + 1 + (k - (n + 1)) BY <1>5, <1>8
    <3> QED BY <3>1
  <2> QED BY <1>7, <2>1
<1>10. hs[n + 1].calls = (n + 1 + 1) .. (n + 1 + l)
  <2>1. ASSUME NEW x \in (n + 1 + 1) .. (n + 1 + l)
        PROVE  x - (n + 1) \in 1 .. l /\ x = n + 1 + (x - (n + 1))
    BY <1>5
  <2>2. ASSUME NEW i \in 1 .. l PROVE n + 1 + i \in (n + 1 + 1) .. (n + 1 + l) BY <1>5
  <2> QED BY <1>6, <2>1, <2>2
<1>11. ASSUME NEW a \in 1 .. N
       PROVE  \E r \in 0 .. N - a :
                 /\ hs[a].calls = (hs[a].id + 1) .. (hs[a].id + r)
                 /\ \A k \in (a + 1) .. (a + r) : hs[k].role = "tool" /\ hs[k].calls = {}
  <2>1. CASE a = n + 1
    <3>1. l \in 0 .. N - a BY <1>5, <1>8, <2>1
    <3>2. \A k \in (a + 1) .. (a + l) : k \in (n + 2) .. N BY <1>5, <1>8, <2>1
    <3>3. hs[a].calls = (hs[a].id + 1) .. (hs[a].id + l) BY <1>6, <1>10, <2>1
    <3> QED BY <1>9, <3>1, <3>2, <3>3
  <2>2. CASE a > n + 1
    <3>1. a \in (n + 2) .. N BY <1>5, <1>8, <2>2
    <3>2. hs[a].id = a /\ hs[a].calls = {} BY <1>9, <3>1
    <3>3. (a + 1) .. (a + 0) = {} /\ 0 \in 0 .. N - a BY <1>8
    <3> QED BY <3>2, <3>3
  <2>3. CASE a < n + 1
    <3>1. a \in 1 .. n BY <1>5, <1>8, <2>3
    <3>2. PICK r \in 0 .. n - a :
             /\ history[a].calls = (history[a].id + 1) .. (history[a].id + r)
             /\ \A k \in (a + 1) .. (a + r) : history[k].role = "tool" /\ history[k].calls = {}
      BY <1>1, <3>1 DEF Grouped
    <3>3. \A k \in (a + 1) .. (a + r) : k \in 1 .. n BY <1>5, <3>1, <3>2
    <3>4. \A k \in (a + 1) .. (a + r) : hs[k].role = "tool" /\ hs[k].calls = {} BY <1>5, <3>2, <3>3
    <3>5. hs[a] = history[a] /\ r \in 0 .. N - a BY <1>5, <1>8, <3>1, <3>2
    <3> QED BY <3>2, <3>4, <3>5
  <2> QED BY <1>5, <1>8, <2>1, <2>2, <2>3
<1>12. ASSUME NEW i \in 1 .. N, hs[i].role = "tool"
       PROVE  \E a \in 1 .. i - 1 : hs[i].id \in hs[a].calls
  <2>1. CASE i > n + 1
    <3>1. i \in (n + 2) .. N BY <1>5, <1>8, <2>1
    <3>2. hs[i].id = i BY <1>9, <3>1
    <3>3. i \in (n + 1 + 1) .. (n + 1 + l) BY <1>5, <1>8, <3>1
    <3>4. n + 1 \in 1 .. i - 1 BY <1>5, <3>1
    <3> QED BY <1>10, <3>2, <3>3, <3>4
  <2>2. CASE i = n + 1
    <3>1. hs[i].role = "assistant" BY <1>6, <2>2
    <3> QED BY <1>12, <3>1
  <2>3. CASE i < n + 1
    <3>1. i \in 1 .. n BY <1>5, <1>8, <2>3
    <3>2. hs[i] = history[i] BY <1>5, <3>1
    <3>3. PICK a \in 1 .. i - 1 : history[i].id \in history[a].calls BY <1>1, <1>12, <3>1, <3>2 DEF Grouped
    <3>4. a \in 1 .. n BY <1>5, <3>1, <3>3
    <3>5. hs[a] = history[a] BY <1>5, <3>4
    <3> QED BY <3>2, <3>3, <3>5
  <2> QED BY <1>5, <1>8, <2>1, <2>2, <2>3
<1>13. Grouped(hs) BY <1>5, <1>8, <1>11, <1>12 DEF Grouped
<1> QED BY <1>3, <1>13

LEMMA SpeechOrder ==
    ASSUME CInv, OrderOK, Answer \/ Call \/ Ask \/ Hear
    PROVE  OrderOK'
<1>1. pc' \in {"idle", "ready"} BY DEF Answer, Call, Ask, Hear, End
<1>2. history \in Seq(Messages) /\ Grouped(history) /\ HistoryOK BY DEF CInv, HistoryOK, OrderOK
<1>3. Grouped(history')
  <2>1. ASSUME NEW role \in {"user", "assistant"}, NEW tag, NEW path,
               history' = Append(history, Message(Len(history) + 1, role, tag, {}, path))
        PROVE  Grouped(history')
    <3>1. PICK m : m = Message(Len(history) + 1, role, tag, {}, path) OBVIOUS
    <3>2. m.id \in Nat /\ m.role # "tool" /\ m.calls = {} BY <1>2, <3>1 DEF Message
    <3> QED BY <1>2, <2>1, <3>1, <3>2, AppendGrouped
  <2>2. CASE Answer BY <2>1, <2>2 DEF Answer
  <2>3. CASE Ask BY <2>1, <2>3 DEF Ask, Say
  <2>4. CASE Hear BY <2>1, <2>4 DEF Hear, Say
  <2>5. CASE Call
    <3>1. PICK tags \in Results, p \in Paths : history' = Turn(tags, p) BY <2>5 DEF Call
    <3>2. tags \in Seq(Tags) /\ p \in Paths \cup {NoPath}
      <4>1. tags \in Seq(Range(tags)) BY ResultsAssumption, SequenceOfRange
      <4>2. Range(tags) \subseteq Tags BY DEF Tags
      <4> QED BY <4>1, <4>2
    <3>3. history # <<>> BY <2>5 DEF Call, CInv, HistoryOK
    <3> QED BY <1>2, <3>1, <3>2, <3>3, TurnGrouped
  <2> QED BY <2>2, <2>3, <2>4, <2>5
<1> QED BY <1>1, <1>3 DEF OrderOK

LEMMA NextOrder ==
    ASSUME Version = 2, CInv, OrderOK, [ContextNext]_contextVars
    PROVE  OrderOK'
<1>1. CASE Prepare BY <1>1, PrepareOrder
<1>2. CASE Tighten BY <1>2, TightenOrder
<1>3. CASE Choose \/ SummarizeCached \/ Summarize \/ SummaryFails \/ NoRequestLeft BY <1>3, PlanOrder
<1>4. CASE Record \/ Route \/ Overflow \/ Stop \/ Interrupt BY <1>4, RestOrder
<1>5. CASE Answer \/ Call \/ Ask \/ Hear BY <1>5, SpeechOrder
<1>6. CASE UNCHANGED contextVars
  <2>1. UNCHANGED <<history, pc, plan>> BY <1>6 DEF contextVars, durable, work
  <2> QED BY <2>1, OrderStays DEF OrderOK
<1> QED BY <1>1, <1>2, <1>3, <1>4, <1>5, <1>6 DEF ContextNext

-----------------------------------------------------------------------------
(* Sizes                                                                    *)

LEMMA LimitsTyped ==
    /\ ReadSize \in Nat /\ Target \in Nat /\ ToolVolume \in Nat /\ LargeVolume \in Nat
    /\ Reserve \in Nat
    /\ ChunkSize \in Nat \ {0} /\ MaxChunks \in Nat \ {0}
BY LimitsAssumption

LEMMA CountOf ==
    ASSUME NEW ms \in Seq(Messages), NEW S, S \subseteq DOMAIN ms
    PROVE  IsFiniteSet(S) /\ Cardinality(S) \in Nat /\ Cardinality(S) <= Len(ms)
<1>1. PICK n \in Nat : n = Len(ms) /\ DOMAIN ms = 1 .. n OBVIOUS
<1>2. S \in SUBSET (1 .. n) BY <1>1
<1>3. IsFiniteSet(1 .. n) BY <1>1, FS_Interval
<1>4. IsFiniteSet(S) /\ Cardinality(S) <= Cardinality(1 .. n) BY <1>2, <1>3, FS_Subset
<1>5. Cardinality(1 .. n) = n
  <2>1. n \in Nat BY <1>1
  <2>2. Cardinality(1 .. n) = IF 1 > n THEN 0 ELSE n - 1 + 1 BY ONLY <2>1, FS_Interval
  <2> QED BY ONLY <2>1, <2>2
<1> QED BY <1>1, <1>4, <1>5, FS_CardinalityType

LEMMA SizeTyped ==
    ASSUME NEW ms \in Seq(Messages)
    PROVE  Size(ms) \in Nat /\ Held(ms) \in Nat
<1>1. PICK n \in Nat : n = Len(ms) OBVIOUS
<1>2. PICK c : c = Cardinality(Where(ms, InFull)) OBVIOUS
<1>3. c \in Nat /\ c <= n
  <2>1. Where(ms, InFull) \subseteq DOMAIN ms BY DEF Where
  <2> QED BY <1>1, <1>2, <2>1, CountOf
<1>4. PICK d : d = Cardinality(Where(ms, LAMBDA m : m.calls # {})) OBVIOUS
<1>5. d \in Nat
  <2>1. Where(ms, LAMBDA m : m.calls # {}) \subseteq DOMAIN ms BY DEF Where
  <2> QED BY <1>4, <2>1, CountOf
<1>6. PICK r \in Int : r = ReadSize - 1 /\ r >= -1 BY LimitsTyped
<1>7. n + r * c \in Nat
  <2>1. CASE r = -1
    <3>1. r * c = -c BY <1>3, <2>1
    <3> QED BY <1>1, <1>3, <3>1
  <2>2. CASE r \in Nat
    <3>1. r * c \in Nat BY <1>3, <2>2
    <3> QED BY <1>1, <3>1
  <2>3. r = -1 \/ r \in Nat
    <3>1. r \in Int /\ r >= -1 BY <1>6
    <3> QED BY ONLY <3>1
  <2> QED BY <2>1, <2>2, <2>3
<1>8. Size(ms) = n + r * c BY <1>1, <1>2, <1>6 DEF Size
<1>9. Size(ms) \in Nat BY <1>7, <1>8
<1>10. Reserve * d \in Nat BY <1>5, LimitsTyped
<1>11. Held(ms) = Reserve * d BY <1>4 DEF Held
<1> QED BY <1>9, <1>10, <1>11

\* The system prompt, and with it the guidance.
Base == IF Len(history) = 1 THEN 0 ELSE Cardinality(Instructions)
Given == IF guided THEN 1 ELSE 0

LEMMA SystemTyped ==
    ASSUME HistoryOK
    PROVE  SystemSize \in Nat /\ SystemSize = Base + Guidance /\ Base \in Nat /\ Guidance \in {0, 1}
<1>1. PICK n \in Nat : n = Len(history) /\ DOMAIN history = 1 .. n BY DEF HistoryOK
<1>2. \A i \in 1 .. n : history[i].id \in 1 .. n
  <2>1. CASE history = <<>>
    <3>1. n = 0 BY <1>1, <2>1
    <3> QED BY <3>1
  <2>2. CASE history # <<>>
    <3>1. \A i \in 1 .. n : history[i].id = 0 + i BY <1>1, <2>2 DEF HistoryOK, From
    <3> QED BY <3>1
  <2> QED BY <2>1, <2>2
<1>3. Instructions \in SUBSET (1 .. n) BY <1>1, <1>2 DEF Instructions, Where
<1>4. IsFiniteSet(1 .. n) BY <1>1, FS_Interval
<1>5. IsFiniteSet(Instructions) BY <1>3, <1>4, FS_Subset
<1>6. Cardinality(Instructions) \in Nat BY <1>5, FS_CardinalityType
<1>7. Base \in Nat BY <1>6 DEF Base
<1>8. Guidance \in {0, 1} BY DEF Guidance
<1>9. SystemSize = Base + Guidance BY DEF SystemSize, Base
<1> QED BY <1>7, <1>8, <1>9

LEMMA LeftOf ==
    ASSUME HistoryOK, retries \in Nat, NEW limit \in Nat
    PROVE  Left(limit) \in Nat \ {0}
<1>1. PICK s \in Nat : s = SystemSize BY SystemTyped
<1>2. limit - s - retries \in Int BY <1>1
<1> QED BY <1>1, <1>2, GreatestOfTwo DEF Left

LEMMA TotalTyped ==
    ASSUME HistoryOK, NEW v, v.messages \in Seq(Messages), v.summary \in Int
    PROVE  Total(v) \in Int
<1>1. SystemSize \in Int BY SystemTyped
<1>2. Size(v.messages) \in Int /\ Held(v.messages) \in Int BY SizeTyped
<1> QED BY <1>1, <1>2 DEF Total

-----------------------------------------------------------------------------
(* Counting the facts of a summary                                          *)

LEMMA ImageFinite ==
    ASSUME NEW S, IsFiniteSet(S), NEW g
    PROVE  IsFiniteSet({g[x] : x \in S})
<1> DEFINE T == {g[x] : x \in S}
           h == [x \in S |-> g[x]]
<1>1. h \in Surjection(S, T) BY DEF Surjection
<1> HIDE DEF h, T
<1>2. IsFiniteSet(T) BY <1>1, FS_Surjection
<1> QED BY <1>2 DEF T

LEMMA PathsFinite ==
    ASSUME NEW ms, NEW S, IsFiniteSet(S)
    PROVE  IsFiniteSet({ms[i].path : i \in S})
<1> DEFINE g == [i \in S |-> ms[i].path]
<1>1. {g[i] : i \in S} = {ms[i].path : i \in S} OBVIOUS
<1> HIDE DEF g
<1> QED BY <1>1, ImageFinite

\* Sets of facts, and excerpts that are messages.
Counted(e) ==
    /\ IsFiniteSet(e.work) /\ IsFiniteSet(e.files) /\ IsFiniteSet(e.findings)
    /\ IsFiniteSet(e.claims) /\ IsFiniteSet(e.failures) /\ IsFiniteSet(e.pending)
    /\ e.excerpts \in SUBSET Nat /\ IsFiniteSet(e.excerpts)

LEMMA FindingsFinite ==
    ASSUME NEW ms \in Seq(Messages), NEW base, IsFiniteSet(base.findings)
    PROVE  IsFiniteSet(Findings(ms, base))
<1> DEFINE S == base.findings
           g == [f \in S |-> [f EXCEPT !.stale = @ \/ EditedLater(ms, 0, f.path)]]
           W == Where(ms, LAMBDA m : m.tag = "finding")
           h == [i \in W |-> [id |-> ms[i].id, path |-> ms[i].path,
                              stale |-> EditedLater(ms, i, ms[i].path)]]
           A == {g[f] : f \in S}
           B == {h[i] : i \in W}
<1>1. Findings(ms, base) \subseteq A \cup B BY DEF Findings
<1>2. IsFiniteSet(A)
  <2> HIDE DEF g
  <2> QED BY ImageFinite
<1>3. W \subseteq DOMAIN ms BY DEF Where
<1>4. IsFiniteSet(B)
  <2> HIDE DEF h, W
  <2> QED BY <1>3, CountOf, ImageFinite
<1> HIDE DEF A, B
<1>5. IsFiniteSet(A \cup B) BY <1>2, <1>4, FS_Union
<1> QED BY <1>1, <1>5, FS_Subset

LEMMA ClaimsFinite ==
    ASSUME NEW ms, NEW base, IsFiniteSet(base.claims)
    PROVE  IsFiniteSet(Claims(ms, base))
<1> DEFINE v == Latest(Where(ms, LAMBDA m : m.tag = "verified"))
           g == Latest(Where(ms, LAMBDA m : m.tag = "git"))
           e == Latest(Edits(ms))
           recorded == IF v # 0 THEN {<<"verified", ms[v].id>>} ELSE base.claims
           fresh == IF e > v /\ recorded # {} THEN {<<"stale verification", 0>>} ELSE recorded
           one == IF g < e THEN <<"stale git", 0>> ELSE <<"git", ms[g].id>>
           rest == {c \in fresh : c[1] \notin {"git", "stale git"}}
<1>1. IsFiniteSet(recorded) BY FS_Singleton
<1>2. IsFiniteSet(fresh)
  <2> HIDE DEF recorded, v, e
  <2> QED BY <1>1, FS_Singleton
<1>3. rest \in SUBSET fresh OBVIOUS
<1>4. IsFiniteSet(rest)
  <2> HIDE DEF fresh, rest
  <2> QED BY <1>2, <1>3, FS_Subset
<1>5. IsFiniteSet({one})
  <2> HIDE DEF one
  <2> QED BY FS_Singleton
<1>6. Claims(ms, base) = IF g = 0 THEN fresh ELSE rest \cup {one} BY DEF Claims
<1> HIDE DEF fresh, rest, one, g
<1>7. IsFiniteSet(rest \cup {one}) BY <1>4, <1>5, FS_Union
<1> QED BY <1>2, <1>6, <1>7

LEMMA WorkFinite ==
    ASSUME NEW ms \in Seq(Messages), NEW base, IsFiniteSet(base.work), IsFiniteSet(base.files)
    PROVE  /\ IsFiniteSet(Work(ms, base))
           /\ IsFiniteSet(base.files \cup {ms[i].path : i \in Edits(ms)})
<1> DEFINE p == Latest(Where(ms, LAMBDA m : m.tag \in {"plan", "done"}))
           P == {ms[i].path : i \in Edits(ms)}
           edited == base.work \cup P
           named == IF ms[p].tag = "done" THEN {"step"} ELSE {}
<1>1. Edits(ms) \subseteq DOMAIN ms BY DEF Edits, Where
<1>2. IsFiniteSet(P) BY <1>1, CountOf, PathsFinite
<1> HIDE DEF P
<1>3. IsFiniteSet(edited) /\ IsFiniteSet(base.files \cup P) BY <1>2, FS_Union
<1>4. IsFiniteSet(edited \ {"step"})
  <2> HIDE DEF edited
  <2> QED BY <1>3, FS_RemoveElement
<1>5. IsFiniteSet(named) BY FS_Singleton, FS_EmptySet
<1>6. Work(ms, base) = IF p = 0 THEN edited ELSE (edited \ {"step"}) \cup named BY DEF Work, P
<1> HIDE DEF edited, named, p
<1>7. IsFiniteSet((edited \ {"step"}) \cup named) BY <1>4, <1>5, FS_Union
<1> QED BY <1>3, <1>6, <1>7 DEF P

LEMMA OpenFinite ==
    ASSUME NEW ms, NEW base, IsFiniteSet(base.failures), IsFiniteSet(base.pending)
    PROVE  IsFiniteSet(Failures(ms, base)) /\ IsFiniteSet(Pending(ms, base))
<1>1. IsFiniteSet({}) /\ IsFiniteSet({"shell"}) /\ IsFiniteSet({"step"})
  BY FS_EmptySet, FS_Singleton
<1> QED BY <1>1 DEF Failures, Pending

LEMMA ExtractCounted ==
    ASSUME NEW ms \in Seq(Messages), NEW base, Counted(base),
           NEW X \in SUBSET Nat, IsFiniteSet(X),
           NEW e, e = [Extract(ms, base) EXCEPT !.excerpts = X]
    PROVE  Counted(e)
<1>1. /\ e.work = Work(ms, base) /\ e.files = base.files \cup {ms[i].path : i \in Edits(ms)}
      /\ e.findings = Findings(ms, base) /\ e.claims = Claims(ms, base)
      /\ e.failures = Failures(ms, base) /\ e.pending = Pending(ms, base) /\ e.excerpts = X
  BY DEF Extract
<1>2. IsFiniteSet(e.work) /\ IsFiniteSet(e.files) BY <1>1, WorkFinite DEF Counted
<1>3. IsFiniteSet(e.findings) BY <1>1, FindingsFinite DEF Counted
<1>4. IsFiniteSet(e.claims) BY <1>1, ClaimsFinite DEF Counted
<1>5. IsFiniteSet(e.failures) /\ IsFiniteSet(e.pending) BY <1>1, OpenFinite DEF Counted
<1> QED BY <1>1, <1>2, <1>3, <1>4, <1>5 DEF Counted

LEMMA FactsTyped ==
    ASSUME NEW e, Counted(e)
    PROVE  Facts(e) \in Nat
<1>1. /\ Cardinality(e.work) \in Nat /\ Cardinality(e.files) \in Nat
      /\ Cardinality(e.findings) \in Nat /\ Cardinality(e.claims) \in Nat
      /\ Cardinality(e.failures) \in Nat /\ Cardinality(e.pending) \in Nat
  BY FS_CardinalityType DEF Counted
<1> QED BY <1>1 DEF Facts

\* The newest n are all, or at least n.
LEMMA NewestMany ==
    ASSUME NEW S \in SUBSET Nat, IsFiniteSet(S), NEW n \in Nat
    PROVE  Newest(n, S) = S \/ Cardinality(Newest(n, S)) >= n
<1> DEFINE Above(x) == {y \in S : y > x}
           Up(x) == {y \in S : y >= x}
<1>1. PICK c \in Nat : c = Cardinality(S) BY FS_CardinalityType
<1>2. ASSUME NEW x \in S
      PROVE  /\ IsFiniteSet(Up(x)) /\ Cardinality(Up(x)) \in Nat
             /\ Cardinality(Above(x)) = Cardinality(Up(x)) - 1
  <2>1. Up(x) \in SUBSET S OBVIOUS
  <2>2. IsFiniteSet(Up(x)) BY <2>1, FS_Subset
  <2>0. \A y \in S : y \in Nat OBVIOUS
  <2>3. Above(x) = Up(x) \ {x} /\ x \in Up(x)
    <3>1. \A y \in S : y > x <=> y >= x /\ y # x BY <2>0
    <3>2. x >= x BY <2>0
    <3> QED BY <3>1, <3>2
  <2> HIDE DEF Up, Above
  <2> QED BY <2>2, <2>3, FS_RemoveElement, FS_CardinalityType
<1>3. CASE c <= n
  <2>1. ASSUME NEW x \in S PROVE Cardinality(Above(x)) < n
    <3>1. Up(x) \in SUBSET S OBVIOUS
    <3>2. Cardinality(Up(x)) <= c BY <1>1, <3>1, FS_Subset
    <3> HIDE DEF Up, Above
    <3> QED BY <1>1, <1>2, <1>3, <3>2
  <2>2. Newest(n, S) = S BY <2>1 DEF Newest
  <2> QED BY <2>2
<1>4. CASE n = 0
  <2>1. Newest(n, S) \in SUBSET S BY DEF Newest
  <2>2. Cardinality(Newest(n, S)) \in Nat BY <2>1, FS_Subset, FS_CardinalityType
  <2> QED BY <1>4, <2>2
<1>5. CASE c > n /\ n # 0
  <2>1. n \in 1 .. c BY <1>1, <1>5
  <2>2. PICK i \in S : Cardinality(Up(i)) = n BY <1>1, <2>1, RankExists
  <2>3. ASSUME NEW x \in S, x >= i PROVE Cardinality(Above(x)) < n
    <3>1. \A y \in S : y \in Nat OBVIOUS
    <3>5. \A y \in S : y >= x => y >= i BY <2>3, <3>1
    <3>2. Up(x) \in SUBSET Up(i) BY <3>5
    <3>3. IsFiniteSet(Up(i)) BY <1>2
    <3> HIDE DEF Up, Above
    <3>4. Cardinality(Up(x)) <= n BY <2>2, <3>2, <3>3, FS_Subset
    <3> QED BY <1>2, <3>4
  <2>4. Up(i) \in SUBSET Newest(n, S) BY <2>3 DEF Newest
  <2>5. Newest(n, S) \in SUBSET S BY DEF Newest
  <2>6. IsFiniteSet(Newest(n, S)) BY <2>5, FS_Subset
  <2> HIDE DEF Up
  <2>7. n <= Cardinality(Newest(n, S)) BY <2>2, <2>4, <2>6, FS_Subset
  <2>8. Cardinality(Newest(n, S)) \in Nat BY <2>6, FS_CardinalityType
  <2> QED BY <2>7, <2>8
<1> QED BY <1>1, <1>3, <1>4, <1>5

Numbers(s) == s.excerpts \in SUBSET Nat /\ IsFiniteSet(s.excerpts) /\ s.facts \in Nat

LEMMA SummaryTyped ==
    ASSUME NEW s, Numbers(s)
    PROVE  SummarySize(s) \in Nat
<1>1. Cardinality(s.excerpts) \in Nat BY FS_CardinalityType DEF Numbers
<1> QED BY <1>1 DEF SummarySize, Mandatory, Numbers

\* A deterministic summary fills its limit, or says everything.
LEMMA SummaryOf ==
    ASSUME NEW e, Counted(e), NEW limit \in Int, limit >= Mandatory, NEW s, s = Summary(e, limit)
    PROVE  /\ Numbers(s)
           /\ \/ SummarySize(s) >= limit
              \/ s.excerpts = e.excerpts /\ s.facts = Facts(e)
<1>1. PICK room \in Nat : room = limit - Mandatory BY DEF Mandatory
<1>2. PICK F \in Nat : F = Facts(e) BY FactsTyped
<1>3. PICK X \in SUBSET Nat : X = e.excerpts /\ IsFiniteSet(X) BY DEF Counted
<1>4. PICK E : E = Newest(room - F, X) OBVIOUS
<1>5. s.excerpts = E /\ s.facts = Min({room, F}) BY <1>1, <1>2, <1>3, <1>4 DEF Summary
<1>6. s.facts = IF room <= F THEN room ELSE F BY <1>5, LeastOfTwo
<1>7. E \in SUBSET X BY <1>4, NewestWithin
<1>8. IsFiniteSet(E) /\ Cardinality(E) \in Nat BY <1>3, <1>7, FS_Subset, FS_CardinalityType
<1>9. Numbers(s) BY <1>5, <1>6, <1>7, <1>8 DEF Numbers
<1>10. SummarySize(s) = Mandatory + Cardinality(E) + s.facts BY <1>5 DEF SummarySize
<1>11. CASE room <= F
  <2>1. s.facts = room BY <1>6, <1>11
  <2> QED BY <1>1, <1>8, <1>9, <1>10, <2>1 DEF Mandatory
<1>12. CASE room > F
  <2>1. s.facts = F BY <1>6, <1>12
  <2>2. PICK n \in Nat : n = room - F BY <1>12
  <2>3. E = X \/ Cardinality(E) >= n BY <1>3, <1>4, <2>2, NewestMany
  <2>4. CASE E = X BY <1>2, <1>3, <1>5, <1>9, <2>1, <2>4
  <2>5. CASE Cardinality(E) >= n BY <1>1, <1>8, <1>9, <1>10, <2>1, <2>2, <2>5 DEF Mandatory
  <2> QED BY <2>3, <2>4, <2>5
<1> QED BY <1>11, <1>12

\* What the model has chosen to say fits where the deterministic summary does.
LEMMA ChosenFits ==
    ASSUME NEW e, Counted(e), NEW room \in Int, room >= Mandatory, NEW size \in Int, NEW l \in Int,
           NEW d, d = Summary(e, room), SummarySize(d) + size <= l,
           NEW s, s.excerpts \in SUBSET e.excerpts, s.facts = Facts(e), SummarySize(s) <= room
    PROVE  Numbers(s) /\ SummarySize(s) + size <= l
<1>1. Facts(e) \in Nat BY FactsTyped
<1>2. /\ IsFiniteSet(s.excerpts) /\ Cardinality(s.excerpts) <= Cardinality(e.excerpts)
      /\ s.excerpts \in SUBSET Nat
  <2>1. e.excerpts \in SUBSET Nat /\ IsFiniteSet(e.excerpts) BY DEF Counted
  <2> QED BY <2>1, FS_Subset
<1>3. Numbers(s) BY <1>1, <1>2 DEF Numbers
<1>4. PICK a \in Nat : a = SummarySize(s) BY <1>3, SummaryTyped
<1>5. Numbers(d) /\ (SummarySize(d) >= room \/ (d.excerpts = e.excerpts /\ d.facts = Facts(e)))
  BY SummaryOf
<1>6. PICK b \in Nat : b = SummarySize(d) BY <1>5, SummaryTyped
<1>7. a <= b
  <2>1. CASE b >= room BY <1>4, <1>6, <2>1
  <2>2. CASE d.excerpts = e.excerpts /\ d.facts = Facts(e)
    <3>1. PICK m \in Nat : m = Cardinality(s.excerpts) BY <1>2, FS_CardinalityType
    <3>2. PICK n \in Nat : n = Cardinality(e.excerpts) BY FS_CardinalityType DEF Counted
    <3>3. PICK f \in Nat : f = Facts(e) BY <1>1
    <3>4. a = 2 + m + f BY <1>4, <3>1, <3>3 DEF SummarySize, Mandatory
    <3>5. b = 2 + n + f BY <1>6, <2>2, <3>2, <3>3 DEF SummarySize, Mandatory
    <3> QED BY <1>2, <3>1, <3>2, <3>3, <3>4, <3>5
  <2> QED BY <1>5, <1>6, <2>1, <2>2
<1> QED BY <1>3, <1>4, <1>6, <1>7

-----------------------------------------------------------------------------
(* What a plan was accepted for                                             *)

\* The plan c, from the parent q, for a target t.
Made(c, q, t) ==
    /\ Counted(c.evidence) /\ Counted(q.evidence)
    /\ c.evidence.excerpts = q.evidence.excerpts \cup (c.older \ q.compacted)
    /\ t - Size(c.kept) >= Mandatory
    /\ c.summary = Summary(c.evidence, t - Size(c.kept))

\* What an artifact counts, and a summary that was recorded.
Accounted(a) == Counted(a.evidence) /\ Numbers(a.summary)

\* What was left of the target when the plan was made, with the guidance of that time.
Room == Max({1, Target - Base - Given - retries})
Fitting(c) == SummarySize(c.summary) + Size(c.kept) <= Room - Held(c.kept)

NumbersOK == retries \in Nat /\ previous \in Int /\ target \in Int

\* What the plan promises while the summary is still to be chosen, and when it is.
PromiseOK ==
    /\ pc \in {"tighten", "summarize"} => Made(plan, parent, target)
    /\ pc = "tighten" => chosen = {} /\ (guided <=> Guidance > 0)
    /\ pc = "summarize" =>
        chosen \in SUBSET Transcript /\ chunks \in Seq(SUBSET Transcript) /\ chunks # <<>>
    /\ pc \in {"summarize", "record"} => Fitting(plan)
    /\ pc = "record" => Counted(plan.evidence) /\ Numbers(plan.summary)

SizesOK ==
    /\ NumbersOK /\ PromiseOK
    /\ \A a \in DOMAIN artifacts : Accounted(artifacts[a])
    /\ pc = "route" => view.summary \in Int
    /\ pc = "broken" => ValidOrder(plan.kept) /\ ~guided /\ Guidance > 0

LEMMA InitSizes == ContextInit => SizesOK
<1> SUFFICES ASSUME ContextInit PROVE SizesOK OBVIOUS
<1>1. DOMAIN artifacts = {} /\ pc = "idle" /\ retries = 0 /\ previous = 0 /\ target = 0
  BY DEF ContextInit
<1> QED BY <1>1 DEF SizesOK, NumbersOK, PromiseOK

LEMMA CandidateMade ==
    ASSUME NEW ms, From(ms, 0), NEW k \in 1 .. Cardinality(Starts(ms)), NEW limit \in Int,
           NEW p, Counted(p.evidence), p.length \in 0 .. Len(ms),
           NEW c, c = Candidate(ms, k, limit, p), c.outcome = "compacted"
    PROVE  Made(c, p, limit)
<1>1. Divides(c, ms, 0)
  <2>1. 0 \in Nat OBVIOUS
  <2> QED BY <2>1, CandidateDivides
<1>2. PICK n \in Nat : n = Len(ms) BY DEF From
<1>3. PICK g \in 0 .. n - 1 : c.older = (0 + 1) .. (0 + g) /\ From(c.kept, 0 + g) BY <1>1, <1>2 DEF Divides
<1>4. c.older \in SUBSET Nat /\ IsFiniteSet(c.older)
  <2>1. g \in Nat /\ 0 + 1 = 1 /\ 0 + g = g BY <1>2
  <2>2. c.older = 1 .. g BY <1>3, <2>1
  <2>3. IsFiniteSet(1 .. g) BY <2>1, FS_Interval
  <2>4. 1 .. g \in SUBSET Nat BY <2>1
  <2> QED BY <2>2, <2>3, <2>4
<1>5. Size(c.kept) \in Int BY <1>3, SizeTyped DEF From
<1>6. PICK news : news = SubSeq(ms, p.length + 1, Len(ms)) OBVIOUS
<1>7. news \in Seq(Messages) BY <1>2, <1>6 DEF From
<1>8. PICK X : X = p.evidence.excerpts \cup (c.older \ p.compacted) OBVIOUS
<1>9. X \in SUBSET Nat /\ IsFiniteSet(X)
  <2>1. c.older \ p.compacted \in SUBSET c.older OBVIOUS
  <2>2. IsFiniteSet(c.older \ p.compacted) BY <1>4, <2>1, FS_Subset
  <2> QED BY <1>4, <1>8, <2>2, FS_Union DEF Counted
<1>10. PICK d : d = [Extract(news, p.evidence) EXCEPT !.excerpts = X] OBVIOUS
<1>11. /\ c.evidence = d
       /\ c.outcome = (IF limit - Size(c.kept) >= Mandatory THEN "compacted" ELSE "too big")
       /\ c.summary = Summary(c.evidence, limit - Size(c.kept))
  BY <1>6, <1>8, <1>10 DEF Candidate
<1>12. Counted(d) BY <1>7, <1>9, <1>10, ExtractCounted
<1>13. d.excerpts = X BY <1>10 DEF Extract
<1>14. limit - Size(c.kept) >= Mandatory BY <1>11
<1> QED BY <1>8, <1>11, <1>12, <1>13, <1>14 DEF Made

LEMMA CompactedMade ==
    ASSUME CInv, pc # "idle", Version = 2, NEW limit \in Int, NEW force, NEW p, ParentSound(p),
           Counted(p.evidence), NEW got, got = Compacted(limit, force, p), got.outcome = "compacted"
    PROVE  Made(got, p, limit)
<1>1. PICK ms : ms = PruneMessages(history) OBVIOUS
<1>2. From(ms, 0) /\ Alike(ms, history) BY <1>1, HistoryFrom DEF CInv
<1>3. p.length \in 0 .. Len(ms) BY <1>2 DEF ParentSound, Alike
<1>4. Compaction(got, ms, limit, p) BY <1>1, CompactedOf DEF CInv
<1>5. CASE got = Outcome("same", ms)
  <2>1. got.outcome = "same" BY <1>5, OutcomeNamed
  <2> QED BY <2>1
<1>6. CASE got = Outcome("too big", ms)
  <2>1. got.outcome = "too big" BY <1>6, OutcomeNamed
  <2> QED BY <2>1
<1>7. CASE \E k \in 1 .. Cardinality(Starts(ms)) : got = Candidate(ms, k, limit, p)
  BY <1>2, <1>3, <1>7, CandidateMade
<1> QED BY <1>4, <1>5, <1>6, <1>7 DEF Compaction

LEMMA ParentOfCounted ==
    ASSUME SizesOK, NEW a \in {0} \cup DOMAIN artifacts, NEW ms
    PROVE  Counted(ParentOf(a, ms).evidence)
<1>1. PICK p : p = ParentOf(a, ms) OBVIOUS
<1>2. CASE p = NoParent
  <2>1. p.evidence = NoEvidence BY <1>2 DEF NoParent
  <2>2. Counted(NoEvidence) BY FS_EmptySet DEF Counted, NoEvidence
  <2> QED BY <1>1, <2>1, <2>2
<1>3. CASE p # NoParent
  <2>1. /\ a \in DOMAIN artifacts
        /\ p.evidence = [artifacts[a].evidence EXCEPT !.excerpts = artifacts[a].summary.excerpts]
    BY <1>1, <1>3 DEF ParentOf
  <2>2. PICK e : e = artifacts[a].evidence OBVIOUS
  <2>3. PICK X : X = artifacts[a].summary.excerpts OBVIOUS
  <2>4. Counted(e) /\ X \in SUBSET Nat /\ IsFiniteSet(X)
    BY <2>1, <2>2, <2>3 DEF SizesOK, Accounted, Numbers
  <2>5. PICK d : d = [e EXCEPT !.excerpts = X] OBVIOUS
  <2>6. Counted(d)
    <3>1. /\ d.work = e.work /\ d.files = e.files /\ d.findings = e.findings
          /\ d.claims = e.claims /\ d.failures = e.failures /\ d.pending = e.pending
      BY <2>5
    <3>2. d.excerpts = X \/ d.excerpts = e.excerpts BY <2>5
    <3> QED BY <2>4, <3>1, <3>2 DEF Counted
  <2> QED BY <1>1, <2>1, <2>2, <2>3, <2>5, <2>6
<1> QED BY <1>2, <1>3

\* A step that records nothing and is not of a plan.
LEMMA SizesStay ==
    ASSUME SizesOK, UNCHANGED artifacts, NumbersOK',
           pc' \in {"refused", "send", "idle", "ready", "route"},
           pc' = "route" => view'.summary \in Int
    PROVE  SizesOK'
<1>1. PromiseOK' BY DEF PromiseOK
<1>2. \A a \in DOMAIN artifacts' : Accounted(artifacts'[a]) BY DEF SizesOK
<1>3. ASSUME NEW a \in DOMAIN artifacts' PROVE Accounted(artifacts[a])' BY <1>2 DEF Accounted
<1> QED BY <1>1, <1>3 DEF SizesOK

LEMMA FirstTyped ==
    ASSUME HistoryOK, NumbersOK, pc # "idle", NEW v
    PROVE  FirstTarget(v) \in Int
<1>1. PICK l \in Nat : l = Left(Target) BY LeftOf, LimitsTyped DEF NumbersOK
<1>2. PICK s \in Nat : s = SystemSize BY SystemTyped
<1>3. PICK h \in Int : h = Size(history) BY SizeTyped DEF HistoryOK
<1>4. PICK part \in Int : part = IF ToolVolume >= LargeVolume THEN ToolVolume \div 4 ELSE (h * 85) \div 100
  BY LimitsTyped
<1>5. PICK x \in Int : x = Max({2, part}) BY GreatestOfTwo
<1>6. PICK over \in Int : over = (previous * 7) \div 10 - s BY <1>2 DEF NumbersOK
<1>7. PICK y \in Int : y = Max({2, over}) BY GreatestOfTwo
<1>8. PICK S : S = {l} \cup (IF Bulky(v) THEN {x} ELSE {}) \cup (IF retries > 0 THEN {y} ELSE {})
  OBVIOUS
<1>9. FirstTarget(v) = Min(S) BY <1>1, <1>2, <1>3, <1>4, <1>5, <1>6, <1>7, <1>8 DEF FirstTarget
<1>10. S = {l, l} \/ S = {l, x} \/ S = {l, y} \/ S = {l, x, y} BY <1>8
<1>11. Min({l, x, y}) \in Int
  <2>1. \E z \in {l, x, y} : \A u \in {l, x, y} : u >= z OBVIOUS
  <2> QED BY <2>1 DEF Min
<1> QED BY <1>9, <1>10, <1>11, LeastOfTwo

LEMMA NextTyped ==
    ASSUME HistoryOK, NumbersOK, plan.kept \in Seq(Messages)
    PROVE  NextTarget \in Int
<1>1. PICK l \in Nat : l = Left(Target) BY LeftOf, LimitsTyped DEF NumbersOK
<1>2. PICK h \in Nat : h = Held(plan.kept) BY SizeTyped
<1>3. target - 1 \in Int /\ l - h \in Int BY <1>1, <1>2 DEF NumbersOK
<1> QED BY <1>1, <1>2, <1>3, LeastOfTwo DEF NextTarget

\* A step that leads to a plan, which still is to be tightened.
LEMMA PlannedSizes ==
    ASSUME SizesOK, UNCHANGED artifacts, NumbersOK', pc' = "tighten",
           NEW c, NEW q, NEW t, plan' = c, parent' = q, target' = t, Made(c, q, t), chosen' = {},
           (guided <=> Guidance > 0)'
    PROVE  SizesOK'
<1>1. Made(plan, parent, target)'
  <2>1. Made(c, q, t) /\ c = plan' /\ q = parent' /\ t = target' OBVIOUS
  <2> QED BY <2>1 DEF Made
<1>2. PromiseOK' BY <1>1 DEF PromiseOK
<1>3. \A a \in DOMAIN artifacts : Accounted(artifacts[a]) BY DEF SizesOK
<1>4. ASSUME NEW a \in DOMAIN artifacts' PROVE Accounted(artifacts[a])' BY <1>3 DEF Accounted
<1> QED BY <1>2, <1>4 DEF SizesOK

LEMMA PrepareSizes ==
    ASSUME CInv, EvidenceOK, SizesOK, Version = 2, Prepare
    PROVE  SizesOK'
<1> DEFINE a == IF retries = 0 THEN LatestArtifact ELSE 0
           working == IF Reusable(a) THEN ViewOf(a) ELSE Plain
           first == FirstTarget(working)
           p == ParentOf(LatestArtifact, Plain.messages)
           force == Forced(working)
           got == Compacted(first, force, p)
<1>0. working = WorkingView BY DEF WorkingView
<1>1. pc = "ready" /\ UNCHANGED <<history, artifacts, retries, previous, requests>>
  BY DEF Prepare, durable
<1>2. /\ target' \in {target, first}
      /\ \/ pc' = "refused"
         \/ pc' = "route" /\ view' \in {working, Plain}
         \/ /\ plan' = got /\ parent' = p /\ target' = first /\ got.outcome = "compacted"
            /\ pc' = "tighten" /\ chosen' = {} /\ guided' = (Guidance > 0)
  <2> HIDE DEF working, first, p, force, got
  <2> QED BY <1>0 DEF Prepare, Refuse, work, first, p, force, got
<1>3. LatestArtifact \in {0} \cup DOMAIN artifacts BY LatestArtifactOf DEF CInv
<1>4. working.summary \in Int /\ Plain.summary \in Int
  <2>1. Plain.summary = 0 BY DEF Plain, NoView
  <2>2. CASE Reusable(a)
    <3>1. a # 0 BY <2>2 DEF Reusable
    <3>2. a \in DOMAIN artifacts BY <1>3, <3>1
    <3> HIDE DEF a
    <3>3. SummarySize(artifacts[a].summary) \in Nat BY <3>2, SummaryTyped DEF SizesOK, Accounted
    <3>4. working.summary = SummarySize(artifacts[a].summary) BY <2>2 DEF ViewOf
    <3> QED BY <2>1, <3>3, <3>4
  <2>3. CASE ~Reusable(a) BY <2>1, <2>3
  <2> QED BY <2>2, <2>3
<1> HIDE DEF working
<1>5. first \in Int
  <2>1. HistoryOK /\ NumbersOK /\ pc # "idle" BY <1>1 DEF CInv, SizesOK
  <2> HIDE DEF working
  <2> QED BY <2>1, FirstTyped
<1>6. NumbersOK' BY <1>1, <1>2, <1>5 DEF SizesOK, NumbersOK
<1>7. CASE pc' = "refused" BY <1>1, <1>6, <1>7, SizesStay
<1>8. CASE pc' = "route" /\ view' \in {working, Plain} BY <1>1, <1>4, <1>6, <1>8, SizesStay
<1>9. CASE /\ plan' = got /\ parent' = p /\ target' = first /\ got.outcome = "compacted"
           /\ pc' = "tighten" /\ chosen' = {} /\ guided' = (Guidance > 0)
  <2> HIDE DEF first
  <2>0. (guided <=> Guidance > 0)' BY <1>1, <1>9 DEF Guidance
  <2>1. ParentSound(p)
    <3>1. Plain.messages = PruneMessages(history) BY DEF Plain, NoView
    <3> QED BY <1>1, <1>3, <3>1, ParentOfSound
  <2>2. Counted(p.evidence) BY <1>3, ParentOfCounted
  <2> HIDE DEF p, force
  <2>3. Made(got, p, first) BY <1>1, <1>5, <1>9, <2>1, <2>2, CompactedMade
  <2> HIDE DEF got
  <2> QED BY <1>1, <1>6, <1>9, <2>0, <2>3, PlannedSizes
<1> HIDE DEF first, got, p
<1> QED BY <1>2, <1>7, <1>8, <1>9

LEMMA TightenSizes ==
    ASSUME CInv, EvidenceOK, SizesOK, Version = 2, Tighten
    PROVE  SizesOK'
<1> DEFINE got == Compacted(NextTarget, Forced(WorkingView), parent)
<1>1. /\ pc = "tighten"
      /\ UNCHANGED <<history, artifacts, retries, previous, requests, parent, chosen, guided>>
  BY DEF Tighten, durable
<1>2. /\ target' \in {target, NextTarget}
      /\ \/ pc' = "refused"
         \/ pc' = "route" /\ view' = Plain
         \/ /\ plan' = got /\ target' = NextTarget /\ got.outcome = "compacted"
            /\ pc' = "tighten"
  <2> HIDE DEF got
  <2> QED BY <1>1 DEF Tighten, Refuse, got
<1>3. plan.kept \in Seq(Messages) BY <1>1 DEF CInv, PlanOK, Divides, From
<1>4. PICK t \in Int : t = NextTarget BY <1>3, NextTyped DEF CInv, SizesOK
<1>5. NumbersOK' BY <1>1, <1>2, <1>4 DEF SizesOK, NumbersOK
<1>6. CASE pc' = "refused" BY <1>1, <1>5, <1>6, SizesStay
<1>7. CASE pc' = "route" /\ view' = Plain
  <2>1. Plain.summary = 0 BY DEF Plain, NoView
  <2> QED BY <1>1, <1>5, <1>7, <2>1, SizesStay
<1>8. CASE plan' = got /\ target' = NextTarget /\ got.outcome = "compacted" /\ pc' = "tighten"
  <2>1. PICK c : c = got OBVIOUS
  <2>2. PICK force : force = Forced(WorkingView) OBVIOUS
  <2>3. PICK q : q = parent OBVIOUS
  <2>4. c = Compacted(t, force, q) BY <1>4, <2>1, <2>2, <2>3
  <2>5. ParentSound(q) BY <1>1, <2>3 DEF EvidenceOK
  <2>6. Made(plan, parent, target) /\ chosen = {} /\ (guided <=> Guidance > 0)
    BY <1>1 DEF SizesOK, PromiseOK
  <2>7. Counted(q.evidence) BY <2>3, <2>6 DEF Made
  <2>8. c.outcome = "compacted" /\ plan' = c /\ target' = t /\ parent' = q /\ chosen' = {}
    BY <1>1, <1>4, <1>8, <2>1, <2>3, <2>6
  <2>9. pc # "idle" BY <1>1
  <2>10. Made(c, q, t) BY <2>4, <2>5, <2>7, <2>8, <2>9, CompactedMade
  <2>11. (guided <=> Guidance > 0)' BY <1>1, <2>6 DEF Guidance
  <2> QED BY <1>1, <1>5, <1>8, <2>8, <2>10, <2>11, PlannedSizes
<1> HIDE DEF got
<1> QED BY <1>2, <1>6, <1>7, <1>8

-----------------------------------------------------------------------------
(* What the summarizer may make of a plan                                   *)

LEMMA RoomTyped ==
    ASSUME HistoryOK, NumbersOK
    PROVE  Room \in Nat /\ Room = IF 1 >= Target - Base - Given - retries THEN 1
                                   ELSE Target - Base - Given - retries
<1>1. PICK b \in Nat : b = Base BY SystemTyped
<1>2. PICK g \in {0, 1} : g = Given BY DEF Given
<1>3. PICK x \in Int : x = Target - b - g - retries BY <1>1, <1>2, LimitsTyped DEF NumbersOK
<1> QED BY <1>1, <1>2, <1>3, GreatestOfTwo DEF Room

LEMMA FittingStays ==
    ASSUME NEW c, Fitting(c), UNCHANGED <<history, retries, guided>>
    PROVE  Fitting(c)' /\ Room' = Room
<1>1. Base' = Base /\ Given' = Given BY DEF Base, Given, Instructions
<1>2. Room' = Room BY <1>1 DEF Room
<1> QED BY <1>2 DEF Fitting

\* A step that leaves a plan for recording, as it is or with another summary.
LEMMA AcceptedSizes ==
    ASSUME SizesOK, UNCHANGED <<history, artifacts, retries, previous, target, guided>>, pc' = "record",
           NEW d, plan' = d, Counted(d.evidence), Numbers(d.summary), Fitting(d)
    PROVE  SizesOK'
<1>1. Room' = Room BY FittingStays
<1>4. Fitting(plan)' BY <1>1 DEF Fitting
<1>5. Counted(plan.evidence)' /\ Numbers(plan.summary)' BY DEF Counted, Numbers
<1>6. PromiseOK' BY <1>4, <1>5 DEF PromiseOK
<1>7. NumbersOK' BY DEF SizesOK, NumbersOK
<1>8. \A a \in DOMAIN artifacts : Accounted(artifacts[a]) BY DEF SizesOK
<1>9. ASSUME NEW a \in DOMAIN artifacts' PROVE Accounted(artifacts[a])' BY <1>8 DEF Accounted
<1> QED BY <1>6, <1>7, <1>9 DEF SizesOK

\* A step of the summarizer, or one that leads to it.
LEMMA ChosenSizes ==
    ASSUME SizesOK, UNCHANGED <<history, artifacts, retries, previous, target, plan, parent, guided>>,
           pc \in {"tighten", "summarize"}, pc' = "summarize", Fitting(plan),
           chosen' \in SUBSET Transcript, chunks' \in Seq(SUBSET Transcript), chunks' # <<>>
    PROVE  SizesOK'
<1>1. Room' = Room BY FittingStays
<1>3. Fitting(plan)' BY <1>1 DEF Fitting
<1>4. Made(plan, parent, target)' BY DEF SizesOK, PromiseOK, Made
<1>5. Transcript' = Transcript BY DEF Transcript
<1>6. PromiseOK' BY <1>3, <1>4, <1>5 DEF PromiseOK
<1>7. NumbersOK' BY DEF SizesOK, NumbersOK
<1>8. \A a \in DOMAIN artifacts : Accounted(artifacts[a]) BY DEF SizesOK
<1>9. ASSUME NEW a \in DOMAIN artifacts' PROVE Accounted(artifacts[a])' BY <1>8 DEF Accounted
<1> QED BY <1>6, <1>7, <1>9 DEF SizesOK

LEMMA KeptTyped ==
    ASSUME CInv, pc \in {"tighten", "summarize", "record"}
    PROVE  plan.kept \in Seq(Messages) /\ IsFiniteSet(Transcript) /\ Planned(plan)
<1>1. Divides(plan, plan.source, 0) /\ Planned(plan) /\ Alike(plan.source, history)
  BY DEF CInv, PlanOK
<1>2. PICK n \in Nat : n = Len(plan.source) BY <1>1 DEF Alike
<1>3. PICK g \in 0 .. n - 1 : plan.older = (0 + 1) .. (0 + g) /\ From(plan.kept, 0 + g)
  BY <1>1, <1>2 DEF Divides
<1>4. IsFiniteSet(plan.older)
  <2>1. 0 + 1 \in Int /\ 0 + g \in Int BY <1>2
  <2> QED BY <1>3, <2>1, FS_Interval
<1>5. Transcript \in SUBSET plan.older BY DEF Transcript
<1> QED BY <1>1, <1>3, <1>4, <1>5, FS_Subset DEF From

LEMMA ChunksTyped ==
    ASSUME NEW S, IsFiniteSet(S)
    PROVE  ChunksOf(S) \in Seq(SUBSET S) /\ ChunksOf(S) # <<>>
<1> DEFINE Chunk(x) == Cardinality({y \in S : y < x}) \div ChunkSize + 1
           Part(c) == {x \in S : Chunk(x) = c}
<1>1. PICK n \in Nat : n = Cardinality(S) BY FS_CardinalityType
<1>2. PICK k \in Nat \ {0} : k = ChunkSize BY LimitsTyped
<1>3. PICK q \in Int : q = (n + k - 1) \div k BY <1>1, <1>2
<1>4. PICK m \in Nat \ {0} : m = MaxChunks BY LimitsTyped
<1>5. PICK u \in Nat \ {0} : u = Max({1, q}) BY <1>3, GreatestOfTwo
<1>6. PICK l \in Nat \ {0} : l = Min({m, u}) BY <1>4, <1>5, LeastOfTwo
<1>7. ChunkCount(Cardinality(S)) = l BY <1>1, <1>2, <1>3, <1>4, <1>5, <1>6 DEF ChunkCount
<1>8. ChunksOf(S) = [c \in 1 .. l |-> Part(c)] BY <1>7 DEF ChunksOf
<1>9. \A c \in 1 .. l : Part(c) \in SUBSET S OBVIOUS
<1> HIDE DEF Part
<1>10. ChunksOf(S) \in Seq(SUBSET S) /\ Len(ChunksOf(S)) = l BY <1>8, <1>9
<1> QED BY <1>10

LEMMA ChooseSizes ==
    ASSUME CInv, SizesOK, Choose
    PROVE  SizesOK'
<1>1. /\ pc = "tighten" /\ Tight
      /\ UNCHANGED <<history, artifacts, retries, previous, target, plan, parent, chosen, guided>>
      /\ pc' = "record" \/ (pc' = "summarize" /\ chunks' = ChunksOf(Transcript))
  BY DEF Choose, durable
<1>2. Made(plan, parent, target) /\ chosen = {} /\ (guided <=> Guidance > 0)
  BY <1>1 DEF SizesOK, PromiseOK
<1>3. Fitting(plan)
  <2>1. PICK s : s = SystemSize OBVIOUS
  <2>2. PICK r \in Nat : r = retries BY DEF SizesOK, NumbersOK
  <2>3. PICK b \in Nat : b = Base BY SystemTyped DEF CInv
  <2>4. PICK g \in {0, 1} : g = Given /\ g = Guidance /\ s = b + g
    BY <1>2, <2>1, <2>3, SystemTyped DEF CInv, Given
  <2>5. Target - s - r = Target - b - g - r BY <2>2, <2>3, <2>4, LimitsTyped
  <2>6. Left(Target) = Room BY <2>1, <2>2, <2>3, <2>4, <2>5 DEF Left, Room
  <2> QED BY <1>1, <2>6 DEF Tight, RetainedSize, Fitting
<1>4. plan.kept \in Seq(Messages) /\ IsFiniteSet(Transcript) BY <1>1, KeptTyped
<1>5. CASE pc' = "summarize" /\ chunks' = ChunksOf(Transcript)
  <2>1. chosen' \in SUBSET Transcript BY <1>1, <1>2
  <2>2. chunks' \in Seq(SUBSET Transcript) /\ chunks' # <<>> BY <1>4, <1>5, ChunksTyped
  <2> QED BY <1>1, <1>3, <1>5, <2>1, <2>2, ChosenSizes
<1>6. CASE pc' = "record"
  <2>1. PICK d : d = plan OBVIOUS
  <2>2. PICK room \in Int : room = target - Size(d.kept) BY <1>4, <2>1, SizeTyped DEF SizesOK, NumbersOK
  <2>3. Counted(d.evidence) /\ room >= Mandatory /\ d.summary = Summary(d.evidence, room)
    BY <1>2, <2>1, <2>2 DEF Made
  <2>4. Numbers(d.summary) BY <2>3, SummaryOf
  <2>5. Fitting(d) BY <1>3, <2>1 DEF Fitting
  <2> QED BY <1>1, <1>6, <2>1, <2>3, <2>4, <2>5, AcceptedSizes
<1> QED BY <1>1, <1>5, <1>6

LEMMA FallBackSizes ==
    ASSUME CInv, SizesOK, pc = "summarize", FallBack,
           UNCHANGED <<history, artifacts, retries, previous, target, guided>>
    PROVE  SizesOK'
<1>1. Made(plan, parent, target) /\ Fitting(plan) BY DEF SizesOK, PromiseOK
<1>2. plan.kept \in Seq(Messages) BY KeptTyped
<1>3. PICK d : d = plan OBVIOUS
<1>4. PICK room \in Int : room = target - Size(d.kept) BY <1>2, <1>3, SizeTyped DEF SizesOK, NumbersOK
<1>5. Counted(d.evidence) /\ room >= Mandatory /\ d.summary = Summary(d.evidence, room)
  BY <1>1, <1>3, <1>4 DEF Made
<1>6. Numbers(d.summary) BY <1>5, SummaryOf
<1>7. Fitting(d) BY <1>1, <1>3 DEF Fitting
<1>8. plan' = d /\ pc' = "record" BY <1>3 DEF FallBack
<1> QED BY <1>5, <1>6, <1>7, <1>8, AcceptedSizes

LEMMA AcceptSizes ==
    ASSUME CInv, SizesOK, pc = "summarize", NEW E \in {{}, Head(chunks)}, Accept(E),
           UNCHANGED <<history, artifacts, retries, previous, target, parent, guided>>
    PROVE  SizesOK'
<1>1. Made(plan, parent, target) /\ Fitting(plan) BY DEF SizesOK, PromiseOK
<1>2. PICK T : T = Transcript OBVIOUS
<1>3. chosen \in SUBSET T /\ chunks \in Seq(SUBSET T) /\ chunks # <<>> BY <1>2 DEF SizesOK, PromiseOK
<1>4. PICK D : D = chosen' OBVIOUS
<1>5. D \in SUBSET T
  <2>1. Head(chunks) \in SUBSET T BY <1>3
  <2>2. D = chosen \cup E BY <1>4 DEF Accept
  <2> QED BY <1>3, <2>1, <2>2
<1>6. CASE Len(chunks) > 1
  <2>1. chunks' = Tail(chunks) /\ pc' = "summarize" /\ UNCHANGED plan BY <1>6 DEF Accept
  <2>2. Tail(chunks) \in Seq(SUBSET T) /\ Len(Tail(chunks)) = Len(chunks) - 1 BY <1>3
  <2>3. Len(chunks) \in Nat BY <1>3
  <2>4. Len(Tail(chunks)) # 0 BY <1>6, <2>2, <2>3
  <2>5. Tail(chunks) # <<>>
    <3>1. ASSUME NEW ts, Len(ts) # 0 PROVE ts # <<>> BY <3>1
    <3> QED BY <2>4, <3>1
  <2>6. /\ chosen' \in SUBSET Transcript /\ chunks' \in Seq(SUBSET Transcript) /\ chunks' # <<>>
    BY <1>2, <1>4, <1>5, <2>1, <2>2, <2>5
  <2> QED BY <1>1, <2>1, <2>6, ChosenSizes
<1>7. CASE ~(Len(chunks) > 1)
  <2>1. PICK e : e = plan.evidence OBVIOUS
  <2>2. PICK s : s = [excerpts |-> D \cup parent.evidence.excerpts, facts |-> Facts(e)] OBVIOUS
  <2>3. PICK size \in Int : size = Size(plan.kept) BY KeptTyped, SizeTyped
  <2>4. /\ pc' = "record"
        /\ plan' = IF SummarySize(s) + size <= target
                   THEN [plan EXCEPT !.summary = s, !.outcome = "llm"] ELSE plan
    BY <1>4, <1>7, <2>1, <2>2, <2>3 DEF Accept
  <2>5. PICK room \in Int : room = target - size BY <2>3 DEF SizesOK, NumbersOK
  <2>6. Counted(e) /\ room >= Mandatory /\ plan.summary = Summary(e, room)
        /\ e.excerpts = parent.evidence.excerpts \cup T
    BY <1>1, <1>2, <2>1, <2>3, <2>5 DEF Made, Transcript
  <2>7. Numbers(plan.summary) BY <2>6, SummaryOf
  <2>8. CASE SummarySize(s) + size <= target
    <3>1. s.excerpts \in SUBSET e.excerpts /\ s.facts = Facts(e) BY <1>5, <2>2, <2>6
    <3>2. SummarySize(s) <= room
      <4>1. Facts(e) \in Nat BY <2>6, FactsTyped
      <4>2. IsFiniteSet(s.excerpts) /\ s.excerpts \in SUBSET Nat
        <5>1. e.excerpts \in SUBSET Nat /\ IsFiniteSet(e.excerpts) BY <2>6 DEF Counted
        <5> QED BY <3>1, <5>1, FS_Subset
      <4>3. Numbers(s) BY <3>1, <4>1, <4>2 DEF Numbers
      <4>4. PICK b \in Nat : b = SummarySize(s) BY <4>3, SummaryTyped
      <4>5. target \in Int BY DEF SizesOK, NumbersOK
      <4> QED BY <2>5, <2>8, <4>4, <4>5
    <3>3. PICK l \in Int : l = Room - Held(plan.kept)
      <4>1. Room \in Nat BY RoomTyped DEF CInv, SizesOK
      <4>2. Held(plan.kept) \in Int BY KeptTyped, SizeTyped
      <4> QED BY <4>1, <4>2
    <3>4. SummarySize(plan.summary) + size <= l BY <1>1, <2>3, <3>3 DEF Fitting
    <3>5. PICK d0 : d0 = plan.summary OBVIOUS
    <3>6. d0 = Summary(e, room) /\ SummarySize(d0) + size <= l BY <2>6, <3>4, <3>5
    <3>7. Numbers(s) /\ SummarySize(s) + size <= l BY <2>6, <3>1, <3>2, <3>6, ChosenFits
    <3>8. PICK d : d = [plan EXCEPT !.summary = s, !.outcome = "llm"] OBVIOUS
    <3>9. Planned(plan) BY KeptTyped
    <3>10. d.kept = plan.kept /\ d.summary = s /\ d.evidence = e BY <2>1, <3>8, <3>9 DEF Planned
    <3>11. Fitting(d) BY <2>3, <3>3, <3>7, <3>10 DEF Fitting
    <3>12. plan' = d BY <2>4, <2>8, <3>8
    <3> QED BY <2>4, <2>6, <3>7, <3>10, <3>11, <3>12, AcceptedSizes
  <2>9. CASE ~(SummarySize(s) + size <= target)
    <3>1. PICK d : d = plan OBVIOUS
    <3>2. plan' = d BY <2>4, <2>9, <3>1
    <3>3. Fitting(d) /\ d.evidence = e /\ Numbers(d.summary) BY <1>1, <2>1, <2>7, <3>1 DEF Fitting
    <3> QED BY <2>4, <2>6, <3>2, <3>3, AcceptedSizes
  <2> QED BY <2>8, <2>9
<1> QED BY <1>6, <1>7

LEMMA SummarySizes ==
    ASSUME CInv, SizesOK, SummarizeCached \/ Summarize \/ SummaryFails \/ NoRequestLeft
    PROVE  SizesOK'
<1>1. pc = "summarize" /\ UNCHANGED <<history, artifacts, retries, previous, target, parent, guided>>
  BY DEF SummarizeCached, Summarize, SummaryFails, NoRequestLeft, durable
<1>2. ASSUME NEW valid, Judge(valid) PROVE SizesOK'
  BY <1>1, <1>2, AcceptSizes, FallBackSizes DEF Judge
<1>3. CASE SummarizeCached BY <1>2, <1>3 DEF SummarizeCached
<1>4. CASE Summarize BY <1>2, <1>4 DEF Summarize
<1>5. CASE FallBack BY <1>1, <1>5, FallBackSizes
<1>6. CASE UNCHANGED <<pc, chunks, plan, chosen>>
  <2>1. Fitting(plan) /\ chosen' \in SUBSET Transcript /\ chunks' \in Seq(SUBSET Transcript)
        /\ chunks' # <<>>
    BY <1>1, <1>6 DEF SizesOK, PromiseOK
  <2> QED BY <1>1, <1>6, <2>1, ChosenSizes
<1>7. SummaryFails => FallBack \/ UNCHANGED <<pc, chunks, plan, chosen>> BY DEF SummaryFails
<1>8. NoRequestLeft => FallBack BY DEF NoRequestLeft
<1> QED BY <1>3, <1>4, <1>5, <1>6, <1>7, <1>8

-----------------------------------------------------------------------------
(* The checks behind a compaction                                           *)

\* What was recorded of the history as it is was recorded before the last overflow, so
\* that a compaction never finds an artifact that is the same.
AttemptsOK ==
    \A a \in DOMAIN artifacts :
        /\ artifacts[a].config[3] \in Nat
        /\ pc # "idle" /\ Len(artifacts[a].source) = Len(history) =>
             artifacts[a].config[3] <
                retries + (IF pc \in {"ready", "tighten", "summarize", "record"} THEN 0 ELSE 1)

LEMMA InitAttempts == ContextInit => AttemptsOK
<1> SUFFICES ASSUME ContextInit PROVE AttemptsOK OBVIOUS
<1>1. DOMAIN artifacts = {} BY DEF ContextInit
<1> QED BY <1>1 DEF AttemptsOK

LEMMA NothingSame ==
    ASSUME CInv, SizesOK, AttemptsOK, pc = "record"
    PROVE  SameArtifact = 0
<1>1. PICK a : a = SameArtifact OBVIOUS
<1>2. ArtifactsOK /\ Alike(plan.source, history) BY DEF CInv, PlanOK
<1>3. retries \in Nat BY DEF SizesOK, NumbersOK
<1>4. SUFFICES ASSUME a # 0 PROVE FALSE BY <1>1
<1>5. a \in DOMAIN artifacts /\ artifacts[a].source = plan.source /\ artifacts[a].config = Config(Intended)
  BY <1>1, <1>2, <1>4, SameArtifactOf
<1>6. artifacts[a].config[3] = retries BY <1>5 DEF Config
<1>7. Len(artifacts[a].source) = Len(history) BY <1>2, <1>5 DEF Alike
<1>8. artifacts[a].config[3] < retries + 0 BY <1>5, <1>7 DEF AttemptsOK
<1> QED BY <1>3, <1>6, <1>8

\* A step of one attempt, or one that ends the run.
LEMMA AttemptStays ==
    ASSUME SizesOK, AttemptsOK, UNCHANGED <<history, artifacts>>, retries' \in Nat,
           \/ pc' = "idle"
           \/ pc # "idle" /\ retries' = retries + 1
           \/ pc # "idle" /\ retries' = retries
              /\ (pc' \in {"ready", "tighten", "summarize", "record"} =>
                    pc \in {"ready", "tighten", "summarize", "record"})
    PROVE  AttemptsOK'
<1>1. PICK r \in Nat : r = retries BY DEF SizesOK, NumbersOK
<1>2. PICK q \in Nat : q = retries' OBVIOUS
<1>3. PICK here \in {0, 1} : here = IF pc \in {"ready", "tighten", "summarize", "record"} THEN 0 ELSE 1
  OBVIOUS
<1>4. PICK there \in {0, 1} : there = IF pc' \in {"ready", "tighten", "summarize", "record"} THEN 0 ELSE 1
  OBVIOUS
<1>5. pc' # "idle" => pc # "idle" /\ r + here <= q + there
  <2>1. CASE pc' = "idle" BY <2>1
  <2>2. CASE pc # "idle" /\ retries' = retries + 1
    <3>1. q = r + 1 BY <1>1, <1>2, <2>2
    <3> QED BY <1>3, <1>4, <2>2, <3>1
  <2>3. CASE /\ pc # "idle" /\ retries' = retries
             /\ pc' \in {"ready", "tighten", "summarize", "record"} =>
                  pc \in {"ready", "tighten", "summarize", "record"}
    <3>1. q = r BY <1>1, <1>2, <2>3
    <3>2. here = 0 \/ there = 1 BY <1>3, <1>4, <2>3
    <3> QED BY <1>3, <1>4, <2>3, <3>1, <3>2
  <2> QED BY <2>1, <2>2, <2>3
<1>6. ASSUME NEW a \in DOMAIN artifacts, NEW c, c = artifacts[a].config[3]
      PROVE  /\ c \in Nat
             /\ pc' # "idle" /\ Len(artifacts[a].source) = Len(history) => c < q + there
  <2>1. c \in Nat /\ (pc # "idle" /\ Len(artifacts[a].source) = Len(history) => c < r + here)
    BY <1>1, <1>3, <1>6 DEF AttemptsOK
  <2> QED BY <1>3, <1>4, <1>5, <2>1
<1> QED BY <1>2, <1>4, <1>6 DEF AttemptsOK

LEMMA NextAttempts ==
    ASSUME Version = 2, CInv, SizesOK, SizesOK', AttemptsOK, [ContextNext]_contextVars
    PROVE  AttemptsOK'
<1>0. retries \in Nat /\ retries' \in Nat BY DEF SizesOK, NumbersOK
<1>1. CASE Prepare \/ Tighten \/ Choose \/ SummarizeCached \/ Summarize \/ SummaryFails \/ NoRequestLeft
  <2>1. pc \in {"ready", "tighten", "summarize"} /\ UNCHANGED <<history, artifacts, retries>>
    BY <1>1 DEF Prepare, Tighten, Choose, SummarizeCached, Summarize, SummaryFails, NoRequestLeft, durable
  <2> QED BY <1>0, <2>1, AttemptStays
<1>2. CASE Route
  <2>1. pc = "route" /\ pc' \in {"send", "refused"} /\ UNCHANGED <<history, artifacts, retries>>
    BY <1>2 DEF Route, Refuse, durable
  <2> QED BY <1>0, <2>1, AttemptStays
<1>3. CASE Overflow \/ Stop \/ Interrupt
  <2>1. /\ UNCHANGED <<history, artifacts>>
        /\ pc' = "idle" \/ (pc = "send" /\ retries' = retries + 1)
    BY <1>3 DEF Overflow, Stop, Interrupt, End, durable
  <2> QED BY <1>0, <2>1, AttemptStays
<1>4. CASE Answer \/ Call \/ Ask \/ Hear
  <2>1. UNCHANGED artifacts /\ From(history', 0) /\ Len(history) < Len(history') BY <1>4, SpeechGrows
  <2>2. PICK m \in Nat : m = Len(history) BY DEF CInv, HistoryOK
  <2>3. PICK l \in Nat : l = Len(history') BY <2>1 DEF From
  <2>4. ASSUME NEW a \in DOMAIN artifacts
        PROVE  artifacts[a].config[3] \in Nat /\ Len(artifacts[a].source) # l
    <3>1. PICK k \in Nat : k = Len(artifacts[a].source) BY DEF CInv, ArtifactsOK, From
    <3>2. k <= m BY <2>2, <3>1 DEF CInv, ArtifactsOK
    <3>3. m < l BY <2>1, <2>2, <2>3
    <3> QED BY <2>2, <2>3, <3>1, <3>2, <3>3 DEF AttemptsOK
  <2> QED BY <2>1, <2>3, <2>4 DEF AttemptsOK
<1>5. CASE Record
  <2>1. SameArtifact = 0 /\ pc = "record" BY <1>5, NothingSame DEF Record
  <2>2. PICK A : A = Artifact OBVIOUS
  <2>3. A.config[3] = retries BY <2>2 DEF Artifact, Config
  <2>4. PICK as : as = artifacts' OBVIOUS
  <2>5. as = Append(artifacts, A) BY <1>5, <2>1, <2>2, <2>4 DEF Record
  <2>6. UNCHANGED <<history, retries>> /\ pc' \in {"broken", "refused", "route"}
    BY <1>5 DEF Record, Refuse
  <2>7. PICK S : S = Range(artifacts) /\ artifacts \in Seq(S) BY DEF CInv, ArtifactsOK
  <2>8. PICK n \in Nat : n = Len(artifacts) /\ DOMAIN artifacts = 1 .. n BY <2>7
  <2>9. DOMAIN as = 1 .. n + 1 /\ as[n + 1] = A /\ \A a \in 1 .. n : as[a] = artifacts[a]
    BY <2>5, <2>7, <2>8
  <2>10. ASSUME NEW a \in 1 .. n + 1, NEW c, c = as[a].config[3]
         PROVE  c \in Nat /\ (Len(as[a].source) = Len(history) => c < retries + 1)
    <3>1. CASE a = n + 1
      <4>1. c = retries BY <2>3, <2>9, <2>10, <3>1
      <4>2. retries \in Nat /\ retries < retries + 1 BY ONLY <1>0
      <4> QED BY <4>1, <4>2
    <3>2. CASE a # n + 1
      <4>1. a \in 1 .. n BY <2>8, <3>2
      <4>2. as[a] = artifacts[a] /\ a \in DOMAIN artifacts BY <2>8, <2>9, <4>1
      <4>3. c \in Nat /\ (Len(artifacts[a].source) = Len(history) => c < retries + 0)
        BY <2>1, <2>10, <4>2 DEF AttemptsOK
      <4>4. c < retries + 0 => c < retries + 1 BY <1>0, <4>3
      <4> QED BY <4>2, <4>3, <4>4
    <3> QED BY <3>1, <3>2
  <2> QED BY <2>4, <2>6, <2>9, <2>10 DEF AttemptsOK
<1>6. CASE UNCHANGED contextVars
  <2>1. UNCHANGED <<history, artifacts, pc, retries>> BY <1>6 DEF contextVars, durable
  <2> QED BY <2>1 DEF AttemptsOK
<1> QED BY <1>1, <1>2, <1>3, <1>4, <1>5, <1>6 DEF ContextNext

\* A plan that fits, with the request it was made for, is within the target unless the
\* guidance has been added since.
LEMMA FittedWithin ==
    ASSUME CInv, SizesOK, pc = "record", NEW w, w.messages = plan.kept,
           w.summary = SummarySize(plan.summary), Total(w) > Max({1, Target - retries})
    PROVE  ~guided /\ Guidance > 0
<1>1. plan.kept \in Seq(Messages) /\ HistoryOK /\ NumbersOK /\ Fitting(plan) /\ Numbers(plan.summary)
  BY KeptTyped DEF CInv, SizesOK, PromiseOK
<1>2. PICK f \in Nat : f = SummarySize(plan.summary) BY <1>1, SummaryTyped
<1>3. f >= 2
  <2>1. Cardinality(plan.summary.excerpts) \in Nat /\ plan.summary.facts \in Nat
    BY <1>1, FS_CardinalityType DEF Numbers
  <2> QED BY <1>2, <2>1 DEF SummarySize, Mandatory
<1>4. PICK z \in Nat : z = Size(plan.kept) BY <1>1, SizeTyped
<1>5. PICK h \in Nat : h = Held(plan.kept) BY <1>1, SizeTyped
<1>6. PICK b \in Nat : b = Base BY <1>1, SystemTyped
<1>7. PICK g \in {0, 1} : g = Given /\ (g = 1 <=> guided) BY DEF Given
<1>8. PICK u \in {0, 1} : u = Guidance BY <1>1, SystemTyped
<1>9. PICK r \in Nat : r = retries BY <1>1 DEF NumbersOK
<1>10. PICK t \in Nat : t = Target BY LimitsTyped
<1>11. PICK room \in Nat : room = Room /\ room = IF 1 >= t - b - g - r THEN 1 ELSE t - b - g - r
  BY <1>1, <1>6, <1>7, <1>9, <1>10, RoomTyped
<1>12. f + z <= room - h BY <1>1, <1>2, <1>4, <1>5, <1>11 DEF Fitting
<1>13. room = t - b - g - r BY ONLY <1>3, <1>4, <1>5, <1>11, <1>12
<1>14. SystemSize = b + u BY <1>1, <1>6, <1>8, SystemTyped
<1>15. Total(w) = b + u + f + z + h BY <1>2, <1>4, <1>5, <1>14 DEF Total
<1>16. PICK m \in Int : m = Max({1, t - r}) /\ m >= t - r BY GreatestOfTwo
<1>17. b + u + f + z + h > m BY <1>9, <1>10, <1>15, <1>16
<1>18. u = 1 /\ g = 0 BY <1>12, <1>13, <1>16, <1>17
<1> QED BY <1>7, <1>8, <1>18

LEMMA RecordSizes ==
    ASSUME CInv, OrderOK, SizesOK, AttemptsOK, Record
    PROVE  SizesOK'
<1>1. pc = "record" /\ UNCHANGED <<history, retries, previous, requests, target, plan, guided>>
  BY DEF Record, work
<1>2. SameArtifact = 0 BY <1>1, NothingSame
<1>3. PICK A : A = Artifact OBVIOUS
<1>4. A.summary = plan.summary /\ A.evidence = plan.evidence BY <1>3 DEF Artifact
<1>5. PICK w : w = [messages |-> plan.kept, summary |-> SummarySize(plan.summary),
                    artifact |-> Len(artifacts) + 1, dropped |-> {}]
  OBVIOUS
<1>6. w.messages = plan.kept /\ w.summary = SummarySize(plan.summary) BY <1>5
<1>7. artifacts' = Append(artifacts, A) BY <1>2, <1>3 DEF Record
<1>8. \/ ~ValidOrder(plan.kept)
      \/ Total(w) > Max({1, Target - retries}) /\ pc' = "broken"
      \/ pc' = "refused" \/ (pc' = "route" /\ view' = w)
  <2>1. PICK z : z = Artifact.summary OBVIOUS
  <2>2. z = plan.summary BY <1>3, <1>4, <2>1
  <2> QED BY <1>2, <1>5, <2>1, <2>2 DEF Record, Refuse
<1>9. ValidOrder(plan.kept)
  <2>1. Alike(plan.source, history) /\ Divides(plan, plan.source, 0) BY <1>1 DEF CInv, PlanOK
  <2>2. PICK n \in Nat : n = Len(plan.source) BY <2>1 DEF Alike
  <2>3. PICK g \in 0 .. n - 1 : From(plan.kept, 0 + g) BY <2>1, <2>2 DEF Divides
  <2>4. 0 + g \in Nat BY <2>2
  <2>5. Grouped(plan.kept) BY <1>1 DEF OrderOK
  <2> QED BY <2>3, <2>4, <2>5, GroupedValid
<1>10. Counted(plan.evidence) /\ Numbers(plan.summary) BY <1>1 DEF SizesOK, PromiseOK
<1>11. \A a \in DOMAIN artifacts' : Accounted(artifacts'[a])
  <2>1. PICK S : S = Range(artifacts) /\ artifacts \in Seq(S) BY DEF CInv, ArtifactsOK
  <2>2. PICK as : as = artifacts' OBVIOUS
  <2>3. as = Append(artifacts, A) BY <1>7, <2>2
  <2>4. PICK n \in Nat : n = Len(artifacts) /\ DOMAIN artifacts = 1 .. n BY <2>1
  <2>5. DOMAIN as = 1 .. n + 1 /\ as[n + 1] = A /\ \A a \in 1 .. n : as[a] = artifacts[a]
    BY <2>1, <2>3, <2>4
  <2>6. Accounted(A) BY <1>4, <1>10 DEF Accounted
  <2>7. \A a \in 1 .. n + 1 : a = n + 1 \/ a \in 1 .. n BY <2>4
  <2>8. \A a \in 1 .. n : Accounted(as[a]) BY <2>4, <2>5 DEF SizesOK
  <2> QED BY <2>2, <2>5, <2>6, <2>7, <2>8
<1>12. ASSUME NEW a \in DOMAIN artifacts' PROVE Accounted(artifacts[a])'
  BY <1>11 DEF Accounted
<1>13. NumbersOK' BY <1>1 DEF SizesOK, NumbersOK
<1>14. pc' \in {"broken", "refused", "route"} BY DEF Record, Refuse
<1>15. PromiseOK' BY <1>14 DEF PromiseOK
<1>16. pc' = "route" => view'.summary \in Int
  <2>1. w.summary \in Nat BY <1>6, <1>10, SummaryTyped
  <2> QED BY <1>8, <1>9, <2>1
<1>17. pc' = "broken" => ValidOrder(plan.kept)' /\ ~guided' /\ Guidance' > 0
  <2>1. pc' = "broken" => ~guided /\ Guidance > 0 BY <1>1, <1>6, <1>8, <1>9, FittedWithin
  <2>2. Guidance' = Guidance BY <1>1 DEF Guidance
  <2>3. PICK ks : ks = plan.kept OBVIOUS
  <2>4. ks = plan'.kept /\ ValidOrder(ks) BY <1>1, <1>9, <2>3
  <2> QED BY <1>1, <2>1, <2>2, <2>4
<1> QED BY <1>12, <1>13, <1>15, <1>16, <1>17 DEF SizesOK

LEMMA RestSizes ==
    ASSUME CInv, SizesOK, Route \/ Answer \/ Call \/ Overflow \/ Stop \/ Interrupt \/ Ask \/ Hear
    PROVE  SizesOK'
<1>1. UNCHANGED artifacts /\ pc' \in {"send", "refused", "idle", "ready"}
  BY DEF Route, Refuse, Answer, Call, Overflow, Stop, Interrupt, Ask, Hear, End, durable
<1>2. retries \in Nat /\ previous \in Int /\ target \in Int BY ONLY SizesOK DEF SizesOK, NumbersOK
<1>3. retries' \in {retries, retries + 1, 0} /\ target' \in {target, 0}
  BY DEF Route, Answer, Call, Overflow, Stop, Interrupt, Ask, Hear, End, Forget, work
<1>4. previous' \in Int
  <2>1. CASE Route
    <3>1. pc = "route" /\ previous' = Total(view) BY <2>1 DEF Route
    <3>2. PICK w : w = view OBVIOUS
    <3>3. Covers(w) /\ w.summary \in Int BY <3>1, <3>2 DEF CInv, ViewOK, SizesOK
    <3>4. w.messages \in Seq(Messages) BY <3>3 DEF Covers, From
    <3>5. HistoryOK BY DEF CInv
    <3> QED BY ONLY <3>1, <3>2, <3>3, <3>4, <3>5, TotalTyped
  <2>2. CASE ~Route
    <3>1. previous' \in {previous, 0}
      BY <2>2 DEF Answer, Call, Overflow, Stop, Interrupt, Ask, Hear, End
    <3> QED BY <1>2, <3>1
  <2> QED BY <2>1, <2>2
<1>5. NumbersOK' BY <1>2, <1>3, <1>4 DEF NumbersOK
<1> QED BY ONLY SizesOK, <1>1, <1>5, SizesStay

LEMMA NextSizes ==
    ASSUME Version = 2, CInv, EvidenceOK, OrderOK, SizesOK, AttemptsOK, [ContextNext]_contextVars
    PROVE  SizesOK'
<1>1. CASE Prepare BY <1>1, PrepareSizes
<1>2. CASE Tighten BY <1>2, TightenSizes
<1>3. CASE Choose BY <1>3, ChooseSizes
<1>4. CASE SummarizeCached \/ Summarize \/ SummaryFails \/ NoRequestLeft BY <1>4, SummarySizes
<1>5. CASE Record BY <1>5, RecordSizes
<1>6. CASE Route \/ Answer \/ Call \/ Overflow \/ Stop \/ Interrupt \/ Ask \/ Hear BY <1>6, RestSizes
<1>7. CASE UNCHANGED contextVars
  <2>1. UNCHANGED <<history, artifacts, pc, retries, previous, requests>>
        /\ UNCHANGED <<target, plan, parent, chunks, chosen, guided, view>>
    BY <1>7 DEF contextVars, durable, work
  <2>2. NumbersOK' BY <2>1 DEF SizesOK, NumbersOK
  <2>3. Room' = Room /\ Guidance' = Guidance
    <3>1. Base' = Base /\ Given' = Given BY <2>1 DEF Base, Given, Instructions
    <3> QED BY <2>1, <3>1 DEF Room, Guidance
  <2>4. PromiseOK' BY <2>1, <2>3 DEF SizesOK, PromiseOK, Made, Fitting, Transcript
  <2>5. \A a \in DOMAIN artifacts : Accounted(artifacts[a]) BY DEF SizesOK
  <2>6. ASSUME NEW a \in DOMAIN artifacts' PROVE Accounted(artifacts[a])'
    BY <2>1, <2>5 DEF Accounted
  <2>7. ValidOrder(plan.kept)' <=> ValidOrder(plan.kept)
    <3>1. PICK ks : ks = plan.kept OBVIOUS
    <3>2. ks = plan'.kept BY <2>1, <3>1
    <3> QED BY <3>1, <3>2
  <2> QED BY <2>1, <2>2, <2>3, <2>4, <2>6, <2>7 DEF SizesOK
<1> QED BY <1>1, <1>2, <1>3, <1>4, <1>5, <1>6, <1>7 DEF ContextNext

\* For all limits, and every sequence of tightenings, summaries of the model, artifacts
\* and overflows: a compaction keeps a call with its results, and what it records meets
\* the target; unless the summarizer has spent the run down to its last requests, and the
\* guidance was added to a request that was fitted without it
\* (_prepare_provider_request, refresh_budget_guidance and compact_messages).
THEOREM CompactionHolds ==
    ASSUME Version = 2
    PROVE  ContextSpec => []OnlyGuidanceBreaks
<1> DEFINE Inv == CInv /\ EvidenceOK /\ OrderOK /\ SizesOK /\ AttemptsOK
<1>1. ContextInit => Inv BY InitCInv, InitEvidence, InitOrder, InitSizes, InitAttempts
<1>2. Inv /\ [ContextNext]_contextVars => Inv'
  <2> SUFFICES ASSUME CInv, EvidenceOK, OrderOK, SizesOK, AttemptsOK, [ContextNext]_contextVars
               PROVE  CInv' /\ EvidenceOK' /\ OrderOK' /\ SizesOK' /\ AttemptsOK'
    OBVIOUS
  <2>1. CInv' BY NextCInv
  <2>2. EvidenceOK' BY NextEvidence
  <2>3. OrderOK' BY NextOrder
  <2>4. SizesOK' BY NextSizes
  <2>5. AttemptsOK' BY <2>4, NextAttempts
  <2> QED BY <2>1, <2>2, <2>3, <2>4, <2>5
<1>3. Inv => OnlyGuidanceBreaks BY DEF SizesOK, OnlyGuidanceBreaks
<1> HIDE DEF Inv
<1> QED BY <1>1, <1>2, <1>3, PTL DEF ContextSpec
=============================================================================
