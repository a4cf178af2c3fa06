------------------------ MODULE CredentialRefreshProofs ------------------------
(***************************************************************************)
(* What CredentialRefresh promises of refresh tokens, for any number of     *)
(* requests and processes, and any number of cancellations, failures,       *)
(* deaths and logins.  IInv is the inductive invariant of the lock file,    *)
(* the exchange and auth.json; RInv adds what requests remember.            *)
(***************************************************************************)
EXTENDS CredentialRefresh, SequenceTheorems, TLAPS

Known(c) == c.login \in 1 .. Len(newest)
Posting(t) == thread[t] \in {"send", "answered", "rejected"}
Owning(t) == Posting(t) \/ thread[t] \in {"made", "drop"}
Answer(t) == thread[t] = "answered"

\* Where the thread of a request can be, given where the request is.
Phases ==
    \A t \in Tasks :
        /\ task[t].pc = "post" <=> Posting(t)
        /\ thread[t] \in {"made", "late"} => task[t].pc = "lock"
        /\ thread[t] \in {"try", "break"} => task[t].pc \in {"lock", "ended"}
        /\ thread[t] = "drop" => task[t].pc \in {"unlock", "ended"}

\* The lock file is that of whoever relies on it.
Locks == ~raced => \A t \in Tasks : Owning(t) => lock = t

\* What may still be exchanged is known to the service, and not ahead of it.
Held(c) == Known(c) /\ c.turn <= newest[c.login]
Holdings ==
    /\ Held(disk)
    /\ \A c \in adrift : Held(c) /\ c \in cut
    /\ \A t \in Tasks : Posting(t) => Held(task[t].current)

\* An answer is the newest, and nobody else has it.
Answers ==
    \A t \in Tasks : Answer(t) =>
        LET c == task[t].reply IN
        /\ c = Credentials(task[t].current.login, task[t].current.turn + 1)
        /\ Accepted(c) /\ c # disk /\ c \notin adrift
        /\ \A u \in Tasks : Posting(u) => c # task[u].current
        /\ \A u \in Tasks : Answer(u) /\ u # t => c # task[u].reply

\* What is about to be exchanged has not been spent.
Unspent ==
    ~raced => \A t \in Tasks : thread[t] = "send" => Accepted(task[t].current) \/ task[t].current \in cut

IInv == TypeOK /\ Phases /\ Locks /\ Holdings /\ Answers /\ FileUsable /\ Unspent /\ SpentOnce


-----------------------------------------------------------------------------
(* Steps that exchange and store nothing                                    *)

\* Exchanges may end in such a step; those that the service may have answered are cut off.
CalmStep ==
    /\ UNCHANGED <<disk, newest, twice>> /\ (raced => raced') /\ cut \subseteq cut'
    /\ \A c \in adrift' : c \in adrift \/ (c \in cut' /\ \E u \in Tasks : thread[u] = "send" /\ c = task[u].current)
    /\ \A t \in Tasks :
        /\ thread'[t] \in {"send", "answered", "rejected"} => thread'[t] = thread[t] /\ task'[t] = task[t]
        /\ thread[t] = "answered" => (thread'[t] = "answered" /\ task'[t] = task[t]) \/ task[t].current \in cut'

\* They keep what is known of tokens.
LEMMA Calm == IInv /\ CalmStep => Holdings' /\ Answers' /\ FileUsable' /\ Unspent' /\ SpentOnce'
<1> SUFFICES ASSUME IInv, CalmStep
             PROVE  Holdings' /\ Answers' /\ FileUsable' /\ Unspent' /\ SpentOnce'
  OBVIOUS
<1> USE DEF Posting, Answer, Held, Known, Accepted, CalmStep
<1>1. Holdings'
  BY DEF IInv, Holdings
<1>2. Answers'
  BY DEF IInv, Answers, Credentials
<1>3. FileUsable'
  BY DEF IInv, FileUsable, At
<1>4. Unspent'
  BY DEF IInv, Unspent
<1>5. SpentOnce'
  BY DEF IInv, SpentOnce
<1> QED  BY <1>1, <1>2, <1>3, <1>4, <1>5

\* Steps about the lock file: they touch no exchange.
LEMMA LockStep ==
    ASSUME IInv, NEW t \in Tasks, Create(t) \/ SeeStale(t) \/ BreakLock(t) \/ TimeOut(t)
    PROVE  IInv'
<1> USE DEF Thread, Ended
<1>1. TypeOK'
  BY DEF IInv, TypeOK, ThreadStates, Create, SeeStale, BreakLock, TimeOut, Unlink, AtWork, service, lockFile, bounds
<1>2. Phases'
  BY DEF IInv, TypeOK, Phases, Posting, Create, SeeStale, BreakLock, TimeOut
<1>3. Locks'
  <2> USE DEF IInv, TypeOK, Locks, Owning, Posting
  <2>1. CASE Create(t)
    BY <2>1, CredentialAssumption DEF Create
  <2>2. CASE SeeStale(t) \/ TimeOut(t)
    BY <2>2 DEF SeeStale, TimeOut, lockFile
  <2>3. CASE BreakLock(t)
    <3>1. lock \in Tasks /\ Owning(lock) => AtWork(lock)
      BY CredentialAssumption DEF Phases, AtWork
    <3> QED  BY <2>3, <3>1 DEF BreakLock, Unlink
  <2> QED  BY <2>1, <2>2, <2>3
<1>4. CalmStep
  <2>1. UNCHANGED <<disk, newest, twice, cut, adrift, task>> /\ (raced => raced')
    BY DEF IInv, TypeOK, Create, SeeStale, BreakLock, TimeOut, Unlink, service, lockFile
  <2>2. thread[t] \in {"try", "break"} /\ \E s \in {"none", "made", "break", "try", "late"} : thread' = [thread EXCEPT ![t] = s]
    BY DEF Create, SeeStale, BreakLock, TimeOut
  <2> QED  BY <2>1, <2>2 DEF CalmStep, IInv, TypeOK
<1> QED  BY <1>1, <1>2, <1>3, <1>4, Calm DEF IInv


\* The records that requests are reset to.
LEMMA Records ==
    ASSUME NEW c \in Credential, NEW r \in Credential, NEW a \in 1 .. 2
    PROVE  /\ NoCredentials \in Credential /\ [Idle EXCEPT !.pc = "ended"] \in Request
           /\ [Idle EXCEPT !.pc = "queue", !.attempt = a, !.refused = r] \in Request
           /\ [Idle EXCEPT !.pc = "send", !.attempt = a, !.refused = r, !.used = c] \in Request
           /\ [Idle EXCEPT !.pc = "unlock", !.attempt = a, !.refused = r, !.used = c] \in Request
<1> USE DEF Idle, Request, Credential, NoCredentials, Credentials
<1>1. NoCredentials \in Credential /\ [Idle EXCEPT !.pc = "ended"] \in Request
  OBVIOUS
<1>2. [Idle EXCEPT !.pc = "queue", !.attempt = a, !.refused = r] \in Request
  OBVIOUS
<1>3. [Idle EXCEPT !.pc = "send", !.attempt = a, !.refused = r, !.used = c] \in Request
  OBVIOUS
<1>4. [Idle EXCEPT !.pc = "unlock", !.attempt = a, !.refused = r, !.used = c] \in Request
  OBVIOUS
<1> QED  BY <1>1, <1>2, <1>3, <1>4

\* The request of a step is the only one that changes.
Becomes(t, pcs) == \E q \in Request : q.pc \in pcs /\ task' = [task EXCEPT ![t] = q]

\* What that says of all requests.
LEMMA Becoming ==
    ASSUME TypeOK, NEW t \in Tasks, NEW pcs, Becomes(t, pcs)
    PROVE  /\ task' \in [Tasks -> Request] /\ task'[t].pc \in pcs
           /\ \A u \in Tasks \ {t} : task'[u] = task[u]
  BY DEF TypeOK, Becomes

\* A request that ends.
LEMMA Ending ==
    ASSUME TypeOK, NEW t \in Tasks, End(t)
    PROVE  Becomes(t, {"ended"})
<1>1. NoCredentials \in Credential /\ 1 \in 1 .. 2
  BY DEF NoCredentials, Credentials, Credential
<1>2. [Idle EXCEPT !.pc = "ended"] \in Request
  BY <1>1, Records
<1>3. [Idle EXCEPT !.pc = "ended"].pc = "ended"
  BY DEF Idle
<1> QED  BY <1>2, <1>3 DEF End, Becomes

\* A request that loads its credentials (ensure_valid).
LEMMA Ensuring ==
    ASSUME TypeOK, NEW t \in Tasks, NEW a \in 1 .. 2, NEW r \in Credential, Ensured(t, a, r)
    PROVE  Becomes(t, {"queue", "send"}) /\ cache' \in [Processes -> Credential]
<1>1. PICK c \in Credential : c = Loaded(ProcessOf[t], a > 1)
  BY CredentialAssumption DEF TypeOK, Loaded
<1>2. PICK q \in Request : /\ q = [Idle EXCEPT !.pc = "queue", !.attempt = a, !.refused = r]
                           /\ q.pc = "queue"
  BY <1>1, Records DEF Idle
<1>3. PICK s \in Request : /\ s = [Idle EXCEPT !.pc = "send", !.attempt = a, !.refused = r, !.used = c]
                           /\ s.pc = "send"
  BY <1>1, Records DEF Idle
<1>4. task' = [task EXCEPT ![t] = q] \/ task' = [task EXCEPT ![t] = s]
  BY <1>1, <1>2, <1>3 DEF Ensured
<1>5. cache' = [cache EXCEPT ![ProcessOf[t]] = c]
  BY <1>1 DEF Ensured
<1> QED  BY <1>1, <1>2, <1>3, <1>4, <1>5 DEF Becomes, TypeOK

\* A request that leaves refresh (its finally clause).
LEMMA Releasing ==
    ASSUME TypeOK, NEW t \in Tasks, NEW c \in Credential, Release(t, c)
    PROVE  Becomes(t, {"unlock"})
<1>1. task[t].attempt \in 1 .. 2 /\ task[t].refused \in Credential
  BY DEF TypeOK, Request
<1>2. PICK q \in Request : /\ q = [Idle EXCEPT !.pc = "unlock", !.attempt = task[t].attempt,
                                              !.refused = task[t].refused, !.used = c]
                           /\ q.pc = "unlock"
  BY <1>1, Records DEF Idle
<1> QED  BY <1>2 DEF Release, Becomes

\* Steps of a request that is not in an exchange.
LEMMA RequestStep ==
    ASSUME IInv, NEW t \in Tasks, Start(t) \/ TakeLock(t) \/ LockedLate(t) \/ Answered(t) \/ Refused(t)
    PROVE  IInv'
<1>1. TypeOK /\ ProcessOf[t] \in Processes /\ NoCredentials \in Credential
  BY CredentialAssumption DEF IInv, NoCredentials, Credentials, Credential
<1>2. /\ Becomes(t, {"queue", "lock", "send", "ended"}) /\ cache' \in [Processes -> Credential]
      /\ task[t].pc = "queue" => task'[t].pc = "lock"
  <2>1. CASE Start(t)
    BY <1>1, <2>1, Ensuring DEF Start, At, Becomes
  <2>2. CASE TakeLock(t)
    <3>1. [task[t] EXCEPT !.pc = "lock", !.initial = cache[ProcessOf[t]]] \in Request
      BY <1>1 DEF TypeOK, Request
    <3>2. [task[t] EXCEPT !.pc = "lock", !.initial = cache[ProcessOf[t]]].pc = "lock"
      BY <1>1 DEF TypeOK, Request
    <3>3. task' = [task EXCEPT ![t] = [task[t] EXCEPT !.pc = "lock", !.initial = cache[ProcessOf[t]]]]
      BY <1>1, <2>2 DEF TakeLock, TypeOK
    <3> QED  BY <1>1, <2>2, <3>1, <3>2, <3>3 DEF Becomes, TakeLock, TypeOK
  <2>3. CASE LockedLate(t) \/ Answered(t)
    BY <1>1, <2>3, Ending DEF LockedLate, Answered, At, Becomes, TypeOK
  <2>4. CASE Refused(t)
    <3>1. task[t].used \in Credential
      BY <1>1 DEF TypeOK, Request
    <3> QED  BY <1>1, <2>4, <3>1, Ending, Ensuring DEF Refused, Retried, At, Becomes, TypeOK
  <2> QED  BY <2>1, <2>2, <2>3, <2>4
<1>3. UNCHANGED <<disk, newest, twice, cut, adrift, lock, raced, near, stale>>
  BY DEF Start, TakeLock, LockedLate, Answered, Refused, service, lockFile
<1>4. \/ task[t].pc \in {"idle", "send"} /\ thread' = thread
      \/ task[t].pc = "queue" /\ thread' = [thread EXCEPT ![t] = "try"]
      \/ thread[t] = "late" /\ thread' = [thread EXCEPT ![t] = "none"]
  BY DEF Start, TakeLock, LockedLate, Answered, Refused, At, Thread
<1>5. /\ task' \in [Tasks -> Request] /\ task'[t].pc \in {"queue", "lock", "send", "ended"}
      /\ \A u \in Tasks \ {t} : task'[u] = task[u]
  BY <1>1, <1>2, Becoming
<1>6. TypeOK'
  <2>1. inside' \in [Processes -> Tasks \cup {None}] /\ troubles' \in Nat /\ refusals' \in Nat
    BY <1>1 DEF TypeOK, Leave, Start, TakeLock, LockedLate, Answered, Refused, bounds
  <2> QED  BY <1>1, <1>2, <1>3, <1>4, <1>5, <2>1 DEF TypeOK, ThreadStates
<1>7. Phases'
  BY <1>1, <1>2, <1>4, <1>5 DEF IInv, TypeOK, Phases, Posting
<1>8. Locks'
  BY <1>3, <1>4 DEF IInv, TypeOK, Phases, Locks, Owning, Posting
<1>9. CalmStep
  BY <1>3, <1>4, <1>5 DEF CalmStep, IInv, TypeOK, Phases, Posting
<1> QED  BY <1>6, <1>7, <1>8, <1>9, Calm DEF IInv

\* Steps that give the lock file back, or only what was exchanged.
LEMMA ReleaseStep ==
    ASSUME IInv, NEW t \in Tasks, Drop(t) \/ Rejected(t) \/ PersistFails(t) \/ Cancel(t)
    PROVE  IInv'
<1>1. TypeOK /\ NoCredentials \in Credential /\ task[t].current \in Credential
  BY DEF IInv, TypeOK, Request, NoCredentials, Credentials, Credential
<1>2. /\ \/ Becomes(t, {"unlock"}) /\ task[t].pc = "post" /\ thread' = [thread EXCEPT ![t] = "drop"]
         \/ /\ Becomes(t, {"send", "ended"}) \/ (task' = task /\ task[t].pc # "unlock")
            /\ thread[t] = "drop" /\ thread' = [thread EXCEPT ![t] = "none"]
         \/ /\ Becomes(t, {"ended"}) /\ task[t].pc # "post"
            /\ \/ thread[t] \in {"try", "break", "drop"} /\ thread' = thread
               \/ thread' = [thread EXCEPT ![t] = "none"]
      /\ inside' \in [Processes -> Tasks \cup {None}]
  <2>1. CASE Drop(t)
    <3>1. ASSUME task' = [task EXCEPT ![t].pc = "send"]
          PROVE  Becomes(t, {"send", "ended"})
      <4>1. [task[t] EXCEPT !.pc = "send"] \in Request /\ [task[t] EXCEPT !.pc = "send"].pc = "send"
        BY <1>1 DEF TypeOK, Request
      <4> QED  BY <1>1, <3>1, <4>1 DEF Becomes, TypeOK
    <3>2. End(t) => Becomes(t, {"send", "ended"})
      BY <1>1, Ending DEF Becomes
    <3>3. inside' \in [Processes -> Tasks \cup {None}]
      BY <1>1, <2>1 DEF Drop, Proceed, Leave, TypeOK
    <3> QED  BY <2>1, <3>1, <3>2, <3>3 DEF Drop, Proceed, At, Thread
  <2>2. CASE Rejected(t) \/ PersistFails(t)
    BY <1>1, <2>2, Releasing DEF Rejected, PersistFails, Release, Thread, At, TypeOK
  <2>3. CASE Cancel(t) /\ At(t, "post")
    BY <1>1, <2>3, Releasing DEF Cancel, Release, Thread, At, TypeOK
  <2>4. CASE Cancel(t) /\ ~At(t, "post")
    <3>1. inside' \in [Processes -> Tasks \cup {None}]
      BY <1>1, <2>4 DEF Cancel, Leave, TypeOK
    <3> QED  BY <1>1, <2>4, <3>1, Ending DEF Cancel, Thread, At
  <2> QED  BY <2>1, <2>2, <2>3, <2>4
<1>3. /\ UNCHANGED <<disk, newest, twice, near, cache>>
      /\ cut \subseteq cut' /\ cut' \subseteq cut \cup {task[t].current}
      /\ adrift \subseteq adrift' /\ adrift' \subseteq adrift \cup {task[t].current}
      /\ adrift' # adrift => thread[t] = "send" /\ task[t].current \in cut'
      /\ thread[t] = "answered" => task[t].current \in cut'
  <2>1. CASE Drop(t)
    BY <2>1 DEF Drop, service
  <2>2. CASE Rejected(t) \/ PersistFails(t)
    BY <2>2 DEF Rejected, PersistFails, service
  <2>3. CASE Cancel(t)
    BY <2>3 DEF Cancel, At, IInv, Phases, Posting
  <2> QED  BY <2>1, <2>2, <2>3
<1>4. /\ raced => raced'
      /\ \/ UNCHANGED <<lock, raced>>
         \/ thread[t] = "drop" /\ lock' = None /\ thread' = [thread EXCEPT ![t] = "none"]
      /\ lock' \in Tasks \cup {None} /\ stale' \in BOOLEAN /\ raced' \in BOOLEAN
      /\ troubles' \in Nat /\ refusals' \in Nat
  <2>1. CASE Drop(t)
    BY <1>1, <2>1 DEF Drop, Unlink, AtWork, Thread, TypeOK, bounds
  <2>2. CASE Rejected(t) \/ PersistFails(t)
    BY <1>1, <2>2 DEF Rejected, PersistFails, Trouble, lockFile, bounds, TypeOK
  <2>3. CASE Cancel(t)
    BY <1>1, <2>3 DEF Cancel, Trouble, lockFile, TypeOK
  <2> QED  BY <2>1, <2>2, <2>3
<1>5. /\ task' \in [Tasks -> Request]
      /\ \A u \in Tasks \ {t} : task'[u] = task[u]
      /\ \/ task'[t].pc = "unlock" /\ task[t].pc = "post" /\ thread' = [thread EXCEPT ![t] = "drop"]
         \/ /\ task'[t].pc \in {"send", "ended"} \/ task'[t] = task[t]
            /\ thread[t] = "drop" /\ thread' = [thread EXCEPT ![t] = "none"]
         \/ /\ task'[t].pc = "ended" /\ task[t].pc # "post"
            /\ \/ thread[t] \in {"try", "break", "drop"} /\ thread' = thread
               \/ thread' = [thread EXCEPT ![t] = "none"]
  BY <1>1, <1>2, Becoming DEF TypeOK
<1>6. TypeOK'
  BY <1>1, <1>2, <1>3, <1>4, <1>5 DEF TypeOK, ThreadStates
<1>7. Phases'
  BY <1>1, <1>5 DEF IInv, TypeOK, Phases, Posting
<1>8. Locks'
  <2>1. CASE thread[t] = "drop" /\ thread' = [thread EXCEPT ![t] = "none"]
    BY <1>1, <1>4, <2>1 DEF IInv, TypeOK, Locks, Owning, Posting
  <2>2. CASE UNCHANGED <<lock, raced>>
    BY <1>1, <1>4, <1>5, <2>2 DEF IInv, TypeOK, Phases, Locks, Owning, Posting
  <2> QED  BY <1>4, <2>1, <2>2
<1>9. CalmStep
  BY <1>1, <1>3, <1>4, <1>5 DEF CalmStep, IInv, TypeOK, Phases, Posting
<1> QED  BY <1>6, <1>7, <1>8, <1>9, Calm DEF IInv

\* A dead process takes its requests and their threads along, and not its lock file.
LEMMA CrashStep ==
    ASSUME IInv, NEW p \in Processes, Crash(p)
    PROVE  IInv'
<1> USE DEF At, Running
<1>1. TypeOK'
  <2>0. NoCredentials \in Credential /\ 1 \in 1 .. 2
    BY DEF NoCredentials, Credentials, Credential
  <2>1. TypeOK /\ [Idle EXCEPT !.pc = "ended"] \in Request
    BY <2>0, Records DEF IInv
  <2>2. /\ task' \in [Tasks -> Request] /\ thread' \in [Tasks -> ThreadStates]
        /\ cut' \subseteq Credential /\ adrift' \subseteq Credential
    BY <2>1 DEF Crash, TypeOK, Request, ThreadStates
  <2> QED  BY <2>1, <2>2 DEF TypeOK, Crash, Trouble, lockFile
<1>2. Phases'
  BY DEF IInv, TypeOK, Phases, Posting, Crash
<1>3. Locks'
  BY DEF IInv, TypeOK, Locks, Owning, Posting, Crash, lockFile
<1>4. CalmStep
  BY DEF CalmStep, IInv, TypeOK, Phases, Posting, Crash, lockFile
<1> QED  BY <1>1, <1>2, <1>3, <1>4, Calm DEF IInv

\* Time passes.
LEMMA TimeStep == IInv /\ (GrowOld \/ Age) => IInv'
<1> SUFFICES ASSUME IInv, GrowOld \/ Age
             PROVE  IInv'
  OBVIOUS
<1>1. TypeOK'
  BY DEF IInv, TypeOK, GrowOld, Age, service, lockFile, bounds
<1>2. UNCHANGED <<disk, newest, twice, cut, adrift, lock, raced, task, thread>>
  BY DEF GrowOld, Age, service, lockFile
<1>3. Phases' /\ Locks' /\ CalmStep
  BY <1>2 DEF IInv, Phases, Locks, Owning, Posting, CalmStep
<1> QED  BY <1>1, <1>3, Calm DEF IInv

-----------------------------------------------------------------------------
(* The exchange                                                             *)

\* What the service does with c: other credentials it accepts, it still accepts.
LEMMA Receiving ==
    ASSUME TypeOK, NEW c \in Credential, Held(c), Received(c)
    PROVE  /\ newest' \in Seq(Nat) /\ Len(newest') = Len(newest)
           /\ \A d \in Credential : Held(d) => Held(d)'
           /\ \A d \in Credential : Known(d) /\ Accepted(d) /\ d # c => Accepted(d)'
           /\ Accepted(c) => LET next == Credentials(c.login, c.turn + 1) IN
                /\ next \in Credential /\ Accepted(next)' /\ twice' = twice
                /\ \A d \in Credential : Held(d) => d # next
           /\ ~Accepted(c) => newest' = newest /\ twice' = twice \cup {c}
<1> USE DEF TypeOK, Received, Accepted, Held, Known, Credential, Credentials
<1>1. CASE Accepted(c)
  <2>1. newest' = [newest EXCEPT ![c.login] = c.turn + 1] /\ c.turn + 1 \in Nat
    BY <1>1
  <2>2. newest' \in Seq(Nat) /\ Len(newest') = Len(newest)
    BY <2>1, ExceptSeq
  <2>3. \A i \in 1 .. Len(newest) : newest'[i] = IF i = c.login THEN c.turn + 1 ELSE newest[i]
    BY SMTT(30), <2>1, ExceptSeq
  <2> QED  BY <1>1, <2>1, <2>2, <2>3
<1>2. CASE ~Accepted(c)
  BY <1>2
<1> QED  BY <1>1, <1>2

\* What an answer is.
LEMMA Answering ==
    ASSUME IInv, NEW u \in Tasks, Answer(u)
    PROVE  /\ task[u].reply \in Credential /\ Held(task[u].reply) /\ Accepted(task[u].reply)
           /\ task[u].reply # disk /\ task[u].reply \notin adrift
           /\ \A v \in Tasks : Posting(v) => task[u].reply # task[v].current
<1>1. /\ task[u].reply = Credentials(task[u].current.login, task[u].current.turn + 1)
      /\ Accepted(task[u].reply) /\ Held(task[u].current) /\ task[u].reply \in Credential
  BY DEF IInv, TypeOK, Request, Answers, Answer, Holdings, Posting
<1>2. Held(task[u].reply)
  BY <1>1 DEF IInv, TypeOK, Held, Known, Accepted, Credentials, Credential
<1> QED  BY <1>1, <1>2 DEF IInv, Answers

\* The service answers.
LEMMA ExchangeStep ==
    ASSUME IInv, NEW t \in Tasks, Exchange(t)
    PROVE  IInv'
<1> DEFINE c == task[t].current
           next == Credentials(c.login, c.turn + 1)
<1>1. /\ TypeOK /\ thread[t] = "send" /\ task[t].pc = "post" /\ Received(c) /\ Held(c)
      /\ c \in Credential /\ NoCredentials \in Credential /\ task[t] \in Request
      /\ UNCHANGED <<disk, cut, adrift, lock, raced>>
  BY DEF IInv, TypeOK, Phases, Holdings, Posting, Request, Exchange, lockFile, NoCredentials, Credentials, Credential
<1>2. PICK r \in Credential : /\ task' = [task EXCEPT ![t].reply = r]
                              /\ r = IF Accepted(c) THEN next ELSE NoCredentials
  BY <1>1, Receiving DEF Exchange
<1>3. thread' = [thread EXCEPT ![t] = IF Accepted(c) THEN "answered" ELSE "rejected"]
  BY DEF Exchange, Thread
<1>4. /\ task' \in [Tasks -> Request] /\ task'[t].pc = "post" /\ task'[t].current = c /\ task'[t].reply = r
      /\ \A u \in Tasks \ {t} : task'[u] = task[u] /\ thread'[u] = thread[u]
      /\ thread' \in [Tasks -> ThreadStates]
      /\ thread'[t] = IF Accepted(c) THEN "answered" ELSE "rejected"
  BY <1>1, <1>2, <1>3 DEF TypeOK, Request, ThreadStates
<1>5. TypeOK'
  BY <1>1, <1>4, Receiving DEF TypeOK, Exchange, lockFile, bounds
<1>6. Phases'
  BY <1>1, <1>4 DEF IInv, Phases, Posting
<1>7. Locks'
  BY <1>1, <1>4 DEF IInv, Locks, Owning, Posting
<1>8. Holdings'
  BY <1>1, <1>4, Receiving DEF IInv, TypeOK, Request, Holdings, Posting
<1>9. Answers'
  <2>1. ASSUME NEW u \in Tasks, Answer(u)
        PROVE  /\ u # t /\ task[u].reply \in Credential /\ Held(task[u].reply) /\ task[u].reply # c
               /\ Accepted(task[u].reply)'
    <3>1. u # t /\ task[u].reply # c
      BY <1>1, <2>1, Answering DEF Answer, Posting
    <3>2. Known(task[u].reply) /\ Accepted(task[u].reply) /\ task[u].reply \in Credential
      BY <2>1, Answering DEF Held
    <3> HIDE DEF c
    <3>3. \A d \in Credential : Known(d) /\ Accepted(d) /\ d # c => Accepted(d)'
      BY <1>1, Receiving
    <3> QED  BY <1>4, <2>1, <3>1, <3>2, <3>3, Answering DEF Accepted
  <2>2. ASSUME NEW u \in Tasks, Posting(u)
        PROVE  task[u].current \in Credential /\ Held(task[u].current)
    BY <2>2 DEF IInv, TypeOK, Request, Holdings
  <2>3. disk \in Credential /\ Held(disk) /\ \A d \in adrift : d \in Credential /\ Held(d)
    BY DEF IInv, TypeOK, Holdings
  <2>4. CASE Accepted(c)
    <3>1. (\A d \in Credential : Held(d) => d # next) /\ newest'[next.login] = next.turn
      BY <1>1, <2>4, Receiving DEF Accepted
    <3> QED  BY SMTT(30), <1>1, <1>2, <1>4, <2>1, <2>2, <2>3, <2>4, <3>1 DEF IInv, Answers, Answer, Posting, Accepted
  <2>5. CASE ~Accepted(c)
    BY <1>1, <1>4, <2>1, <2>5 DEF IInv, Answers, Answer, Posting
  <2> QED  BY <2>4, <2>5
<1>10. FileUsable'
  <2>1. CASE disk = c
    BY <1>1, <1>4, <2>1, Receiving DEF IInv, FileUsable, At, Holdings
  <2>2. CASE disk # c
    BY <1>1, <1>4, <2>2, Receiving DEF IInv, TypeOK, FileUsable, At, Holdings, Held
  <2> QED  BY <2>1, <2>2
<1>11. Unspent'
  BY <1>1, <1>4 DEF IInv, Locks, Owning, Posting, Unspent
<1>12. SpentOnce'
  BY <1>1, Receiving DEF IInv, Unspent, SpentOnce
<1> QED  BY <1>5, <1>6, <1>7, <1>8, <1>9, <1>10, <1>11, <1>12 DEF IInv


\* The connection fails: the service may have answered, and then the exchange is cut off.
LEMMA ExchangeFailsStep ==
    ASSUME IInv, NEW t \in Tasks, ExchangeFails(t)
    PROVE  IInv'
<1> DEFINE c == task[t].current
<1>1. /\ TypeOK /\ thread[t] = "send" /\ task[t].pc = "post" /\ Held(c) /\ c \in Credential
      /\ UNCHANGED <<disk, adrift, lock, raced, task>> /\ cut \subseteq cut'
      /\ thread' = [thread EXCEPT ![t] = "rejected"]
  BY DEF IInv, TypeOK, Phases, Holdings, Posting, Request, ExchangeFails, Thread, service, lockFile
<1>2. \/ UNCHANGED <<newest, twice, cut>>
      \/ Received(c) /\ cut' = IF Accepted(c) THEN cut \cup {c} ELSE cut
  BY DEF ExchangeFails, service
<1>3. TypeOK'
  <2>1. newest' \in Seq(Nat) /\ twice' \subseteq Credential /\ cut' \subseteq Credential
    BY <1>1, <1>2, Receiving DEF TypeOK
  <2> QED  BY <1>1, <2>1 DEF TypeOK, ThreadStates, ExchangeFails, Trouble, lockFile
<1>4. Phases' /\ Locks'
  BY <1>1 DEF IInv, TypeOK, Phases, Locks, Owning, Posting
<1>5. \A d \in Credential : (Held(d) => Held(d)') /\ (Held(d) /\ Accepted(d) /\ d # c => Accepted(d)')
  BY <1>1, <1>2, Receiving DEF Held, Known, Accepted
<1>6. Holdings'
  BY <1>1, <1>5 DEF IInv, TypeOK, Request, Holdings, Posting
<1>7. Answers'
  <2>1. ASSUME NEW u \in Tasks, Answer(u)
        PROVE  /\ u # t /\ task[u].reply \in Credential /\ Held(task[u].reply) /\ task[u].reply # c
               /\ Accepted(task[u].reply)'
    <3>1. u # t /\ task[u].reply # c
      BY <1>1, <2>1, Answering DEF Answer, Posting
    <3> QED  BY <1>1, <1>5, <2>1, <3>1, Answering DEF Accepted
  <2> QED  BY <1>1, <2>1 DEF IInv, TypeOK, Answers, Answer, Posting
<1>8. FileUsable'
  <2>1. Accepted(disk) => Accepted(disk)' \/ disk \in cut'
    BY <1>1, <1>2, <1>5 DEF IInv, TypeOK, Holdings, Accepted
  <2> QED  BY <1>1, <2>1 DEF IInv, TypeOK, FileUsable, At
<1>9. Unspent'
  BY <1>1 DEF IInv, TypeOK, Locks, Owning, Posting, Unspent
<1>10. SpentOnce'
  BY <1>1, <1>2, Receiving DEF IInv, Unspent, SpentOnce
<1> QED  BY <1>3, <1>4, <1>6, <1>7, <1>8, <1>9, <1>10 DEF IInv

\* An exchange that nobody waits for was cut off before.
LEMMA LateStep == IInv /\ LateExchange => IInv'
<1> SUFFICES ASSUME IInv, LateExchange
             PROVE  IInv'
  OBVIOUS
<1>1. PICK c \in adrift : /\ adrift' = adrift \ {c} /\ (UNCHANGED <<newest, twice>> \/ Received(c))
                          /\ UNCHANGED <<disk, cut, near, cache, inside, lock, stale, raced, task, thread, troubles, refusals>>
  BY DEF LateExchange, lockFile, bounds
<1>2. TypeOK /\ c \in Credential /\ Held(c) /\ c \in cut
  BY DEF IInv, TypeOK, Holdings
<1>3. TypeOK'
  <2>1. newest' \in Seq(Nat) /\ twice' \subseteq Credential
    BY <1>1, <1>2, Receiving DEF TypeOK
  <2> QED  BY <1>1, <1>2, <2>1 DEF TypeOK
<1>4. Phases' /\ Locks'
  BY <1>1 DEF IInv, Phases, Locks, Owning, Posting
<1>5. \A d \in Credential : (Held(d) => Held(d)') /\ (Held(d) /\ Accepted(d) /\ d # c => Accepted(d)')
  BY <1>1, <1>2, Receiving DEF Held, Known, Accepted
<1>6. Holdings'
  BY <1>1, <1>2, <1>5 DEF IInv, TypeOK, Request, Holdings, Posting
<1>7. Answers'
  <2>1. ASSUME NEW u \in Tasks, Answer(u)
        PROVE  task[u].reply # c /\ Accepted(task[u].reply)'
    BY <1>1, <1>2, <1>5, <2>1, Answering DEF Accepted
  <2> QED  BY <1>1, <2>1 DEF IInv, Answers, Answer, Posting
<1>8. FileUsable'
  <2>1. Accepted(disk) => Accepted(disk)' \/ disk \in cut'
    BY <1>1, <1>2, <1>5 DEF IInv, TypeOK, Holdings, Accepted
  <2> QED  BY <1>1, <2>1 DEF IInv, FileUsable, At
<1>9. Unspent'
  BY <1>1, <1>2, <1>5 DEF IInv, TypeOK, Request, Holdings, Posting, Unspent
<1>10. SpentOnce'
  BY <1>1, <1>2, Receiving DEF IInv, SpentOnce
<1> QED  BY <1>3, <1>4, <1>6, <1>7, <1>8, <1>9, <1>10 DEF IInv


\* The owner of the lock file uses what it finds in auth.json, or sends it off.
LEMMA LockedStep ==
    ASSUME IInv, NEW t \in Tasks, Locked(t)
    PROVE  IInv'
<1>1. /\ TypeOK /\ task[t].pc = "lock" /\ thread[t] = "made" /\ disk \in Credential
      /\ UNCHANGED <<disk, newest, twice, cut, near, inside, lock, stale, raced, adrift, troubles, refusals>>
      /\ cache' \in [Processes -> Credential]
  BY CredentialAssumption DEF IInv, TypeOK, Locked, Current, At, service, lockFile, bounds
<1>2. CASE Refreshed(t)
  <2>1. Becomes(t, {"unlock"}) /\ thread' = [thread EXCEPT ![t] = "drop"]
    BY <1>1, <1>2, Releasing DEF Locked, Current, Release, Thread
  <2>2. /\ task' \in [Tasks -> Request] /\ task'[t].pc = "unlock"
        /\ \A u \in Tasks \ {t} : task'[u] = task[u]
    BY <1>1, <2>1, Becoming
  <2>3. TypeOK'
    BY <1>1, <2>1, <2>2 DEF TypeOK, ThreadStates
  <2>4. Phases' /\ Locks'
    BY <1>1, <2>1, <2>2 DEF IInv, TypeOK, Phases, Locks, Owning, Posting
  <2>5. CalmStep
    BY <1>1, <2>1, <2>2 DEF CalmStep, IInv, TypeOK
  <2> QED  BY <2>3, <2>4, <2>5, Calm DEF IInv
<1>3. CASE ~Refreshed(t)
  <2>1. [task[t] EXCEPT !.pc = "post", !.current = disk] \in Request
    <3>1. task[t] \in Request
      BY <1>1 DEF TypeOK
    <3> QED  BY <1>1, <3>1 DEF Request
  <2>2. task' = [task EXCEPT ![t] = [task[t] EXCEPT !.pc = "post", !.current = disk]]
    BY <1>1, <1>3 DEF Locked, Current, TypeOK
  <2>3. /\ task' \in [Tasks -> Request] /\ task'[t].pc = "post" /\ task'[t].current = disk
        /\ \A u \in Tasks \ {t} : task'[u] = task[u]
    BY <1>1, <2>1, <2>2 DEF TypeOK, Request
  <2>4. thread' = [thread EXCEPT ![t] = "send"]
    BY <1>3 DEF Locked, Thread
  <2>5. TypeOK'
    BY <1>1, <2>3, <2>4 DEF TypeOK, ThreadStates
  <2>6. Phases' /\ Locks'
    BY <1>1, <2>3, <2>4 DEF IInv, TypeOK, Phases, Locks, Owning, Posting
  <2>7. Holdings'
    BY <1>1, <2>3, <2>4 DEF IInv, TypeOK, Holdings, Posting, Held, Known
  <2>8. Answers'
    BY <1>1, <2>3, <2>4 DEF IInv, TypeOK, Answers, Answer, Posting, Accepted
  <2>9. FileUsable'
    BY <1>1, <2>3, <2>4 DEF IInv, TypeOK, FileUsable, At, Accepted
  <2>10. Unspent'
    <3>1. ~raced => Accepted(disk) \/ disk \in cut
      BY <1>1 DEF IInv, Locks, Owning, Posting, FileUsable
    <3> QED  BY <1>1, <2>3, <2>4, <3>1 DEF IInv, TypeOK, Unspent, Accepted
  <2>11. SpentOnce'
    BY <1>1 DEF IInv, SpentOnce
  <2> QED  BY <2>5, <2>6, <2>7, <2>8, <2>9, <2>10, <2>11 DEF IInv
<1> QED  BY <1>2, <1>3

\* The answer is stored: it is the newest, and nobody else's.
LEMMA PersistStep ==
    ASSUME IInv, NEW t \in Tasks, Persist(t)
    PROVE  IInv'
<1>1. /\ TypeOK /\ task[t].pc = "post" /\ Answer(t) /\ disk' = task[t].reply
      /\ UNCHANGED <<newest, twice, cut, near, inside, lock, stale, raced, adrift, troubles, refusals>>
  BY DEF IInv, Persist, Rotated, At, Answer, service, lockFile, bounds
<1>2. disk' \in Credential /\ Held(disk') /\ Accepted(disk') /\ cache' \in [Processes -> Credential]
  BY <1>1, Answering, CredentialAssumption DEF Persist, Rotated, TypeOK
<1>3. Becomes(t, {"unlock"}) /\ thread' = [thread EXCEPT ![t] = "drop"]
  BY <1>1, <1>2, Releasing DEF Persist, Rotated, Release, Thread
<1>4. /\ task' \in [Tasks -> Request] /\ task'[t].pc = "unlock"
      /\ \A u \in Tasks \ {t} : task'[u] = task[u]
  BY <1>1, <1>3, Becoming
<1>5. TypeOK'
  BY <1>1, <1>2, <1>3, <1>4 DEF TypeOK, ThreadStates
<1>6. Phases' /\ Locks'
  BY <1>1, <1>3, <1>4 DEF IInv, TypeOK, Phases, Locks, Owning, Posting, Answer
<1>7. Holdings'
  BY <1>1, <1>2, <1>3, <1>4 DEF IInv, TypeOK, Holdings, Posting, Held, Known
<1>8. Answers'
  BY <1>1, <1>3, <1>4 DEF IInv, TypeOK, Answers, Answer, Posting, Accepted
<1>9. FileUsable'
  BY <1>1, <1>2 DEF FileUsable, Accepted
<1>10. Unspent' /\ SpentOnce'
  BY <1>1, <1>3, <1>4 DEF IInv, TypeOK, Unspent, SpentOnce, Accepted
<1> QED  BY <1>5, <1>6, <1>7, <1>8, <1>9, <1>10 DEF IInv

\* A login brings credentials that nobody knew.
LEMMA LoginStep == IInv /\ Login => IInv'
<1> SUFFICES ASSUME IInv, Login
             PROVE  IInv'
  OBVIOUS
<1>1. /\ newest' = Append(newest, 1) /\ disk' = Credentials(Len(newest'), 1) /\ TypeOK
      /\ UNCHANGED <<twice, cut, near, cache, inside, lock, stale, raced, task, thread, adrift>>
  BY DEF IInv, Login, lockFile
<1>2. /\ newest' \in Seq(Nat) /\ Len(newest') = Len(newest) + 1 /\ newest'[Len(newest) + 1] = 1
      /\ \A i \in 1 .. Len(newest) : newest'[i] = newest[i]
  BY <1>1, AppendProperties DEF TypeOK
<1>3. disk' \in Credential /\ Held(disk)' /\ Accepted(disk)' /\ ~Known(disk')
  BY <1>1, <1>2 DEF Credentials, Credential, Held, Known, Accepted, TypeOK
<1>4. \A d \in Credential : Held(d) => newest'[d.login] = newest[d.login] /\ d.login \in 1 .. Len(newest')
  BY <1>1, <1>2 DEF Held, Known, TypeOK
<1>5. TypeOK'
  BY <1>1, <1>2, <1>3 DEF TypeOK, Login, Trouble
<1>6. Phases' /\ Locks'
  BY <1>1 DEF IInv, Phases, Locks, Owning, Posting
<1>7. Holdings'
  BY <1>1, <1>3, <1>4 DEF IInv, TypeOK, Request, Holdings, Posting, Held, Known
<1>8. Answers'
  <2>1. ASSUME NEW u \in Tasks, Answer(u)
        PROVE  task[u].reply # disk' /\ newest'[task[u].reply.login] = task[u].reply.turn
    BY <1>3, <1>4, <2>1, Answering DEF Held, Accepted
  <2> QED  BY <1>1, <2>1 DEF IInv, Answers, Answer, Posting, Accepted
<1>9. FileUsable'
  BY <1>3 DEF FileUsable
<1>10. Unspent' /\ SpentOnce'
  BY <1>1, <1>4 DEF IInv, TypeOK, Request, Holdings, Posting, Unspent, SpentOnce, Accepted
<1> QED  BY <1>5, <1>6, <1>7, <1>8, <1>9, <1>10 DEF IInv

-----------------------------------------------------------------------------
(* The theorems                                                             *)

\* The first state: one login, and nobody at work.
LEMMA Initially == Init => IInv
<1> SUFFICES ASSUME Init
             PROVE  IInv
  OBVIOUS
<1>1. Idle \in Request
  BY DEF Idle, Request, NoCredentials, Credentials, Credential
<1>2. newest \in Seq(Nat) /\ Len(newest) = 1 /\ newest[1] = 1
  BY DEF Init
<1>3. TypeOK
  BY <1>1, <1>2 DEF Init, TypeOK, ThreadStates, NoCredentials, Credentials, Credential
<1>4. task = [t \in Tasks |-> Idle] /\ Idle.pc = "idle"
  BY DEF Init, Idle
<1>5. \A t \in Tasks : thread[t] = "none" /\ task[t].pc = "idle"
  BY <1>4 DEF Init
<1>6. Accepted(disk) /\ Held(disk)
  BY <1>2 DEF Init, Accepted, Held, Known, Credentials
<1>7. Phases /\ Locks /\ Answers /\ Unspent
  BY <1>5 DEF Phases, Posting, Locks, Owning, Answers, Answer, Unspent
<1>8. Holdings /\ FileUsable /\ SpentOnce
  BY <1>5, <1>6 DEF Init, Holdings, Posting, FileUsable, SpentOnce
<1> QED  BY <1>3, <1>7, <1>8 DEF IInv

\* No step breaks the invariant.
LEMMA Step == IInv /\ [Next]_vars => IInv'
<1> SUFFICES ASSUME IInv, [Next]_vars
             PROVE  IInv'
  OBVIOUS
<1>1. CASE UNCHANGED vars
  BY <1>1 DEF vars, service, lockFile, bounds, IInv, TypeOK, Phases, Locks, Holdings, Answers, FileUsable, Unspent,
              SpentOnce, Posting, Owning, Answer, Held, Known, Accepted, At
<1>2. ASSUME NEW t \in Tasks, Advance(t)
      PROVE  IInv'
  BY <1>2, LockStep, RequestStep, LockedStep, ExchangeStep, PersistStep, ReleaseStep DEF Advance
<1>3. ASSUME NEW t \in Tasks, Start(t) \/ ExchangeFails(t) \/ PersistFails(t) \/ Refused(t) \/ Cancel(t)
      PROVE  IInv'
  BY <1>3, RequestStep, ExchangeFailsStep, ReleaseStep
<1>4. ASSUME NEW p \in Processes, Crash(p)
      PROVE  IInv'
  BY <1>4, CrashStep
<1>5. CASE LateExchange \/ GrowOld \/ Login \/ Age
  BY <1>5, LateStep, TimeStep, LoginStep
<1> QED  BY <1>1, <1>2, <1>3, <1>4, <1>5 DEF Next, Rest

\* Hence it always holds.
LEMMA Inductive == Spec => []IInv
  BY Initially, Step, PTL DEF Spec

\* Every variable has its type (the state of auth/chatgpt.py, its files and its threads).
THEOREM CredentialTypes == Spec => []TypeOK
  BY Inductive, PTL DEF IInv

\* No refresh token is exchanged twice, unless its exchange was cut off or a lock file was
\* removed under its owner: refresh loads the file again under its lock.
THEOREM TokensSpentOnce == Spec => []SpentOnce
  BY Inductive, PTL DEF IInv

\* Whatever happens to the lock file, auth.json holds credentials that can be refreshed, or
\* that a task is about to replace, or whose exchange was cut off.
THEOREM FileStaysUsable == Spec => []FileUsable
  BY Inductive, PTL DEF IInv

-----------------------------------------------------------------------------
(* The retry                                                                *)

\* Credentials that some process or request remembers.
Kept ==
    {cache[p] : p \in Processes} \cup {task[t].used : t \in Tasks} \cup {task[t].refused : t \in Tasks}

\* An answer is nothing that was seen before.
Copies ==
    \A c \in Kept : c # NoCredentials => Held(c) /\ \A t \in Tasks : Answer(t) => c # task[t].reply

\* What a refused request remembers, so that it can tell a refresh by others from none.
Retry(t) ==
    task[t].refused # NoCredentials =>
        /\ task[t].attempt = 2
        /\ task[t].pc = "queue" /\ task[t].refused = disk => cache[ProcessOf[t]] = disk
        /\ task[t].pc = "lock" /\ task[t].refused = disk => task[t].initial = disk
        /\ task[t].pc \in {"unlock", "send"} => task[t].used # task[t].refused

RInv == IInv /\ Copies /\ \A t \in Tasks : Retry(t)

\* Nothing old is ever stored or answered, and what is remembered was stored.
Remembers ==
    /\ \A d \in Credential : Held(d) => Held(d)'
    /\ \A u \in Tasks : thread'[u] = "answered" =>
          (Answer(u) /\ task'[u].reply = task[u].reply) \/ ~Held(task'[u].reply)
    /\ \A p \in Processes : cache'[p] \in {cache[p], disk'}
    /\ disk' = disk \/ disk' \notin Kept
    /\ \A u \in Tasks :
          /\ task'[u].used \in {task[u].used, NoCredentials, disk', cache'[ProcessOf[u]]}
          /\ task'[u].refused \in {task[u].refused, task[u].used, NoCredentials}

\* Such steps keep what an answer is.
LEMMA Remembering == RInv /\ IInv' /\ Remembers => Copies'
<1> SUFFICES ASSUME RInv, IInv', Remembers, NEW c \in Kept', c # NoCredentials
             PROVE  Held(c)' /\ \A t \in Tasks : thread'[t] = "answered" => c # task'[t].reply
  BY DEF Copies, Answer
<1>1. \A d \in Kept : d \in Credential
  BY DEF RInv, IInv, TypeOK, Request, Kept
<1>2. c \in Kept \/ c = disk'
  BY CredentialAssumption DEF Remembers, Kept
<1>3. CASE c \in Kept
  BY <1>1, <1>3 DEF RInv, Copies, Remembers
<1>4. CASE c = disk'
  BY <1>4 DEF IInv, Holdings, Held, Known, Answers, Answer
<1> QED  BY <1>2, <1>3, <1>4

\* A request that takes no part in a step.
LEMMA Unaffected ==
    ASSUME RInv, Remembers, NEW u \in Tasks, task'[u] = task[u]
    PROVE  Retry(u)'
<1>1. task[u].refused \in Kept /\ ProcessOf[u] \in Processes
  BY CredentialAssumption DEF Kept
<1> QED  BY <1>1 DEF RInv, Retry, Remembers

\* Only t takes part in the step.
LEMMA OneRetry ==
    ASSUME RInv, IInv', Remembers, NEW t \in Tasks, \A u \in Tasks \ {t} : task'[u] = task[u], Retry(t)'
    PROVE  RInv'
  BY Remembering, Unaffected DEF RInv

\* Only the lock file, its threads or the clock take part.
LEMMA QuietRetry ==
    ASSUME RInv, IInv', UNCHANGED <<disk, newest, cache, task>>,
           \A u \in Tasks : thread'[u] = "answered" => thread[u] = "answered"
    PROVE  RInv'
<1>1. Remembers
  BY DEF Remembers, Held, Known, Answer
<1> QED  BY <1>1, Remembering, Unaffected DEF RInv

\* Steps about the lock file touch no request.
LEMMA LockRetry ==
    ASSUME RInv, IInv', NEW t \in Tasks, Create(t) \/ SeeStale(t) \/ BreakLock(t) \/ TimeOut(t)
    PROVE  RInv'
<1>1. UNCHANGED <<disk, newest, cache, task>>
  BY DEF Create, SeeStale, BreakLock, TimeOut, service
<1>2. \A u \in Tasks : thread'[u] = "answered" => thread[u] = "answered"
  BY DEF Create, SeeStale, BreakLock, TimeOut, Thread, RInv, IInv, TypeOK
<1> QED  BY <1>1, <1>2, QuietRetry

\* A refused request forces a load, so that its process holds what is in the file.
LEMMA RequestRetry ==
    ASSUME RInv, IInv', NEW t \in Tasks, Start(t) \/ TakeLock(t) \/ LockedLate(t) \/ Answered(t) \/ Refused(t)
    PROVE  RInv'
<1>1. UNCHANGED <<disk, newest>> /\ (\A u \in Tasks : thread'[u] = "answered" => thread[u] = "answered")
  BY DEF Start, TakeLock, LockedLate, Answered, Refused, Thread, service, RInv, IInv, TypeOK
<1>2. /\ \A u \in Tasks \ {t} : task'[u] = task[u]
      /\ task'[t].used \in {task[t].used, NoCredentials, cache'[ProcessOf[t]]}
      /\ task'[t].refused \in {task[t].refused, task[t].used, NoCredentials}
      /\ \A p \in Processes : cache'[p] \in {cache[p], disk}
      /\ task'[t].reply = task[t].reply \/ thread[t] # "answered"
      /\ Retry(t)'
  <2> USE CredentialAssumption DEF RInv, IInv, TypeOK, Phases, Posting, Retry, Idle, At
  <2>1. CASE Start(t)
    BY <2>1 DEF Start, Ensured, Loaded
  <2>2. CASE TakeLock(t)
    BY <2>2 DEF TakeLock, Request
  <2>3. CASE LockedLate(t) \/ Answered(t)
    BY <2>3 DEF LockedLate, Answered, End
  <2>4. CASE Refused(t)
    <3>1. task[t].pc = "send" /\ UNCHANGED <<disk, thread>> /\ thread[t] # "answered"
      BY <2>4 DEF Refused
    <3>2. CASE End(t) /\ UNCHANGED cache
      BY <3>1, <3>2 DEF End
    <3>3. CASE Retried(t)
      <4>1. /\ cache' = [cache EXCEPT ![ProcessOf[t]] = disk]
            /\ task' = [task EXCEPT ![t] = [Idle EXCEPT !.pc = "queue", !.attempt = 2, !.refused = task[t].used]]
        BY <3>3 DEF Retried, Ensured, Loaded
      <4>2. /\ task'[t].pc = "queue" /\ task'[t].attempt = 2 /\ task'[t].refused = task[t].used
            /\ task'[t].used = NoCredentials
        BY <4>1
      <4>3. cache'[ProcessOf[t]] = disk
        BY <4>1
      <4> QED  BY <3>1, <4>1, <4>2, <4>3
    <3> QED  BY <2>4, <3>2, <3>3 DEF Refused
  <2> QED  BY <2>1, <2>2, <2>3, <2>4
<1>3. Remembers
  BY <1>1, <1>2, CredentialAssumption DEF Remembers, Held, Known, Answer
<1> QED  BY <1>2, <1>3, OneRetry


\* What a request keeps when it leaves refresh.
LEMMA Released ==
    ASSUME TypeOK, NEW t \in Tasks, NEW c, Release(t, c)
    PROVE  /\ \A u \in Tasks \ {t} : task'[u] = task[u] /\ thread'[u] = thread[u]
           /\ task'[t].pc = "unlock" /\ task'[t].used = c /\ thread'[t] = "drop"
           /\ task'[t].refused = task[t].refused /\ task'[t].attempt = task[t].attempt
  BY DEF Release, Thread, Idle, TypeOK

\* A request that gives its exchange up is not sent again.
LEMMA ReleaseRetry ==
    ASSUME RInv, IInv', NEW t \in Tasks, Drop(t) \/ Rejected(t) \/ PersistFails(t) \/ Cancel(t)
    PROVE  RInv'
<1>1. UNCHANGED <<disk, newest, cache>>
  BY DEF Drop, Rejected, PersistFails, Cancel, service
<1>2. /\ \A u \in Tasks \ {t} : task'[u] = task[u] /\ thread'[u] = thread[u]
      /\ task'[t].used \in {task[t].used, NoCredentials}
      /\ task'[t].refused \in {task[t].refused, NoCredentials}
      /\ thread'[t] # "answered" /\ Retry(t)'
  <2>1. CASE Drop(t)
    BY <2>1 DEF Drop, Proceed, End, Thread, At, Idle, Request, RInv, IInv, TypeOK, Phases, Posting, Retry
  <2>2. CASE Release(t, NoCredentials)
    <3>1. TypeOK
      BY DEF RInv, IInv
    <3> QED  BY <1>1, <2>2, <3>1, Released DEF RInv, Retry
  <2>3. CASE Cancel(t) /\ ~At(t, "post")
    BY <2>3 DEF Cancel, End, Thread, At, Idle, RInv, IInv, TypeOK, Phases, Posting, Retry
  <2> QED  BY <2>1, <2>2, <2>3 DEF Rejected, PersistFails, Cancel
<1>3. Remembers
  BY <1>1, <1>2 DEF Remembers, Held, Known, Answer
<1> QED  BY <1>2, <1>3, OneRetry

\* The dead remember nothing.
LEMMA CrashRetry ==
    ASSUME RInv, IInv', NEW p \in Processes, Crash(p)
    PROVE  RInv'
<1>1. UNCHANGED <<disk, newest, cache>> /\ (\A u \in Tasks : thread'[u] = "answered" => thread[u] = "answered" /\ ProcessOf[u] # p)
  BY DEF Crash, RInv, IInv, TypeOK
<1>2. ASSUME NEW u \in Tasks
      PROVE  \/ task'[u] = task[u]
             \/ /\ ProcessOf[u] = p /\ task'[u].used = NoCredentials
                /\ task'[u].refused = NoCredentials
  BY DEF Crash, Idle
<1>3. Remembers
  BY <1>1, <1>2 DEF Remembers, Held, Known, Answer
<1>4. \A u \in Tasks : Retry(u)'
  BY <1>2, <1>3, Unaffected DEF Retry
<1> QED  BY <1>3, <1>4, Remembering DEF RInv

\* What it finds instead of what it had loaded is not what was refused.
LEMMA LockedRetry ==
    ASSUME RInv, IInv', NEW t \in Tasks, Locked(t)
    PROVE  RInv'
<1>1. UNCHANGED <<disk, newest>> /\ task[t].pc = "lock" /\ thread[t] = "made" /\ TypeOK
  BY DEF Locked, At, service, RInv, IInv
<1>2. /\ \A u \in Tasks \ {t} : task'[u] = task[u] /\ thread'[u] = thread[u]
      /\ thread'[t] # "answered" /\ task'[t].refused = task[t].refused
      /\ \/ task'[t].pc = "unlock" /\ task'[t].used = disk /\ Refreshed(t) /\ task'[t].attempt = task[t].attempt
         \/ task'[t].pc = "post" /\ task'[t].used = task[t].used /\ task'[t].attempt = task[t].attempt
      /\ \A p \in Processes : cache'[p] \in {cache[p], disk}
  <2>1. CASE Refreshed(t)
    BY <1>1, <2>1, Released DEF Locked, Current, TypeOK
  <2>2. CASE ~Refreshed(t)
    BY <1>1, <2>2 DEF Locked, Current, Thread, TypeOK, Request
  <2> QED  BY <2>1, <2>2
<1>3. Remembers
  BY <1>1, <1>2 DEF Remembers, Held, Known, Answer
<1>4. Retry(t)'
  BY <1>1, <1>2 DEF RInv, Retry, Refreshed, Current
<1> QED  BY <1>2, <1>3, <1>4, OneRetry

\* What is stored is new, and so not what was refused.
LEMMA PersistRetry ==
    ASSUME RInv, IInv', NEW t \in Tasks, Persist(t)
    PROVE  RInv'
<1>1. /\ TypeOK /\ Answer(t) /\ disk' = task[t].reply /\ newest' = newest
      /\ \A p \in Processes : cache'[p] \in {cache[p], disk'}
  BY DEF Persist, Rotated, Answer, service, RInv, IInv, TypeOK
<1>2. disk' \notin Kept /\ disk' # NoCredentials
  BY <1>1, Answering DEF RInv, Copies, Held, Known, NoCredentials, Credentials
<1>3. /\ \A u \in Tasks \ {t} : task'[u] = task[u] /\ thread'[u] = thread[u]
      /\ thread'[t] # "answered" /\ task'[t].refused = task[t].refused /\ task'[t].attempt = task[t].attempt
      /\ task'[t].pc = "unlock" /\ task'[t].used = disk'
  BY <1>1, Released DEF Persist, Rotated
<1>4. Remembers
  BY <1>1, <1>2, <1>3 DEF Remembers, Held, Known, Answer
<1>5. Retry(t)'
  BY <1>2, <1>3 DEF RInv, Retry, Kept
<1> QED  BY <1>3, <1>4, <1>5, OneRetry


\* An answer is new to everybody.
LEMMA ExchangeRetry ==
    ASSUME RInv, IInv', NEW t \in Tasks, Exchange(t)
    PROVE  RInv'
<1> DEFINE c == task[t].current
           next == Credentials(c.login, c.turn + 1)
<1>1. /\ TypeOK /\ thread[t] = "send" /\ task[t].pc = "post" /\ Received(c) /\ Held(c) /\ c \in Credential
      /\ UNCHANGED <<disk, cache>>
  BY DEF RInv, IInv, TypeOK, Phases, Holdings, Posting, Request, Exchange
<1>2. /\ \A u \in Tasks \ {t} : task'[u] = task[u] /\ thread'[u] = thread[u]
      /\ task'[t].refused = task[t].refused /\ task'[t].used = task[t].used /\ task'[t].pc = "post"
      /\ task'[t].attempt = task[t].attempt
      /\ thread'[t] = "answered" => Accepted(c) /\ task'[t].reply = next
  BY <1>1 DEF Exchange, Thread, TypeOK, Request
<1>3. /\ \A d \in Credential : Held(d) => Held(d)'
      /\ Accepted(c) => ~Held(next)
  BY <1>1, Receiving
<1>4. Remembers
  BY <1>1, <1>2, <1>3 DEF Remembers, Answer
<1>5. Retry(t)'
  BY <1>1, <1>2 DEF RInv, Retry
<1> QED  BY <1>2, <1>4, <1>5, OneRetry

\* An exchange whose answer is lost tells nobody anything.
LEMMA ReceivedRetry ==
    ASSUME RInv, IInv', UNCHANGED <<disk, cache, task>>, NEW c \in Credential, Held(c),
           newest' = newest \/ Received(c),
           \A u \in Tasks : thread'[u] = "answered" => thread[u] = "answered"
    PROVE  RInv'
<1>1. \A d \in Credential : Held(d) => Held(d)'
  BY Receiving DEF RInv, IInv, Held, Known
<1>2. Remembers
  BY <1>1 DEF Remembers, Answer
<1> QED  BY <1>2, Remembering, Unaffected DEF RInv

\* A login is new to everybody.
LEMMA LoginRetry == RInv /\ IInv' /\ Login => RInv'
<1> SUFFICES ASSUME RInv, IInv', Login
             PROVE  RInv'
  OBVIOUS
<1>1. /\ newest' = Append(newest, 1) /\ disk' = Credentials(Len(newest'), 1) /\ TypeOK
      /\ UNCHANGED <<cache, task, thread>>
  BY DEF Login, RInv, IInv
<1>2. /\ Len(newest') = Len(newest) + 1 /\ \A i \in 1 .. Len(newest) : newest'[i] = newest[i]
  BY <1>1, AppendProperties DEF TypeOK
<1>3. \A d \in Credential : Held(d) => Held(d)'
  BY <1>1, <1>2 DEF Held, Known, TypeOK
<1>4. ~Known(disk') /\ disk' # NoCredentials
  BY <1>1, <1>2 DEF Known, Credentials, NoCredentials, TypeOK
<1>5. disk' \notin Kept
  BY <1>4 DEF RInv, Copies, Held
<1>6. Remembers
  BY <1>1, <1>3, <1>5 DEF Remembers, Answer
<1> QED  BY <1>1, <1>6, Remembering, Unaffected DEF RInv

\* At first nothing was refused.
LEMMA RetryInitially == Init => RInv
<1> SUFFICES ASSUME Init
             PROVE  RInv
  OBVIOUS
<1>1. IInv
  BY Initially
<1>2. Kept \subseteq {NoCredentials} /\ \A t \in Tasks : task[t].refused = NoCredentials
  BY DEF Init, Kept, Idle
<1> QED  BY <1>1, <1>2 DEF RInv, Copies, Retry

\* No step breaks the invariant of the retries.
LEMMA RetryStep == RInv /\ [Next]_vars => RInv'
<1> SUFFICES ASSUME RInv, [Next]_vars
             PROVE  RInv'
  OBVIOUS
<1>1. IInv'
  BY Step DEF RInv
<1>2. CASE UNCHANGED vars
  BY <1>1, <1>2, QuietRetry DEF vars, service
<1>3. ASSUME NEW t \in Tasks, Advance(t)
      PROVE  RInv'
  BY <1>1, <1>3, LockRetry, RequestRetry, LockedRetry, ExchangeRetry, PersistRetry, ReleaseRetry DEF Advance
<1>4. ASSUME NEW t \in Tasks, Start(t) \/ PersistFails(t) \/ Refused(t) \/ Cancel(t)
      PROVE  RInv'
  BY <1>1, <1>4, RequestRetry, ReleaseRetry
<1>5. ASSUME NEW t \in Tasks, ExchangeFails(t)
      PROVE  RInv'
  <2>1. task[t].current \in Credential /\ Held(task[t].current) /\ (newest' = newest \/ Received(task[t].current))
    BY <1>5 DEF RInv, IInv, TypeOK, Request, Holdings, Posting, ExchangeFails, service
  <2>2. UNCHANGED <<disk, cache, task>> /\ \A u \in Tasks : thread'[u] = "answered" => thread[u] = "answered"
    BY <1>5 DEF ExchangeFails, Thread, RInv, IInv, TypeOK
  <2> QED  BY <1>1, <2>1, <2>2, ReceivedRetry
<1>6. ASSUME NEW p \in Processes, Crash(p)
      PROVE  RInv'
  BY <1>1, <1>6, CrashRetry
<1>7. CASE LateExchange
  <2>1. PICK c \in adrift : newest' = newest \/ Received(c)
    BY <1>7 DEF LateExchange
  <2>2. c \in Credential /\ Held(c) /\ UNCHANGED <<disk, cache, task, thread>>
    BY <1>7 DEF RInv, IInv, TypeOK, Holdings, LateExchange
  <2> QED  BY <1>1, <2>1, <2>2, ReceivedRetry
<1>8. CASE GrowOld \/ Age
  BY <1>1, <1>8, QuietRetry DEF GrowOld, Age, service
<1>9. CASE Login
  BY <1>1, <1>9, LoginRetry
<1> QED  BY <1>2, <1>3, <1>4, <1>5, <1>6, <1>7, <1>8, <1>9 DEF Next, Rest

\* A request that was refused is sent again with other credentials than those refused,
\* whatever the requests of this and of other processes did meanwhile.
THEOREM RetriesAreNewer == Spec => []RetryIsNewer
<1>1. RInv => RetryIsNewer
  BY DEF RInv, Retry, RetryIsNewer, At
<1> QED  BY <1>1, RetryInitially, RetryStep, PTL DEF Spec
=============================================================================
