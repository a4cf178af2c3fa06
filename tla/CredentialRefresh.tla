-------------------------- MODULE CredentialRefresh --------------------------
(***************************************************************************)
(* The ChatGPT credentials in auth.json, shared by the requests of several *)
(* processes: ensure_valid and refresh of auth/chatgpt.py, its lock file,  *)
(* and the stream of providers/chatgpt.py that retries a refused request   *)
(* once.  A refresh token is exchanged for the next one and is then spent. *)
(* Credentials are known by their login and by how often they were         *)
(* exchanged (turn); credentials without a refresh token are left out.     *)
(***************************************************************************)
EXTENDS Naturals, Sequences, FiniteSets

CONSTANTS
    Tasks, Processes,
    ProcessOf,      \* the process of each task; a task is one request
    None,
    Troubles,       \* what may come in between: "cancel", "failure", "death", "login"
    MaxTroubles,    \* bound: how often
    MaxRefusals, MaxAged    \* bounds: requests refused, credentials near their expiry

ASSUME CredentialAssumption ==
    /\ ProcessOf \in [Tasks -> Processes]
    /\ None \notin Tasks
    /\ {MaxTroubles, MaxRefusals, MaxAged} \subseteq Nat

VARIABLES
    disk,       \* auth.json
    newest,     \* of each login, the turn that the token service accepts
    near,       \* credentials within the refresh window before their expiry
    cache,      \* _credentials of each process
    inside,     \* the holder of _refresh_lock of each process
    lock,       \* the lock file: the task whose thread created it
    stale,      \* it is older than 120 seconds
    task, thread,   \* each request, and the thread that it awaits
    adrift,     \* what the threads of cancelled tasks still exchange
    twice,      \* history: credentials that were exchanged when they were spent already
    cut,        \* history: credentials whose exchange was cut off
    raced,      \* history: a lock file was removed while its owner was at work
    troubles, refusals

service == <<newest, twice, cut>>
lockFile == <<lock, stale, raced>>
bounds == <<troubles, refusals>>
vars == <<disk, service, near, cache, inside, lockFile, task, thread, adrift, bounds>>

Credentials(login, turn) == [login |-> login, turn |-> turn]
NoCredentials == Credentials(0, 0)
Idle == [pc |-> "idle", attempt |-> 1, initial |-> NoCredentials, current |-> NoCredentials,
         reply |-> NoCredentials, used |-> NoCredentials, refused |-> NoCredentials]

Ended(t) == task[t].pc = "ended"
Running(t) == task[t].pc \notin {"idle", "ended"}
End(t) == task' = [task EXCEPT ![t] = [Idle EXCEPT !.pc = "ended"]]
At(t, pc) == task[t].pc = pc
Thread(t, at) == thread' = [thread EXCEPT ![t] = at]

\* Mutant of Leave: the lock of the process is kept.
LeaveHeld(t) == UNCHANGED inside

Leave(t) == inside' = [p \in Processes |-> IF inside[p] = t THEN None ELSE inside[p]]

-----------------------------------------------------------------------------
(* ensure_valid, up to its first await                                      *)

Loaded(p, force) == IF force \/ cache[p] = NoCredentials THEN disk ELSE cache[p]

\* The task loads c: it asks for a refresh first, or sends its request with c.
Ensured(t, attempt, refused) ==
    LET p == ProcessOf[t]
        c == Loaded(p, attempt > 1) IN
    /\ cache' = [cache EXCEPT ![p] = c]
    /\ task' = [task EXCEPT ![t] =
         IF attempt > 1 \/ c \in near
         THEN [Idle EXCEPT !.pc = "queue", !.attempt = attempt, !.refused = refused]
         ELSE [Idle EXCEPT !.pc = "send", !.attempt = attempt, !.refused = refused, !.used = c]]

Start(t) ==
    /\ At(t, "idle") /\ Ensured(t, 1, NoCredentials)
    /\ UNCHANGED <<disk, service, near, inside, lockFile, thread, adrift, bounds>>

-----------------------------------------------------------------------------
(* refresh                                                                  *)

TakeLock(t) ==
    /\ At(t, "queue") /\ inside[ProcessOf[t]] = None
    /\ inside' = [inside EXCEPT ![ProcessOf[t]] = t]
    /\ task' = [task EXCEPT ![t].pc = "lock", ![t].initial = cache[ProcessOf[t]]]
    /\ Thread(t, "try")
    /\ UNCHANGED <<disk, service, near, cache, lockFile, adrift, bounds>>

\* _CredentialFileLock.acquire, in its thread: also when nobody waits for it any more.
Create(t) ==
    /\ thread[t] = "try" /\ lock = None
    /\ lock' = t /\ stale' = FALSE /\ Thread(t, IF Ended(t) THEN "none" ELSE "made")
    /\ UNCHANGED <<disk, service, near, cache, inside, raced, task, adrift, bounds>>

SeeStale(t) ==
    /\ thread[t] = "try" /\ lock # None /\ stale
    /\ Thread(t, "break")
    /\ UNCHANGED <<disk, service, near, cache, inside, lockFile, task, adrift, bounds>>

\* A lock file is removed by name, whosever it is by then.
AtWork(u) == u # None /\ (task[u].pc \in {"lock", "post"} \/ thread[u] = "drop")
Unlink(t) ==
    /\ lock' = None /\ stale' = FALSE
    /\ raced' = (raced \/ (lock # t /\ AtWork(lock)))

BreakLock(t) ==
    /\ thread[t] = "break"
    /\ Unlink(t) /\ Thread(t, "try")
    /\ UNCHANGED <<disk, service, near, cache, inside, task, adrift, bounds>>

TimeOut(t) ==
    /\ thread[t] = "try" /\ lock # None /\ ~stale
    /\ Thread(t, IF Ended(t) THEN "none" ELSE "late")
    /\ UNCHANGED <<disk, service, near, cache, inside, lockFile, task, adrift, bounds>>

\* Mutant of Current: what the task had loaded before it waited.
CurrentBefore(t) == task[t].initial

\* Under the lock: somebody else may have refreshed meanwhile.
Current(t) == disk
Refreshed(t) ==
    Current(t) \notin near /\ (task[t].attempt = 1 \/ Current(t) # task[t].initial)

\* The finally clause; the task goes on with c, or not at all.
Release(t, c) ==
    /\ task' = [task EXCEPT ![t] = [Idle EXCEPT !.pc = "unlock", !.attempt = task[t].attempt,
                                               !.refused = task[t].refused, !.used = c]]
    /\ Thread(t, "drop")

Proceed(t) ==
    /\ IF task[t].used = NoCredentials THEN End(t) ELSE task' = [task EXCEPT ![t].pc = "send"]
    /\ Leave(t)

Locked(t) ==
    /\ At(t, "lock") /\ thread[t] = "made"
    /\ cache' = [cache EXCEPT ![ProcessOf[t]] = Current(t)]
    /\ IF Refreshed(t)
       THEN Release(t, Current(t))
       ELSE task' = [task EXCEPT ![t].pc = "post", ![t].current = Current(t)] /\ Thread(t, "send")
    /\ UNCHANGED <<disk, service, near, inside, lockFile, adrift, bounds>>

LockedLate(t) ==
    /\ At(t, "lock") /\ thread[t] = "late"
    /\ End(t) /\ Leave(t) /\ Thread(t, "none")
    /\ UNCHANGED <<disk, service, near, cache, lockFile, adrift, bounds>>

\* The token service.
Accepted(c) == newest[c.login] = c.turn
Received(c) ==
    IF Accepted(c)
    THEN newest' = [newest EXCEPT ![c.login] = @ + 1] /\ UNCHANGED twice
    ELSE twice' = twice \cup {c} /\ UNCHANGED newest

Exchange(t) ==
    /\ thread[t] = "send"
    /\ LET c == task[t].current IN
        /\ Received(c) /\ UNCHANGED cut
        /\ Thread(t, IF Accepted(c) THEN "answered" ELSE "rejected")
        /\ task' = [task EXCEPT ![t].reply =
             IF Accepted(c) THEN Credentials(c.login, c.turn + 1) ELSE NoCredentials]
    /\ UNCHANGED <<disk, near, cache, inside, lockFile, adrift, bounds>>

Trouble(kind) == kind \in Troubles /\ troubles < MaxTroubles /\ troubles' = troubles + 1 /\ UNCHANGED refusals

\* The connection fails, before or after the service has answered.
ExchangeFails(t) ==
    /\ thread[t] = "send" /\ Trouble("failure")
    /\ \/ UNCHANGED service
       \/ /\ Received(task[t].current)
          /\ cut' = IF Accepted(task[t].current) THEN cut \cup {task[t].current} ELSE cut
    /\ Thread(t, "rejected")
    /\ UNCHANGED <<disk, near, cache, inside, lockFile, task, adrift>>

\* Mutant of Rotated: the access token is stored with the old refresh token.
RotatedHalf(t) == task[t].current

\* _persist_refreshed, and the load that follows it.
Rotated(t) == task[t].reply
Persist(t) ==
    /\ At(t, "post") /\ thread[t] = "answered"
    /\ disk' = Rotated(t) /\ cache' = [cache EXCEPT ![ProcessOf[t]] = Rotated(t)]
    /\ Release(t, Rotated(t))
    /\ UNCHANGED <<service, near, inside, lockFile, adrift, bounds>>

PersistFails(t) ==
    /\ At(t, "post") /\ thread[t] = "answered" /\ Trouble("failure")
    /\ cut' = cut \cup {task[t].current} /\ Release(t, NoCredentials)
    /\ UNCHANGED <<disk, newest, twice, near, cache, inside, lockFile, adrift>>

Rejected(t) ==
    /\ At(t, "post") /\ thread[t] = "rejected"
    /\ Release(t, NoCredentials)
    /\ UNCHANGED <<disk, service, near, cache, inside, lockFile, adrift, bounds>>

\* _CredentialFileLock.release, and what follows if somebody still waits for it.
Drop(t) ==
    /\ thread[t] = "drop"
    /\ Unlink(t) /\ Thread(t, "none")
    /\ IF At(t, "unlock") THEN Proceed(t) ELSE UNCHANGED <<task, inside>>
    /\ UNCHANGED <<disk, service, near, cache, adrift, bounds>>

-----------------------------------------------------------------------------
(* ChatGPTProvider.stream                                                   *)

Answered(t) ==
    /\ At(t, "send") /\ End(t)
    /\ UNCHANGED <<disk, service, near, cache, inside, lockFile, thread, adrift, bounds>>

\* Mutant of Retried: the retry goes on with what is cached.
RetriedCached(t) == Ensured(t, 1, task[t].used)

\* A refused request is sent again, once, unless some output was passed on.
Retried(t) == Ensured(t, 2, task[t].used)
Refused(t) ==
    /\ At(t, "send") /\ refusals < MaxRefusals /\ refusals' = refusals + 1
    /\ \/ task[t].attempt = 1 /\ Retried(t)
       \/ End(t) /\ UNCHANGED cache
    /\ UNCHANGED <<disk, service, near, inside, lockFile, thread, adrift, troubles>>

\* A cancellation: a thread that has begun goes on, one that has not may be withdrawn.
\* Out of the exchange, the lock file is removed nevertheless.
Cancel(t) ==
    /\ Running(t) /\ Trouble("cancel")
    /\ IF At(t, "post")
       THEN /\ Release(t, NoCredentials) /\ UNCHANGED inside
            /\ \/ thread[t] # "answered" /\ UNCHANGED <<adrift, cut>>
               \/ thread[t] = "answered" /\ cut' = cut \cup {task[t].current} /\ UNCHANGED adrift
               \/ /\ thread[t] = "send" /\ cut' = cut \cup {task[t].current}
                  /\ adrift' = adrift \cup {task[t].current}
       ELSE /\ End(t) /\ Leave(t) /\ UNCHANGED <<adrift, cut>>
            /\ \/ thread[t] \in {"try", "break", "drop"} /\ UNCHANGED thread
               \/ thread[t] # "break" /\ Thread(t, "none")
    /\ UNCHANGED <<disk, newest, twice, near, cache, lockFile>>

\* The exchange that a cancelled task has left to its thread; nobody reads the answer.
LateExchange ==
    \E c \in adrift :
        /\ adrift' = adrift \ {c}
        /\ UNCHANGED <<twice, newest>> \/ Received(c)
        /\ UNCHANGED <<disk, cut, near, cache, inside, lockFile, task, thread, bounds>>

-----------------------------------------------------------------------------
(* The world around                                                         *)

\* A process dies; its lock file remains, and a request that it has sent may arrive.
Crash(p) ==
    LET gone == {t \in Tasks : ProcessOf[t] = p /\ Running(t)}
        Caught(at) == {task[t].current : t \in {u \in gone : At(u, "post") /\ thread[u] \in at}} IN
    /\ Trouble("death") /\ gone # {}
    /\ cut' = cut \cup Caught({"send", "answered"}) /\ adrift' = adrift \cup Caught({"send"})
    /\ task' = [t \in Tasks |-> IF t \in gone THEN [Idle EXCEPT !.pc = "ended"] ELSE task[t]]
    /\ thread' = [t \in Tasks |-> IF ProcessOf[t] = p THEN "none" ELSE thread[t]]
    /\ inside' = [inside EXCEPT ![p] = None]
    /\ UNCHANGED <<disk, newest, twice, near, cache, lockFile>>

\* Nobody is going to remove the lock file, and two minutes pass.  An owner at work is
\* faster: its exchange times out after 30 seconds.
GrowOld ==
    /\ lock # None /\ ~stale /\ ~AtWork(lock)
    /\ stale' = TRUE
    /\ UNCHANGED <<disk, service, near, cache, inside, lock, raced, task, thread, adrift, bounds>>

\* `borealis auth login`: the Codex client replaces the file, without the lock.
Login ==
    /\ Trouble("login")
    /\ newest' = Append(newest, 1) /\ disk' = Credentials(Len(newest'), 1)
    /\ UNCHANGED <<twice, cut, near, cache, inside, lockFile, task, thread, adrift>>

Age ==
    /\ disk \notin near /\ Cardinality(near) < MaxAged
    /\ near' = near \cup {disk}
    /\ UNCHANGED <<disk, service, cache, inside, lockFile, task, thread, adrift, bounds>>

Init ==
    /\ disk = Credentials(1, 1) /\ newest = <<1>> /\ near = {}
    /\ cache = [p \in Processes |-> NoCredentials] /\ inside = [p \in Processes |-> None]
    /\ lock = None /\ stale = FALSE /\ raced = FALSE
    /\ task = [t \in Tasks |-> Idle] /\ thread = [t \in Tasks |-> "none"] /\ adrift = {}
    /\ twice = {} /\ cut = {}
    /\ troubles = 0 /\ refusals = 0

\* The types of the variables.
Credential == [login : Nat, turn : Nat]
Request == [pc : {"idle", "queue", "lock", "post", "unlock", "send", "ended"}, attempt : 1 .. 2,
            initial : Credential, current : Credential, reply : Credential, used : Credential, refused : Credential]
ThreadStates == {"none", "try", "break", "made", "late", "send", "answered", "rejected", "drop"}

TypeOK ==
    /\ disk \in Credential /\ newest \in Seq(Nat) /\ cache \in [Processes -> Credential]
    /\ near \subseteq Credential /\ adrift \subseteq Credential
    /\ twice \subseteq Credential /\ cut \subseteq Credential
    /\ inside \in [Processes -> Tasks \cup {None}] /\ lock \in Tasks \cup {None}
    /\ stale \in BOOLEAN /\ raced \in BOOLEAN
    /\ task \in [Tasks -> Request] /\ thread \in [Tasks -> ThreadStates]
    /\ troubles \in Nat /\ refusals \in Nat

Advance(t) ==
    \/ TakeLock(t) \/ Create(t) \/ SeeStale(t) \/ BreakLock(t) \/ TimeOut(t) \/ Locked(t) \/ LockedLate(t)
    \/ Exchange(t) \/ Persist(t) \/ Rejected(t) \/ Drop(t) \/ Answered(t)

Rest == (\A t \in Tasks : Ended(t)) /\ UNCHANGED vars

Next ==
    \/ \E t \in Tasks : Start(t) \/ Advance(t) \/ ExchangeFails(t) \/ PersistFails(t)
                        \/ Refused(t) \/ Cancel(t)
    \/ \E p \in Processes : Crash(p)
    \/ LateExchange \/ GrowOld \/ Login \/ Age \/ Rest

Spec == Init /\ [][Next]_vars

\* Threads end, requests and exchanges time out, and what is ready is scheduled.
FairSpec == Spec /\ \A t \in Tasks : WF_vars(Advance(t))

-----------------------------------------------------------------------------
(* Properties                                                               *)

\* No refresh token is exchanged twice, by any request of any process, before or after
\* it expired or was refused - unless its exchange was cut off, so that its successor is
\* unknown, or a lock file was removed under its owner.
SpentOnce ==
    raced \/ twice \subseteq cut

\* auth.json never falls behind: what it holds can still be exchanged, or its
\* successor is in the hands of a task that is about to store it - unless that exchange
\* was cut off.  A removed lock file is no excuse.
FileUsable ==
    \/ Accepted(disk) \/ disk \in cut
    \/ \E t \in Tasks : At(t, "post") /\ thread[t] = "answered" /\ task[t].current = disk

\* A request that was refused is sent again with other credentials, whoever has
\* refreshed, logged in or used the cache in between.
RetryIsNewer ==
    \A t \in Tasks : At(t, "send") /\ task[t].refused # NoCredentials => task[t].used # task[t].refused

\* Every request ends, whoever dies or is cancelled with a lock in its hands.
RequestEnds == \A t \in Tasks : Running(t) ~> Ended(t)

\* "token rotation is persisted atomically under a cross-process credential lock"
\* (docs/PROVIDERS.md:54): when nobody is at work, the last rotation is in the file.
RotationPersisted ==
    lock = None /\ adrift = {} /\ (\A t \in Tasks : thread[t] = "none") => Accepted(disk)

\* "refreshes near-expiry tokens under an in-process and cross-process lock"
\* (docs/SECURITY_MODEL.md:191): one at a time.
RefreshExclusive ==
    \A t, u \in Tasks : At(t, "post") /\ At(u, "post") => t = u

\* A new login stays in the file: no refresh of the old one is written over it.
LoginStays == [][disk'.login >= disk.login]_vars

\* A refresh after a refusal exchanges what was refused.
RefusalRefreshesOnce ==
    \A t \in Tasks : At(t, "post") /\ task[t].attempt = 2 => task[t].current = task[t].refused
=============================================================================
