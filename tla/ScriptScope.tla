---------------------------- MODULE ScriptScope ----------------------------
(***************************************************************************)
(* ScriptScope (tools/script.py): the Script jobs of the runs of one       *)
(* runner, their worker processes, their nested calls, the job slots and   *)
(* the lock on side effects that the runs share, up to the close of each   *)
(* scope by its run (AgentRunner._run_locked).  A run that waits for a job *)
(* in the foreground gives up after a timeout, which may be at once, so it *)
(* is a run that goes on.                                                  *)
(***************************************************************************)
EXTENDS Integers, FiniteSets, Sequences, SequencesExt

CONSTANTS
    Scopes,         \* runs in progress on one runner, each with its scope
    Jobs, Calls,    \* job ids; nested calls of a job
    NoScope,        \* owner of a job id not yet given out
    MaxJobs,        \* config.script.max_jobs
    ParallelReads,  \* config.script.parallel_reads
    MaxFaults       \* bound of the exploration

ASSUME ScriptAssumption ==
    /\ NoScope \notin Scopes /\ Scopes \cap (Jobs \X Calls) = {}
    /\ MaxJobs \in Nat \ {0} /\ ParallelReads \in Nat \ {0} /\ MaxFaults \in Nat

VARIABLES
    root,       \* where each run is
    awaits,     \* jobs whose tasks it waits for
    fatal,      \* ScriptScope.fatal
    owner,      \* the scope of each job
    stage,      \* where the task of each job is
    process,    \* ScriptJob.process
    cancelled,  \* jobs whose task has a cancellation to receive
    call,       \* the nested calls of each job
    queue,      \* the runner's _mutation_lock: its holder, then its waiters
    slots,      \* the runner's _script_job_slots
    retried,    \* history: jobs whose termination close() has tried again
    late,       \* history: calls that have entered their tool after the stop of their scope
    faults

runs == <<root, awaits>>
jobs == <<owner, stage, process>>
vars == <<root, awaits, fatal, owner, stage, process, cancelled, call, queue,
          slots, retried, late, faults>>

JobsOf(s) == {j \in Jobs : owner[j] = s}
Active(s) == {j \in JobsOf(s) : stage[j] # "done"}
Pending(j) == {c \in Calls : call[j][c] \in {"queued", "admitted", "running"}}
Closed(s) == root[s] \in {"closing", "over", "failed"}
Stopped(s) == fatal[s] # "none" \/ Closed(s)
Without(q, client) == RemoveFirst(q, client)

\* ScriptScope.check: what it raises.  It can also find the budget of the run
\* exhausted, at any time.
Check(s) == IF fatal[s] # "none" THEN fatal[s] ELSE IF Closed(s) THEN "ended" ELSE "ok"

-----------------------------------------------------------------------------
(* The run                                                                  *)

\* ScriptScope.start.  The task of the job takes its first step later.
StartJob(s, j) ==
    /\ root[s] = "turn" /\ Check(s) = "ok"
    /\ owner[j] = NoScope /\ Cardinality(slots) < MaxJobs
    /\ owner' = [owner EXCEPT ![j] = s]
    /\ stage' = [stage EXCEPT ![j] = "created"]
    /\ slots' = slots \cup {j}
    /\ UNCHANGED <<runs, fatal, process, cancelled, call, queue, retried, late, faults>>

\* ScriptScope.control(stop), which cannot be cancelled.
StopJob(s, j) ==
    /\ root[s] = "turn" /\ Check(s) = "ok" /\ j \in JobsOf(s)
    /\ cancelled' = cancelled \cup ({j} \cap Active(s))
    /\ root' = [root EXCEPT ![s] = "stopping"]
    /\ awaits' = [awaits EXCEPT ![s] = {j}]
    /\ UNCHANGED <<fatal, jobs, call, queue, slots, retried, late, faults>>

\* ScriptScope.notifications(wait) before the last request or an answer.
Settle(s) ==
    /\ root[s] = "turn"
    /\ root' = [root EXCEPT ![s] = "settling"]
    /\ awaits' = [awaits EXCEPT ![s] = Active(s)]
    /\ UNCHANGED <<fatal, jobs, cancelled, call, queue, slots, retried, late, faults>>

\* Cancelling the gather cancels the jobs, and waits for them all the same.
CancelSettle(s) ==
    /\ root[s] = "settling"
    /\ root' = [root EXCEPT ![s] = "stopping"]
    /\ cancelled' = cancelled \cup (awaits[s] \cap Active(s))
    /\ UNCHANGED <<awaits, fatal, jobs, call, queue, slots, retried, late, faults>>

Waited(s) ==
    /\ root[s] \in {"stopping", "settling"} /\ awaits[s] \cap Active(s) = {}
    /\ root' = [root EXCEPT ![s] = "turn"]
    /\ awaits' = [awaits EXCEPT ![s] = {}]
    /\ UNCHANGED <<fatal, jobs, cancelled, call, queue, slots, retried, late, faults>>

\* A direct tool call with side effects takes the lock of the runner.
WantWrite(s) ==
    /\ root[s] = "turn" /\ Check(s) = "ok"
    /\ root' = [root EXCEPT ![s] = "writing"]
    /\ queue' = Append(queue, s)
    /\ UNCHANGED <<awaits, fatal, jobs, cancelled, call, slots, retried, late, faults>>

Written(s) ==
    /\ root[s] = "writing" /\ Head(queue) = s
    /\ root' = [root EXCEPT ![s] = "turn"]
    /\ queue' = Tail(queue)
    /\ UNCHANGED <<awaits, fatal, jobs, cancelled, call, slots, retried, late, faults>>

\* At an await of the run itself; a direct call that runs is drained first.
Interruptible(s) == root[s] = "turn" \/ (root[s] = "writing" /\ Head(queue) # s)

\* Mutant of Close: the jobs are waited for and not cancelled.
CloseWaits(s) ==
    /\ Interruptible(s)
    /\ root' = [root EXCEPT ![s] = "closing"]
    /\ queue' = Without(queue, s)
    /\ UNCHANGED <<awaits, fatal, jobs, cancelled, call, slots, retried, late, faults>>

\* The run is over, however it ends: finalize begins with ScriptScope.close.
Close(s) ==
    /\ Interruptible(s)
    /\ root' = [root EXCEPT ![s] = "closing"]
    /\ cancelled' = cancelled \cup Active(s)
    /\ queue' = Without(queue, s)
    /\ UNCHANGED <<awaits, fatal, jobs, call, slots, retried, late, faults>>

\* It cleans up again after a job that has kept its slot.
Retry(s, j) ==
    /\ root[s] = "closing" /\ Active(s) = {} /\ j \in JobsOf(s) \cap slots
    /\ process' = IF process[j] = "alive" THEN [process EXCEPT ![j] = "dead"] ELSE process
    /\ slots' = slots \ {j}
    /\ retried' = retried \cup {j}
    /\ UNCHANGED <<runs, fatal, owner, stage, cancelled, call, queue, late, faults>>

\* The worker cannot be killed, though it may exit by itself, or be reaped: close()
\* raises, and finalize with it.  That happens once in a run, and needs no bound.
RetryFails(s, j) ==
    /\ root[s] = "closing" /\ Active(s) = {} /\ j \in JobsOf(s) \cap slots
    /\ process[j] = "alive"
    /\ retried' = retried \cup {j}
    /\ \E p \in {"alive", "dead"} : process' = [process EXCEPT ![j] = p]
    /\ root' = [root EXCEPT ![s] = "failed"]
    /\ UNCHANGED <<awaits, fatal, owner, stage, cancelled, call, queue, slots, late, faults>>

\* Mutant of CloseEnds: close() does not look at the slots again.
CloseEndsAtOnce(s) ==
    /\ root[s] = "closing" /\ Active(s) = {}
    /\ root' = [root EXCEPT ![s] = "over"]
    /\ UNCHANGED <<awaits, fatal, jobs, cancelled, call, queue, slots, retried, late, faults>>

CloseEnds(s) ==
    /\ root[s] = "closing" /\ Active(s) = {} /\ JobsOf(s) \cap slots = {}
    /\ root' = [root EXCEPT ![s] = "over"]
    /\ UNCHANGED <<awaits, fatal, jobs, cancelled, call, queue, slots, retried, late, faults>>

-----------------------------------------------------------------------------
(* The task of a job: ScriptScope._run                                      *)

\* ScriptScope._fail, called by the task of j: the first error is kept, and it
\* cancels the siblings.
Fail(j, error) ==
    IF fatal[owner[j]] = "none"
    THEN /\ fatal' = [fatal EXCEPT ![owner[j]] = error]
         /\ cancelled' = cancelled \cup (Active(owner[j]) \ {j})
    ELSE UNCHANGED <<fatal, cancelled>>

CleanUp(j) == stage' = [stage EXCEPT ![j] = "cleanup"]

Begin(j) ==
    /\ stage[j] = "created"
    /\ stage' = [stage EXCEPT ![j] = IF j \in cancelled THEN "done" ELSE "spawning"]
    /\ cancelled' = cancelled \ {j}
    /\ UNCHANGED <<runs, fatal, owner, process, call, queue, slots, retried, late, faults>>

\* The spawn is finished before a cancellation is received.
Spawned(j) ==
    /\ stage[j] = "spawning"
    /\ process' = [process EXCEPT ![j] = "alive"]
    /\ IF j \in cancelled THEN CleanUp(j)
                          ELSE stage' = [stage EXCEPT ![j] = "exchange"]
    /\ cancelled' = cancelled \ {j}
    /\ UNCHANGED <<runs, fatal, owner, call, queue, slots, retried, late, faults>>

\* The worker cannot be started; a cancellation received meanwhile is raised instead.
SpawnFails(j) ==
    /\ stage[j] = "spawning" /\ faults < MaxFaults
    /\ faults' = faults + 1
    /\ CleanUp(j)
    /\ cancelled' = cancelled \ {j}
    /\ UNCHANGED <<runs, fatal, owner, process, call, queue, slots, retried, late>>

Received(j) ==
    /\ stage[j] = "exchange" /\ j \in cancelled
    /\ CleanUp(j)
    /\ cancelled' = cancelled \ {j}
    /\ UNCHANGED <<runs, fatal, owner, process, call, queue, slots, retried, late, faults>>

\* The worker asks for a call; its task asks for the lock, or for a turn to read,
\* unless the scope has failed: the call, or the exchange, then raises (Exchanged).
Request(j, c) ==
    /\ stage[j] = "exchange" /\ j \notin cancelled /\ Check(owner[j]) = "ok"
    /\ call[j][c] = "none"
    /\ call' = [call EXCEPT ![j][c] = "queued"]
    /\ queue' \in {queue, Append(queue, <<j, c>>)}
    /\ UNCHANGED <<runs, fatal, jobs, cancelled, slots, retried, late, faults>>

\* The exchange ends: the script returns; or it fails or takes too long; or the
\* budget or the cancel event of the run ends it, here or in a nested call.
Exchanged(j) ==
    /\ stage[j] = "exchange" /\ j \notin cancelled
    /\ \/ /\ \A c \in Calls : call[j][c] = "none"
          /\ CleanUp(j)
          /\ process' = [process EXCEPT ![j] = "dead"]
          /\ UNCHANGED <<fatal, cancelled>>
       \/ CleanUp(j) /\ UNCHANGED <<process, fatal, cancelled>>
       \/ CleanUp(j) /\ Fail(j, "run") /\ UNCHANGED process
    /\ UNCHANGED <<runs, owner, call, queue, slots, retried, late, faults>>

\* ScriptScope._cleanup and _release_slot: the worker is killed, the calls are
\* cancelled, and both are waited for.  A cancellation received meanwhile comes
\* first when it is done.
CleanedUp(j) ==
    /\ stage[j] = "cleanup" /\ Pending(j) = {}
    /\ process' = IF process[j] = "alive" THEN [process EXCEPT ![j] = "dead"] ELSE process
    /\ slots' = slots \ {j}
    /\ stage' = [stage EXCEPT ![j] = IF j \in cancelled THEN "done" ELSE "recording"]
    /\ cancelled' = cancelled \ {j}
    /\ call' = [call EXCEPT ![j] = [c \in Calls |-> "none"]]
    /\ UNCHANGED <<runs, fatal, owner, queue, retried, late, faults>>

\* The worker cannot be killed, though it may exit by itself, or be reaped.
CleanUpFails(j) ==
    /\ stage[j] = "cleanup" /\ Pending(j) = {} /\ process[j] = "alive" /\ faults < MaxFaults
    /\ faults' = faults + 1
    /\ IF j \in cancelled
       THEN /\ stage' = [stage EXCEPT ![j] = "done"]
            /\ cancelled' = cancelled \ {j}
            /\ UNCHANGED fatal
       ELSE /\ stage' = [stage EXCEPT ![j] = "recording"]
            /\ Fail(j, "host")
    /\ call' = [call EXCEPT ![j] = [c \in Calls |-> "none"]]
    /\ \/ UNCHANGED <<process, slots>>
       \/ process' = [process EXCEPT ![j] = "dead"] /\ slots' = slots \ {j}
    /\ UNCHANGED <<runs, owner, queue, retried, late>>

\* The script.completed event.
Recorded(j) ==
    /\ stage[j] = "recording"
    /\ stage' = [stage EXCEPT ![j] = "done"]
    /\ cancelled' = cancelled \ {j}
    /\ UNCHANGED <<runs, fatal, owner, process, call, queue, slots, retried, late, faults>>

RecordFails(j) ==
    /\ stage[j] = "recording" /\ j \notin cancelled /\ faults < MaxFaults
    /\ faults' = faults + 1
    /\ stage' = [stage EXCEPT ![j] = "done"]
    /\ Fail(j, "host")
    /\ UNCHANGED <<runs, owner, process, call, queue, slots, retried, late>>

-----------------------------------------------------------------------------
(* A nested call: ScriptScope._invoke                                       *)

Writes(j, c) == Contains(queue, <<j, c>>)
Reading(s) == {p \in JobsOf(s) \X Calls : /\ call[p[1]][p[2]] \in {"admitted", "running"}
                                       /\ ~Writes(p[1], p[2])}

EndCall(j, c, how) == /\ call' = [call EXCEPT ![j][c] = how]
                      /\ queue' = Without(queue, <<j, c>>)

\* Its turn comes, unless its job has cancelled it.
Turn(j, c) == /\ call[j][c] = "queued" /\ stage[j] = "exchange"
              /\ IF Writes(j, c) THEN Head(queue) = <<j, c>>
                                 ELSE Cardinality(Reading(owner[j])) < ParallelReads

\* Mutant of Admit: the scope is not checked again once the lock is held.
AdmitUnchecked(j, c) ==
    /\ Turn(j, c)
    /\ call' = [call EXCEPT ![j][c] = "admitted"]
    /\ UNCHANGED <<runs, fatal, jobs, cancelled, queue, slots, retried, late, faults>>

\* It holds the lock, or its turn to read, and looks at its scope again.
Admit(j, c) ==
    /\ Turn(j, c)
    /\ \/ /\ Check(owner[j]) = "ok"
          /\ call' = [call EXCEPT ![j][c] = "admitted"]
          /\ UNCHANGED queue
       \/ EndCall(j, c, "raised")
    /\ UNCHANGED <<runs, fatal, jobs, cancelled, slots, retried, late, faults>>

\* The row has started, tool.started and tool.policy are recorded and the approval is
\* given: each is an await, and nothing looks at the scope again.  The task that runs
\* the tool can be a step ahead of a cancellation of the one that waits for it.
Enter(j, c) ==
    /\ call[j][c] = "admitted"
    /\ call' = [call EXCEPT ![j][c] = "running"]
    /\ late' = IF ~Stopped(owner[j]) THEN late
               ELSE [late EXCEPT ![IF Writes(j, c) THEN "write" ELSE "read"] = @ \cup {<<j, c>>}]
    /\ UNCHANGED <<runs, fatal, jobs, cancelled, queue, slots, retried, faults>>

\* It returns or it raises, as when the cancel event of its run stops it; or a hook
\* on its way to the tool refuses it.
Return(j, c) ==
    /\ call[j][c] \in {"admitted", "running"}
    /\ \E how \in {"none", "raised"} : EndCall(j, c, how)
    /\ UNCHANGED <<runs, fatal, jobs, cancelled, slots, retried, late, faults>>

\* The cleanup of its job cancels it while it waits.
Drop(j, c) ==
    /\ call[j][c] = "queued" /\ stage[j] = "cleanup"
    /\ EndCall(j, c, "none")
    /\ UNCHANGED <<runs, fatal, jobs, cancelled, slots, retried, late, faults>>

-----------------------------------------------------------------------------
Init ==
    /\ root = [s \in Scopes |-> "turn"] /\ awaits = [s \in Scopes |-> {}]
    /\ fatal = [s \in Scopes |-> "none"]
    /\ owner = [j \in Jobs |-> NoScope] /\ stage = [j \in Jobs |-> "none"]
    /\ process = [j \in Jobs |-> "none"]
    /\ cancelled = {} /\ call = [j \in Jobs |-> [c \in Calls |-> "none"]]
    /\ queue = <<>> /\ slots = {} /\ retried = {} /\ late = [kind \in {"read", "write"} |-> {}] /\ faults = 0

RootStep(s) == \/ Settle(s) \/ CancelSettle(s) \/ Waited(s)
               \/ WantWrite(s) \/ Written(s) \/ Close(s) \/ CloseEnds(s)
               \/ \E j \in Jobs : StartJob(s, j) \/ StopJob(s, j) \/ Retry(s, j) \/ RetryFails(s, j)
JobStep(j) == \/ Begin(j) \/ Spawned(j) \/ SpawnFails(j) \/ Received(j) \/ Exchanged(j)
              \/ CleanedUp(j) \/ CleanUpFails(j) \/ Recorded(j) \/ RecordFails(j)
CallStep(j, c) == Request(j, c) \/ Admit(j, c) \/ Enter(j, c) \/ Return(j, c) \/ Drop(j, c)

Idle == (\A s \in Scopes : root[s] \in {"over", "failed"}) /\ UNCHANGED vars

Next == \/ Idle
        \/ \E s \in Scopes : RootStep(s)
        \/ \E j \in Jobs : JobStep(j) \/ \E c \in Calls : CallStep(j, c)

Spec == Init /\ [][Next]_vars

\* Nobody obliges a script to return or a run to end; what is cancelled ends.
Fairness ==
    /\ \A s \in Scopes : WF_vars(CloseEnds(s) \/ Written(s) \/ \E j \in Jobs : Retry(s, j))
    /\ \A j \in Jobs : /\ WF_vars(Begin(j) \/ Spawned(j) \/ Received(j) \/ CleanedUp(j) \/ Recorded(j))
                       /\ \A c \in Calls : WF_vars(Drop(j, c) \/ (stage[j] = "cleanup" /\ Return(j, c)))
FairSpec == Spec /\ Fairness

-----------------------------------------------------------------------------
TypeOK ==
    /\ root \in [Scopes -> {"turn", "stopping", "settling", "writing", "closing", "over", "failed"}]
    /\ awaits \in [Scopes -> SUBSET Jobs]
    /\ fatal \in [Scopes -> {"none", "run", "host"}] /\ owner \in [Jobs -> Scopes \cup {NoScope}]
    /\ stage \in [Jobs -> {"none", "created", "spawning", "exchange", "cleanup", "recording", "done"}]
    /\ process \in [Jobs -> {"none", "alive", "dead"}]
    /\ call \in [Jobs -> [Calls -> {"none", "queued", "admitted", "running", "raised"}]]
    /\ late \in [{"read", "write"} -> SUBSET (Jobs \X Calls)]
    /\ slots \subseteq Jobs /\ cancelled \subseteq {j \in Jobs : stage[j] \notin {"none", "done"}}

\* Nobody waits twice for the lock of the runner, a run only while it writes.
QueueOK ==
    /\ queue \in Seq(Scopes \cup (Jobs \X Calls)) /\ IsInjective(queue)
    /\ \A s \in Scopes : root[s] = "writing" <=> Contains(queue, s)

\* "Job slots span the runner and release only after cleanup": a worker or a
\* nested call that is still alive is paid for by a slot, whichever run owns it.
SlotsHeld ==
    /\ Cardinality(slots) <= MaxJobs
    /\ \A j \in Jobs : process[j] = "alive" \/ Pending(j) # {} => j \in slots

\* "Own every job, child call and worker until the exact run ends": once close()
\* has returned, nothing of the run is left, not even the slot of a job whose
\* task was cancelled before it began.
NothingOutlivesRun ==
    \A s \in Scopes : root[s] = "over" =>
        \A j \in JobsOf(s) : /\ stage[j] = "done" /\ process[j] # "alive" /\ Pending(j) = {}
                             /\ j \notin slots

Late(s, kind) == {p \in late[kind] : owner[p[1]] = s}

\* What a stop can no longer hold back: nested calls on their way from the check
\* under the lock to their tool, past row, events and approval.  Of all the calls
\* of the scope, queued in any number of its jobs behind other runs, no more than
\* one that writes takes effect after its stop, and parallel_reads that read.
LateEffectsBounded ==
    \A s \in Scopes : /\ Cardinality(Late(s, "write")) <= 1
                      /\ Cardinality(Late(s, "read")) <= ParallelReads

\* "A fatal scope error immediately cancels sibling jobs; each job drains its
\* admitted calls and worker even while a provider request is active": without
\* any step of the run, which its jobs do not keep when it ends either.
StoppedDrains == \A s \in Scopes : Stopped(s) ~> Active(s) = {}

\* tools/script.py:386, "Retry idempotent termination if an earlier cleanup failed
\* before reaping": a worker that is alive after the close has been tried again.
LeftoversRetried ==
    \A s \in Scopes, j \in Jobs :
        root[s] = "failed" /\ owner[j] = s /\ process[j] = "alive" => j \in retried
=============================================================================
