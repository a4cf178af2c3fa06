---------------------------- MODULE RunLifecycle ----------------------------
(***************************************************************************)
(* A run of a session from the prompt to its result: AgentRunner.run, _run   *)
(* and _run_locked of agent/runner.py, with the clients that submit, steer,  *)
(* interrupt and close it (interactive.py, protocol/acp.py).  The caller     *)
(* awaits a task, the task awaits a worker, and each of them can be          *)
(* cancelled while it waits; the worker repeats turns of the model, runs     *)
(* tools, verifies what they changed, and publishes one result.             *)
(***************************************************************************)
EXTENDS VerificationReport, FiniteSets, TLC

CONSTANTS
    Clients,        \* the kinds of client explored: "shell", "acp"
    MaxPrompts, MaxMishaps,     \* bounds of the exploration: prompts of a client, stops and failures
    MaxTurns, MaxRepairs, MaxRepeated,  \* agent.max_turns, auto_verify_max_repair_cycles, max_repeated_calls
    Roots,          \* number of roots of the workspace
    Batches         \* the batches of calls explored

Tools == {"read", "edit", "shell", "spawn", "delegate"}

ASSUME LifecycleAssumption ==
    /\ Clients \subseteq {"shell", "acp"} /\ MaxPrompts \in [Clients -> Nat] /\ MaxMishaps \in Nat
    /\ MaxTurns \in Nat /\ MaxRepairs \in Nat /\ MaxRepeated \in Nat /\ Roots \in Nat
    /\ Batches \subseteq Seq(Tools)

VARIABLES
    client, closing,
    typed,      \* prompts given so far: they are numbered
    pending,    \* the shell's _pending_follow_ups
    queue,      \* _steering of the session
    accepting,  \* the session is in _accepting_steering
    waiting,    \* tasks that wait for the session's lock
    task,       \* the task that has it
    stop,       \* the session's event in _cancel
    work,       \* the locals of the worker
    log,        \* the user's messages in the store
    lost,       \* prompts that a stop or a failing store kept from it
    fresh,      \* history: the workspace changed since it was last verified
    silent,     \* history: an edit failed since then after it had written
    published,  \* run.completed events of this run
    mishaps

input == <<typed, pending, queue, accepting>>
vars == <<client, closing, input, waiting, task, stop, work, log, lost, fresh, silent, published, mishaps>>

NoTask == [pc |-> "idle", prompt |-> 0, dead |-> FALSE, outcome |-> "none"]
NoWork ==
    [pc |-> "none", kill |-> FALSE, turn |-> 0, revision |-> 1, verified |-> 0, report |-> NoReport,
     repairs |-> 0, awaiting |-> FALSE, finalizing |-> FALSE, safe |-> FALSE, text |-> "none",
     invalid |-> 0, job |-> "none", context |-> Clean, batch |-> <<>>, done |-> 0, mutated |-> FALSE,
     nested |-> FALSE, repeated |-> 0, after |-> "none", steered |-> FALSE, hand |-> <<>>, reason |-> "end_turn"]

\* Where the worker executes, where it is the owner of the terminal result, and
\* where it has ended; "never" is a worker that was cancelled before its first step.
Executing == {"load", "turn", "ask", "settle", "drain", "verify", "batch"}
Ended == {"never", "done", "failed"}

Init ==
    /\ client \in Clients /\ closing = FALSE
    /\ typed = 0 /\ pending = <<>> /\ queue = <<>> /\ accepting = FALSE
    /\ waiting = <<>> /\ task = NoTask /\ stop = "none" /\ work = NoWork
    /\ log = <<>> /\ lost = {} /\ fresh = FALSE /\ silent = FALSE /\ published = <<>>
    /\ mishaps = 0

-----------------------------------------------------------------------------
(* The clients                                                              *)

Steer(prompts) == queue' = queue \o prompts

\* _queue_follow_up: kept by the shell until the session accepts it, which it does
\* not know before run.started when the session is new.
FollowUp ==
    /\ client = "shell" /\ ~closing /\ typed < MaxPrompts[client] /\ typed' = typed + 1
    /\ \/ accepting /\ Steer(Append(pending, typed')) /\ pending' = <<>>
       \/ /\ accepting => work.pc \in {"new", "load"}
          /\ pending' = Append(pending, typed') /\ UNCHANGED queue
    /\ UNCHANGED <<client, closing, accepting, waiting, task, stop, work, log, lost, fresh, silent, published, mishaps>>

\* The main loop of the shell: one turn at a time.
Submit ==
    /\ client = "shell" /\ ~closing /\ pending # <<>> /\ task = NoTask /\ waiting = <<>>
    /\ pending' = Tail(pending) /\ waiting' = <<Head(pending)>>
    /\ UNCHANGED <<client, closing, typed, queue, accepting, task, stop, work, log, lost, fresh, silent, published, mishaps>>

\* _session_prompt of the ACP server, whose tasks reach the lock in any order.
AcpPrompt ==
    /\ client = "acp" /\ ~closing /\ typed < MaxPrompts[client] /\ typed' = typed + 1
    /\ IF accepting THEN Steer(<<typed'>>) /\ UNCHANGED waiting
       ELSE /\ \E i \in 0..Len(waiting) :
                waiting' = SubSeq(waiting, 1, i) \o <<typed'>> \o SubSeq(waiting, i + 1, Len(waiting))
            /\ UNCHANGED queue
    /\ UNCHANGED <<client, closing, pending, accepting, task, stop, work, log, lost, fresh, silent, published, mishaps>>

Mishap == mishaps < MaxMishaps /\ mishaps' = mishaps + 1
Set(event) == IF event = "clear" THEN "set" ELSE event

\* runner.cancel, the first interrupt of a shell.
SetStop ==
    /\ stop = "clear" /\ Mishap
    /\ stop' = "set"
    /\ UNCHANGED <<client, closing, input, waiting, task, work, log, lost, fresh, silent, published>>

\* Mutant of Join: the cancelled task does not wait for its worker.
JoinNot(t) == [t EXCEPT !.pc = "release", !.outcome = "cancelled"]

\* Mutant of PassedOn: the cancellation stops at the task.
PassedOnNot(t, w) == w

\* A cancellation reaches the task where it waits: for the lease, for the worker
\* (run and _run join it again and pass the cancellation on unless the worker has
\* begun to publish), or in a step that is finished regardless.
Join(t) == [t EXCEPT !.pc = "reap"]
Cancelled(t) ==
    CASE t.pc = "lease" -> [t EXCEPT !.pc = "released", !.outcome = "cancelled", !.prompt = 0]
      [] t.pc \in {"join", "reap"} -> Join(t)
      [] OTHER -> t
PassedOn(t, w) ==
    IF (t.pc = "join" /\ w.pc \notin Ended) \/ (t.pc = "reap" /\ w.pc \in Executing \cup {"new"})
    THEN [w EXCEPT !.kill = TRUE] ELSE w
Prompts(t) == IF t.pc = "lease" THEN {t.prompt} ELSE {}

\* The second interrupt of a shell; session/cancel; and close, after which no run begins.
CancelTasks(close) ==
    /\ Mishap
    /\ ~closing /\ closing' = close
    /\ task.pc # "idle" \/ waiting # <<>>
    /\ task' = Cancelled(task) /\ work' = PassedOn(task, work)
    /\ stop' = IF close \/ client = "acp" \/ task.pc = "join" THEN Set(stop) ELSE stop
    /\ lost' = lost \cup Prompts(task) \cup {waiting[i] : i \in DOMAIN waiting}
    /\ waiting' = <<>>
    /\ UNCHANGED <<client, input, log, fresh, silent, published>>

\* Mutant of Reclaimed: what was reclaimed is put behind what was kept.
ReclaimedLast == pending \o queue

\* The caller hears of the end.  The shell reclaims what no turn took, ahead of what
\* it kept meanwhile.
Reclaimed == queue \o pending
Collect ==
    /\ task.pc = "released"
    /\ task' = NoTask /\ work' = NoWork /\ published' = <<>>
    /\ IF client = "shell" THEN pending' = Reclaimed /\ queue' = <<>> ELSE UNCHANGED <<pending, queue>>
    /\ fresh' = FALSE /\ silent' = FALSE
    /\ UNCHANGED <<client, closing, typed, accepting, waiting, stop, log, lost, mishaps>>

Client == FollowUp \/ Submit \/ AcpPrompt \/ SetStop \/ CancelTasks(FALSE) \/ CancelTasks(TRUE)

-----------------------------------------------------------------------------
(* The task: AgentRunner._run                                               *)

TakeLock ==
    /\ task = NoTask /\ waiting # <<>>
    /\ task' = [NoTask EXCEPT !.pc = "lease", !.prompt = Head(waiting)] /\ waiting' = Tail(waiting)
    /\ UNCHANGED <<client, closing, input, stop, work, log, lost, fresh, silent, published, mishaps>>

\* Another process may have the lease.
TakeLease ==
    /\ task.pc = "lease"
    /\ \/ /\ accepting' = TRUE /\ task' = [task EXCEPT !.pc = "join"]
          /\ work' = [NoWork EXCEPT !.pc = "new"]
          /\ UNCHANGED <<lost, mishaps>>
       \/ /\ Mishap
          /\ task' = [task EXCEPT !.pc = "released", !.outcome = "refused", !.prompt = 0]
          /\ lost' = lost \cup {task.prompt} /\ UNCHANGED <<accepting, work>>
    /\ UNCHANGED <<client, closing, typed, pending, queue, waiting, stop, log, fresh, silent, published>>

\* max_time_seconds: the worker is cancelled and joined.
Deadline ==
    /\ task.pc = "join" /\ work.pc \notin Ended
    /\ task' = [Join(task) EXCEPT !.dead = TRUE] /\ work' = PassedOn(task, work) /\ stop' = Set(stop)
    /\ UNCHANGED <<client, closing, input, waiting, log, lost, fresh, silent, published, mishaps>>

\* The task resumes with what the worker returned or raised, however often it was
\* cancelled meanwhile.
Resume ==
    /\ task.pc \in {"join", "reap"} /\ work.pc \in {"done", "failed"}
    /\ task' = [task EXCEPT !.pc = "release", !.outcome = IF work.pc = "done" THEN "result" ELSE "failed"]
    /\ UNCHANGED <<client, closing, input, waiting, stop, work, log, lost, fresh, silent, published, mishaps>>

Why(t) == IF t.dead THEN "budget" ELSE "cancelled"
Result(reason, report, text) ==
    [reason |-> reason, report |-> report, text |-> text, fresh |-> fresh, silent |-> silent]

\* startup_fallback: the worker never started, the task publishes in its place.
Fallback ==
    /\ task.pc = "reap" /\ work.pc = "never"
    /\ published' = Append(published, Result(Why(task), Missing(MarkIncomplete(Clean, FALSE)), "summary"))
    /\ stop' = "none" /\ task' = [task EXCEPT !.pc = "release", !.outcome = "result", !.prompt = 0]
    /\ lost' = lost \cup {task.prompt}
    /\ UNCHANGED <<client, closing, input, waiting, work, log, fresh, silent, mishaps>>

\* The session no longer accepts steering; then the lease and the lock are released.
Release ==
    /\ task.pc = "release"
    /\ \/ accepting /\ accepting' = FALSE /\ UNCHANGED task
       \/ ~accepting /\ task' = [task EXCEPT !.pc = "released"] /\ UNCHANGED accepting
    /\ UNCHANGED <<client, closing, typed, pending, queue, waiting, stop, work, log, lost, fresh, silent, published, mishaps>>

Task == TakeLock \/ TakeLease \/ Deadline \/ Resume \/ Fallback \/ Release \/ Collect

-----------------------------------------------------------------------------
(* The worker: AgentRunner._run_locked                                      *)

At(pc) == work.pc = pc
\* A step of the execution is taken unless a cancellation is to be delivered.
Runs(pc) == At(pc) /\ ~work.kill
Last(w) == w.turn = MaxTurns
Current(w) == w.verified = w.revision
Private == UNCHANGED <<client, closing, input, waiting, task, stop, log, lost, published, mishaps>>
Quiet == Private /\ UNCHANGED <<fresh, silent>>

\* What a batch may have written is counted, and what was verified is no longer final.
Counted(w, mutates) ==
    IF mutates
    THEN [w EXCEPT !.revision = @ + 1, !.finalizing = FALSE, !.safe = FALSE, !.awaiting = FALSE]
    ELSE w

\* Of the locals, the terminal result reads these.
Ending(w, reason) ==
    [NoWork EXCEPT !.pc = "close", !.reason = reason, !.context = w.context, !.report = w.report,
                   !.text = w.text, !.safe = w.safe, !.verified = IF Current(w) THEN NoWork.revision ELSE @]

\* An exception ends the execution.  What delegated agents wrote is counted even then.
Raised(w, reason) == Ending(Counted(w, w.nested), reason)
Raise(reason) == work' = Raised(work, reason)

\* The event loop first runs the worker, unless it was cancelled before.
Begin ==
    /\ At("new")
    /\ IF work.kill THEN work' = [work EXCEPT !.pc = "never"] /\ UNCHANGED stop
       ELSE work' = [work EXCEPT !.pc = "load"] /\ stop' = "clear"
    /\ UNCHANGED <<client, closing, input, waiting, task, log, lost, fresh, silent, published, mishaps>>

\* The prompt is stored, and run.started lets the shell pass on what it kept.  A call
\* that an earlier process left running may have changed anything.
Load ==
    /\ Runs("load")
    /\ \E context \in Recovered :
        work' = [work EXCEPT !.pc = "turn", !.context = context] /\ fresh' = (context # Clean)
    /\ UNCHANGED silent
    /\ log' = Append(log, task.prompt) /\ task' = [task EXCEPT !.prompt = 0]
    /\ Steer(pending) /\ pending' = <<>>
    /\ UNCHANGED <<client, closing, typed, accepting, waiting, stop, lost, published, mishaps>>

\* What has left the queue, or the caller, and is not in the store yet.
Held == work.hand \o (IF task.pc # "idle" /\ task.prompt # 0 THEN <<task.prompt>> ELSE <<>>)
Missed == {Held[i] : i \in DOMAIN Held}

\* What a tool does to the context and to the workspace; mutated, if the batch counts
\* it, nested, if a delegated agent did it.
Effect(context, mutated, nested, wrote) ==
    [context |-> context, mutated |-> mutated, nested |-> nested, wrote |-> wrote]

\* A call that is cut short has done nothing yet, has what it wrote recorded, or
\* leaves its row running, for finalize to answer.
CutShort(tool, c) ==
    {Effect(c, FALSE, FALSE, FALSE), Effect(MarkIncomplete(c, FALSE), FALSE, FALSE, tool # "read")}
    \cup {Effect(Edited(c), FALSE, tool = "delegate", TRUE) : x \in {tool} \ {"read", "spawn"}}
Stopped(reason) ==
    \E e \in IF work.pc = "batch" /\ work.done < Len(work.batch)
             THEN CutShort(work.batch[work.done + 1], work.context)
             ELSE {Effect(work.context, FALSE, FALSE, FALSE)} :
        /\ work' = Raised([work EXCEPT !.context = e.context, !.nested = @ \/ e.nested], reason)
        /\ fresh' = (fresh \/ e.wrote) /\ UNCHANGED silent

\* The cancellation is delivered.  A message that was being appended may still be.
Interrupt ==
    /\ work.pc \in Executing /\ work.kill
    /\ Stopped(Why(task))
    /\ \/ log' = log \o Held /\ UNCHANGED lost
       \/ lost' = lost \cup Missed /\ UNCHANGED log
    /\ task' = [task EXCEPT !.prompt = 0]
    /\ UNCHANGED <<client, closing, input, waiting, stop, published, mishaps>>

\* The event of runner.cancel is seen before a turn and where it is waited for.
SeeStop ==
    /\ work.pc \in {"turn", "ask", "settle", "verify", "batch"} /\ ~work.kill /\ stop = "set"
    /\ Stopped("cancelled") /\ Private

\* before_turn, and the notices of the jobs that have ended; the last turn waits for all.
Notified(w) == [w EXCEPT !.revision = IF w.job = "done" THEN @ + 1 ELSE @,
                         !.job = IF @ = "done" THEN "none" ELSE @]
StartTurn ==
    /\ Runs("turn") /\ stop # "set"
    /\ IF Last(work) THEN Raise("max_turns")
       ELSE /\ work.turn + 1 = MaxTurns => work.job # "running"
            /\ work' = [Notified(work) EXCEPT !.pc = "ask", !.turn = @ + 1]
    /\ Quiet

ToolsOff == Last(work) \/ work.invalid > 0 \/ work.finalizing

\* _record_model_response: an unusable answer is asked for again, twice.
Rejected ==
    IF Last(work) \/ work.invalid >= 2 THEN Raised(work, "budget")
    ELSE [work EXCEPT !.pc = "turn", !.invalid = @ + 1]
Invalid == Runs("ask") /\ work' = Rejected /\ Quiet

\* A truncated answer is continued without tools.
Incomplete ==
    /\ Runs("ask")
    /\ work' = IF Last(work) THEN Raised(work, "max_turns")
               ELSE [work EXCEPT !.pc = "drain", !.after = "incomplete", !.invalid = 1, !.text = "answer"]
    /\ Quiet

Answer ==
    /\ Runs("ask")
    /\ \E text \in Answers : work' = [work EXCEPT !.pc = "settle", !.text = text, !.invalid = 0]
    /\ Quiet

\* A batch is executed unless it is repeated too often.
Repeated(w, batch) == IF batch = w.batch THEN w.repeated + 1 ELSE 1
Admitted(w, batch) ==
    IF Repeated(w, batch) > MaxRepeated THEN Raised(w, "stuck")
    ELSE [w EXCEPT !.pc = "batch", !.batch = batch, !.repeated = Repeated(w, batch), !.invalid = 0,
                   !.done = 0, !.mutated = FALSE, !.nested = FALSE]
Calls ==
    /\ Runs("ask")
    /\ \E batch \in Batches :
        work' = IF Last(work) THEN Raised(work, "max_turns")
                ELSE IF ToolsOff THEN Rejected ELSE Admitted(work, batch)
    /\ Quiet

\* The provider fails, or a budget is spent, in a request or in a batch.
Fail ==
    /\ work.pc \in {"ask", "batch"} /\ ~work.kill
    /\ \E reason \in {"error", "budget"} : Raise(reason)
    /\ Quiet

\* The calls of a batch one after the other; one that is being recorded absorbs the
\* cancellation.  A command may fail and may leave a process alive.  An edit may fail
\* before it writes anything; when what it wrote was undone; or in the undoing, or in
\* pruning checkpoints, with what it wrote in place (the endings "torn" and "late" of
\* WorkspaceTransaction).  It notes each file as it writes it; the batch does not count it.
Command(c) ==
    {Effect(IF alive THEN MarkIncomplete(Scanned(c, scan), scan # "changed") ELSE Scanned(c, scan),
            ok \/ alive \/ scan # "same", FALSE, scan # "same") :
        scan \in Scans, alive \in BOOLEAN, ok \in BOOLEAN}
Effects(tool, c) ==
    CASE tool = "read" -> {Effect(c, FALSE, FALSE, FALSE)}
      [] tool = "edit" -> {Effect(c, FALSE, FALSE, FALSE), Effect(Edited(c), FALSE, FALSE, FALSE),
                              Effect(Edited(c), FALSE, FALSE, TRUE), Effect(Edited(c), TRUE, FALSE, TRUE)}
      [] tool = "shell" -> Command(c)
      [] tool = "spawn" -> {Effect(c, TRUE, FALSE, FALSE)}
      [] tool = "delegate" -> {Effect(c, FALSE, FALSE, FALSE), Effect(Edited(c), FALSE, TRUE, TRUE)}
RunTool ==
    /\ At("batch") /\ work.done < Len(work.batch)
    /\ LET tool == work.batch[work.done + 1] IN
       \E e \in Effects(tool, work.context) :
        /\ work' = [work EXCEPT !.done = @ + 1, !.kill = FALSE, !.context = e.context,
                                !.mutated = @ \/ e.mutated, !.nested = @ \/ e.nested,
                                !.job = IF tool = "spawn" /\ @ = "none" THEN "running" ELSE @]
        /\ fresh' = (fresh \/ (e.wrote /\ (e.mutated \/ e.nested)))
        /\ silent' = (silent \/ (e.wrote /\ ~e.mutated /\ ~e.nested))
    /\ Private

BatchEnds ==
    /\ Runs("batch") /\ work.done = Len(work.batch)
    /\ work' = [Counted(work, work.mutated \/ work.nested) EXCEPT
                   !.pc = "drain", !.after = "batch", !.done = 0, !.mutated = FALSE, !.nested = FALSE]
    /\ Quiet

\* The job of a script writes while the run goes on, and ends some day if ever.
JobWrites ==
    /\ work.job = "running" /\ work.pc \in Executing
    /\ work' = [work EXCEPT !.context = Edited(@)] /\ fresh' = TRUE /\ UNCHANGED silent
    /\ Private
JobEnds ==
    /\ work.job = "running" /\ work.pc \in Executing
    /\ work' = [work EXCEPT !.job = "done"]
    /\ Quiet

\* A candidate answer waits for the jobs.
Settle ==
    /\ Runs("settle") /\ work.job # "running"
    /\ work' = IF work.job = "done" /\ ~Last(work)
               THEN [Notified(work) EXCEPT !.pc = "turn", !.finalizing = FALSE, !.safe = FALSE]
               ELSE [Notified(work) EXCEPT !.pc = "drain", !.after = "answer"]
    /\ Quiet

\* _drain_steering: from the queue, into the store.
Draining == Runs("drain") \/ At("last")
TakePrompt ==
    /\ Draining /\ work.hand = <<>> /\ queue # <<>>
    /\ work' = [work EXCEPT !.hand = <<Head(queue)>>] /\ queue' = Tail(queue)
    /\ UNCHANGED <<client, closing, typed, pending, accepting, waiting, task, stop, log, lost, fresh, silent, published, mishaps>>
StorePrompt ==
    /\ Draining /\ work.hand # <<>>
    /\ work' = [work EXCEPT !.hand = <<>>, !.steered = TRUE] /\ log' = log \o work.hand
    /\ UNCHANGED <<client, closing, input, waiting, task, stop, lost, fresh, silent, published, mishaps>>

\* Mutant of Needed: a run is verified once.
NeededOnce(w) == Uncertain(w.context) /\ w.report = NoReport

\* _handle_candidate_verification, before and after the checks.
Answered(w) == [w EXCEPT !.safe = MayStand(w.text, w.report), !.text = VerifiedFinalAnswer(w.text, w.report)]
Needed(w) == Uncertain(w.context) /\ ~Current(w)
Considered(w) ==
    IF Needed(w) THEN [w EXCEPT !.pc = "verify"]
    ELSE Ending(IF w.awaiting \/ w.finalizing THEN Answered(w) ELSE [w EXCEPT !.safe = FALSE], "end_turn")
Drained ==
    /\ Runs("drain") /\ work.hand = <<>> /\ queue = <<>>
    /\ LET w == [work EXCEPT !.pc = "turn", !.steered = FALSE] IN
       work' = CASE work.after = "incomplete" -> [w EXCEPT !.invalid = IF work.steered THEN 0 ELSE 1]
                 [] work.after = "answer" /\ work.steered -> [w EXCEPT !.finalizing = FALSE, !.safe = FALSE]
                 [] work.after = "answer" /\ ~work.steered -> Considered(w)
                 [] work.after = "batch" -> w
    /\ Quiet

Concluded(w) ==
    LET repair == ~w.report.checks /\ ~Last(w) /\ w.repairs < MaxRepairs
        final == w.report.checks /\ ~Last(w)
        told == [w EXCEPT !.text = "summary", !.safe = FALSE]
    IN IF OnlyLifecycle(w.context) THEN Ending(Answered(w), "end_turn")
       ELSE IF repair \/ final
       THEN [told EXCEPT !.pc = "turn", !.repairs = IF repair THEN @ + 1 ELSE @,
                         !.awaiting = repair, !.finalizing = final]
       ELSE Ending(told, IF Last(w) THEN "max_turns" ELSE "end_turn")
Check(w, verdicts) ==
    [w EXCEPT !.context = Afterwards(@, verdicts), !.report = Verified(w.context, verdicts),
              !.verified = w.revision]
Cleared == /\ fresh' = (fresh /\ OnlyLifecycle(work.context))
           /\ silent' = (silent /\ OnlyLifecycle(work.context))
Verify ==
    /\ Runs("verify") /\ stop # "set"
    /\ \E verdicts \in [1..Roots -> Verdicts] : work' = Concluded(Check(work, verdicts))
    /\ Cleared
    /\ Private

Execution ==
    \/ Begin \/ Load \/ Interrupt \/ SeeStop \/ StartTurn \/ Settle \/ RunTool \/ BatchEnds
    \/ TakePrompt \/ StorePrompt \/ Drained \/ Verify
Model == Invalid \/ Incomplete \/ Answer \/ Calls \/ Fail
Job == JobWrites \/ JobEnds

-----------------------------------------------------------------------------
(* The terminal result: finalize, owned by a task that nothing cancels.  A  *)
(* run that spent its turns verifies what it changed.                       *)

\* The jobs are stopped.
Close == At("close") /\ work' = [work EXCEPT !.pc = "exit"] /\ Quiet

Unverified == work.reason = "max_turns" /\ work.report = NoReport /\ Uncertain(work.context)
VerifyExit ==
    /\ At("exit")
    /\ \/ /\ ~Unverified /\ work' = [work EXCEPT !.pc = "output"] /\ UNCHANGED <<fresh, silent>>
       \/ /\ Unverified /\ stop # "set"
          /\ \E verdicts \in [1..Roots -> Verdicts] :
                work' = [Check(work, verdicts) EXCEPT !.pc = "output"]
          /\ Cleared
       \/ /\ Unverified /\ stop = "set" /\ UNCHANGED <<fresh, silent>>
          /\ work' = [work EXCEPT !.pc = "output", !.verified = work.revision,
                                  !.report = Interrupted(work.context)]
    /\ Private

\* _finish_run_output
Output ==
    /\ At("output")
    /\ LET c == work.context
           report == FinalReport(c, work.report, Current(work), TRUE)
       IN work' = [work EXCEPT !.pc = IF work.reason = "max_turns" THEN "last" ELSE "idle",
                     !.report = report,
                     !.text = FinalText(c, report, @, work.safe, work.reason = "end_turn")]
    /\ Quiet

\* What was steered into the last turn is stored, and no more is taken.
LastDrained ==
    /\ At("last") /\ work.hand = <<>> /\ queue = <<>>
    /\ work' = [work EXCEPT !.pc = "idle"] /\ accepting' = FALSE
    /\ UNCHANGED <<client, closing, typed, pending, queue, waiting, task, stop, log, lost, fresh, silent, published, mishaps>>

\* The event is dropped and the session is idle; a queue that is not empty is kept.
Idle ==
    /\ At("idle") /\ work' = [work EXCEPT !.pc = "complete"]
    /\ stop' = "none"
    /\ UNCHANGED <<client, closing, input, waiting, task, log, lost, fresh, silent, published, mishaps>>

\* run.completed, unless a step of the above failed.
Complete ==
    /\ At("complete")
    /\ IF work.after = "failed" THEN work' = [work EXCEPT !.pc = "failed"] /\ UNCHANGED published
       ELSE /\ work' = [work EXCEPT !.pc = "done"]
            /\ published' = Append(published, Result(work.reason, work.report, work.text))
    /\ UNCHANGED <<client, closing, input, waiting, task, stop, log, lost, fresh, silent, mishaps>>

Terminate == Close \/ VerifyExit \/ Output \/ LastDrained \/ Idle \/ Complete

\* The store fails: in the execution the run ends with an error, in the terminal
\* result the caller gets the exception.
StoreFails ==
    /\ Mishap
    /\ \/ /\ Runs("load") \/ (Runs("drain") /\ work.hand # <<>>)
          /\ Raise("error") /\ lost' = lost \cup Missed /\ task' = [task EXCEPT !.prompt = 0]
          /\ UNCHANGED accepting
       \/ /\ At("output") \/ (At("last") /\ work.hand # <<>>)
          /\ work' = [work EXCEPT !.pc = "idle", !.after = "failed", !.hand = <<>>]
          /\ lost' = lost \cup Missed /\ UNCHANGED task
          /\ accepting' = (accepting /\ work.reason # "max_turns")
    /\ UNCHANGED <<client, closing, typed, pending, queue, waiting, stop, log, fresh, silent, published>>

Next == Client \/ Task \/ Execution \/ Model \/ Job \/ Terminate \/ StoreFails
Spec == Init /\ [][Next]_vars

\* The event loop runs what is ready, and time passes; neither the model nor the job
\* of a script need ever answer.
Fairness == WF_vars(Task) /\ WF_vars(Execution) /\ WF_vars(Terminate) /\ WF_vars(Deadline)
FairSpec == Spec /\ Fairness

-----------------------------------------------------------------------------
(* Properties                                                               *)

Pcs == Executing \cup Ended \cup {"none", "new", "close", "exit", "output", "last", "idle", "complete"}
Texts == Answers \cup {"none", "summary", "answer with summary"}
Reasons == {"end_turn", "max_turns", "budget", "cancelled", "stuck", "error"}
Tasks == [pc : {"idle", "lease", "join", "reap", "release", "released"}, prompt : Nat, dead : BOOLEAN,
          outcome : {"none", "result", "failed", "cancelled", "refused"}]
Works ==
    [pc : Pcs, kill : BOOLEAN, turn : Nat, revision : Nat, verified : Nat, report : Reports,
     repairs : Nat, awaiting : BOOLEAN, finalizing : BOOLEAN, safe : BOOLEAN, text : Texts,
     invalid : Nat, job : {"none", "running", "done"}, context : Contexts, batch : Seq(Tools), done : Nat,
     mutated : BOOLEAN, nested : BOOLEAN, repeated : Nat,
     after : {"none", "incomplete", "answer", "batch", "failed"}, steered : BOOLEAN, hand : Seq(Nat),
     reason : Reasons]
Results == [reason : Reasons, report : Reports, text : Texts, fresh : BOOLEAN, silent : BOOLEAN]

TypeOK ==
    /\ client \in Clients /\ closing \in BOOLEAN /\ typed \in Nat /\ accepting \in BOOLEAN
    /\ pending \in Seq(Nat) /\ queue \in Seq(Nat) /\ waiting \in Seq(Nat) /\ log \in Seq(Nat)
    /\ task \in Tasks /\ stop \in {"none", "clear", "set"} /\ work \in Works
    /\ lost \subseteq Nat /\ fresh \in BOOLEAN /\ silent \in BOOLEAN
    /\ published \in Seq(Results) /\ mishaps \in Nat

\* No prompt that was accepted is lost or repeated, and none typed into the shell is
\* overtaken by a later one: what the user gave is in the store, with the run, in the
\* queue, or kept by the shell, in this order - except what a stop or a failing store
\* took out of the run's hands.  Prompts of ACP may reach the lock in any order.
FollowUpsKept ==
    LET kept == log \o waiting \o Held \o queue \o pending
    IN /\ {kept[i] : i \in DOMAIN kept} = (1 .. typed) \ lost
       /\ \A i, k \in DOMAIN kept :
            i < k => IF client = "shell" THEN kept[i] < kept[k] ELSE kept[i] # kept[k]

\* A run that ends its turn reports on the workspace as it is: nothing was changed by
\* it after the verification it names, however its jobs, agents, failing commands, repairs
\* and the steering of the user came in between - except by an edit that reported a
\* failure after it had written, for which PublishedIsCurrent is checked - and an
\* answer of the model does not stand in the place of a failed verification.
SuccessIsEarned ==
    \A i \in DOMAIN published :
        LET r == published[i] IN
        r.reason = "end_turn" =>
            ~r.fresh /\ (r.report # NoReport /\ ~r.report.checks => r.text = "summary")

\* A run has one result: what was published is what the caller gets, whoever cancels
\* whom in between, and a caller gets no result that was not published.
ResultStands ==
    /\ Len(published) <= 1
    /\ task.pc \in {"release", "released"} => (task.outcome = "result" <=> published # <<>>)

\* Whoever submits a prompt hears of its end, even if the model or a job never answers.
RunEnds == task.pc # "idle" ~> task.pc = "idle"

\* runner.py:1466: what changed after the latest verification is reported as unverified.
PublishedIsCurrent ==
    \A i \in DOMAIN published :
        published[i].report.why = "ran" /\ published[i].report.checks =>
            ~published[i].fresh /\ ~published[i].silent
=============================================================================
