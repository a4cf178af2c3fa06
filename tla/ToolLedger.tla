---------------------------- MODULE ToolLedger ----------------------------
(***************************************************************************)
(* The durable life of the tool calls of one session: AgentRunner executes *)
(* the calls of an assistant message and records them in SessionStore      *)
(* (agent/runner.py, sessions/store.py).  A run may be cancelled at any    *)
(* await, its process may crash between any two store transactions, and a  *)
(* store call handed to asyncio.to_thread keeps going when the coroutine   *)
(* that awaited it is cancelled: such a call is in `orphans` and takes     *)
(* effect later, in any order with the calls made after it.                *)
(***************************************************************************)
EXTENDS Integers, Sequences, FiniteSets, SequencesExt

CONSTANTS Calls,          \* provider call ids
          Reads,          \* calls of concurrent, non-mutating tools
          Defaulted,      \* calls whose arguments execution completes in place
          ParallelReads,  \* config.agent.parallel_reads
          MaxRuns, MaxCancels, MaxFaults, MaxCrashes     \* bounds of the exploration

ASSUME LedgerAssumption ==
    /\ IsFiniteSet(Calls) /\ Reads \subseteq Calls /\ Defaulted \subseteq Calls
    /\ ParallelReads \in Nat \ {0}
    /\ MaxRuns \in Nat /\ MaxCancels \in Nat /\ MaxFaults \in Nat /\ MaxCrashes \in Nat

VARIABLES
    log,       \* messages table: the transcript
    row,       \* tool_calls table: what the row of each call says
    entries,   \* how often the tool body of each call was entered (not in the store)
    forgotten, \* calls that had begun when the batch stopped waiting for their outcome
    orphans,   \* abandoned store calls that have not taken effect
    passed,    \* those of them that a later reading of the transcript did not wait for
    raced,     \* one of `passed` has changed the store
    pc, stage, \* where the run is; stage tells the two uses of the repair
    seen,      \* the transcript as last read
    todo,      \* store calls the current step still has to make
    draft,     \* the assistant message about to be recorded
    bundle,    \* calls of the batch
    cpc,       \* where the coroutine of each call is
    live,      \* workers of bounded_calls that can take another read
    halt, why, \* how far the batch is on its way out, and what ends it
    evt,       \* the run's cancel event
    run, cancels, faults, crashes

store == <<log, row>>
world == <<entries, forgotten>>
threads == <<orphans, passed, raced>>
batch == <<bundle, cpc, live, halt, why>>
bounds == <<run, cancels, faults, crashes>>
vars == <<log, row, entries, forgotten, orphans, passed, raced, pc, stage, seen, todo, draft,
          bundle, cpc, live, halt, why, evt, run, cancels, faults, crashes>>

executed == {c \in Calls : entries[c] > 0}

Terminal == {"ran", "cancelled", "not_started", "unknown"}
Rows == {"absent", "running"} \cup Terminal

\* `by` is the identity of a message: who wrote it, in which run.
Message(role, calls, kind, by) == [role |-> role, calls |-> calls, kind |-> kind, by |-> by]
UserMessage == Message("user", {}, "-", <<"user", run>>)
Answer(by) == Message("assistant", {}, "-", <<by, run>>)
NoMessage == Message("-", {}, "-", <<"-", 0>>)
Advertise(B) == Message("assistant", B, "-", <<"model", run>>)
Result(c, kind, by) == Message("tool", {c}, kind, <<by, run>>)

IsBundle(m) == m.role = "assistant" /\ m.calls # {}
CallIds(t) == UNION {t[i].calls : i \in {j \in DOMAIN t : IsBundle(t[j])}}

\* The results that follow position i without interruption.
Following(t, i) == {j \in DOMAIN t : j > i /\ \A k \in (i + 1)..j : t[k].role = "tool"}

\* validate_tool_call_order accepts the transcript.
ValidOrder(t) ==
    LET bundles == {i \in DOMAIN t : IsBundle(t[i])} IN
    /\ \A i \in bundles :
          /\ {t[j].calls : j \in Following(t, i)} = {{c} : c \in t[i].calls}
          /\ Cardinality(Following(t, i)) = Cardinality(t[i].calls)
          /\ \A k \in bundles \ {i} : t[i].calls \cap t[k].calls = {}
    /\ \A j \in DOMAIN t : t[j].role = "tool" => \E i \in bundles : j \in Following(t, i)

\* The last message that is not a result, 0 in a transcript of results only.
LastTurn(t) == CHOOSE i \in 0..Len(t) :
    /\ i = 0 \/ t[i].role # "tool"
    /\ \A j \in (i + 1)..Len(t) : t[j].role = "tool"

\* Calls of an unfinished trailing bundle.
Unanswered(t) ==
    IF LastTurn(t) = 0 THEN {}
    ELSE {c \in t[LastTurn(t)].calls : \A j \in Following(t, LastTurn(t)) : t[j].calls # {c}}

\* Mutant of Repairs: every call without a result is called not started.
RepairsForgetRunning(t, running, by) ==
    {Result(c, "not_started", by) : c \in Unanswered(t)}

\* _abandoned_tool_call_results: one result for each of them; a started call
\* has an unknown outcome, the others were never started.
Repairs(t, running, by) ==
    {Result(c, IF c \in running THEN "unknown" ELSE "not_started", by) : c \in Unanswered(t)}

\* It raises unless the repaired transcript is valid.
Repairable(t) == ValidOrder(t \o SetToSeq(Repairs(t, {}, "final")))

-----------------------------------------------------------------------------
(* SessionStore: each call is one transaction under the store's lock.       *)

StoreCall(op, m) == [op |-> op, msg |-> m]
CallOf(m) == CHOOSE c \in m.calls : TRUE

\* start_tool_call: a repeated start is accepted only for the same, still
\* running call with the same arguments.
StartAccepted(c) == \/ row[c] = "absent"
                    \/ row[c] = "running" /\ c \notin Defaulted \cap executed

\* complete_tool_call and cancel_tool_call move a running row to its outcome;
\* the same outcome again is accepted, another one is refused.
SettleAccepted(m) == row[CallOf(m)] \in {"running", m.kind}

Accepted(o) == CASE o.op = "start"  -> StartAccepted(CallOf(o.msg))
                 [] o.op = "settle" -> SettleAccepted(o.msg)
                 [] o.op = "append" -> TRUE

\* _append_message_locked: a message that is already there is not added again.
WithMessage(m) == IF \E i \in DOMAIN log : log[i] = m THEN log ELSE Append(log, m)

\* Mutants of Perform: a settled row without its message; no status guard.
PerformRowOnly(o) ==
    CASE o.op = "append" -> log' = WithMessage(o.msg) /\ UNCHANGED row
      [] OTHER -> /\ row' = [row EXCEPT ![CallOf(o.msg)] = IF o.op = "start" THEN "running" ELSE o.msg.kind]
                  /\ UNCHANGED log
PerformUnguarded(o) ==
    IF o.op = "append" THEN log' = WithMessage(o.msg) /\ UNCHANGED row
    ELSE /\ row' = [row EXCEPT ![CallOf(o.msg)] = IF o.op = "start" THEN "running" ELSE o.msg.kind]
         /\ log' = IF o.op = "start" THEN log ELSE WithMessage(o.msg)

\* The transaction; one that is refused changes nothing.
Perform(o) ==
    IF ~Accepted(o) THEN UNCHANGED store
    ELSE CASE o.op = "start"  -> /\ row' = [row EXCEPT ![CallOf(o.msg)] = "running"]
                                 /\ UNCHANGED log
           [] o.op = "settle" -> /\ row' = [row EXCEPT ![CallOf(o.msg)] = o.msg.kind]
                                 /\ log' = WithMessage(o.msg)
           [] o.op = "append" -> /\ log' = WithMessage(o.msg)
                                 /\ UNCHANGED row

\* to_thread(o) ran to its end before its coroutine went on; abandoned calls
\* may get the store's lock before it or after it.
Await(o) == Perform(o) /\ UNCHANGED threads

\* Cancellation abandons the store calls in S; their threads go on.
Abandon(S) == /\ orphans' = orphans \cup S
              /\ UNCHANGED <<store, passed, raced>>

\* What becomes of an abandoned store call: it gets the lock at last ...
LateStore(o) ==
    /\ o \in orphans \cup passed
    /\ Perform(o)
    /\ orphans' = orphans \ {o} /\ passed' = passed \ {o}
    /\ raced' = (raced \/ (o \in passed /\ store' # store))
    /\ UNCHANGED <<world, pc, stage, seen, todo, draft, batch, evt, bounds>>

\* ... or it was still queued for a thread of the pool, and was withdrawn.
Withdraw(o) ==
    /\ o \in orphans \cup passed
    /\ orphans' = orphans \ {o} /\ passed' = passed \ {o}
    /\ forgotten' = forgotten \cup (IF o \in orphans /\ o.op = "settle" THEN {CallOf(o.msg)} ELSE {})
    /\ UNCHANGED <<store, entries, raced, pc, stage, seen, todo, draft, batch, evt, bounds>>

-----------------------------------------------------------------------------
(* A run, up to the batch of tool calls and after it.                       *)

NoBatch == /\ bundle' = {} /\ live' = 0 /\ halt' = "no" /\ why' = "-"
           /\ cpc' = [c \in Calls |-> "new"]

GoTo(p) == pc' = p /\ UNCHANGED stage
\* The only terminal owner: finalize(), which no cancellation reaches.
Finalize == pc' = "read" /\ stage' = "final"
\* An exception: during finalize it ends the run without a terminal message.
Raise == IF stage = "final" THEN pc' = "rest" /\ UNCHANGED stage ELSE Finalize

StartRun ==
    /\ pc = "rest" /\ run < MaxRuns
    /\ run' = run + 1
    /\ pc' = "read" /\ stage' = "resume" /\ evt' = FALSE
    /\ UNCHANGED <<store, world, threads, seen, todo, draft, batch, cancels, faults, crashes>>

\* sessions.messages, at the start of a run and again in finalize: it does not
\* wait for abandoned calls.
ReadMessages ==
    /\ pc = "read"
    /\ seen' = log
    /\ passed' = passed \cup orphans /\ orphans' = {}
    /\ GoTo("rows")
    /\ UNCHANGED <<store, world, raced, todo, draft, batch, evt, bounds>>

\* Mutant of ReadRows: an unknown outcome is told to the transcript, not to its row.
ReadRowsAppendOnly ==
    /\ pc = "rows"
    /\ todo' = {StoreCall("append", m) :
                    m \in Repairs(seen, {c \in Calls : row[c] = "running"}, stage)}
    /\ GoTo("repair")
    /\ seen' = <<>>
    /\ UNCHANGED <<store, world, threads, draft, batch, evt, bounds>>

\* sessions.tool_calls, then the repairs both reads call for.
ReadRows ==
    /\ pc = "rows"
    /\ LET running == {c \in Calls : row[c] = "running"} IN
       IF Repairable(seen)
       THEN /\ todo' = {StoreCall(IF m.kind = "unknown" THEN "settle" ELSE "append", m) :
                            m \in Repairs(seen, running, stage)}
            /\ GoTo("repair")
       ELSE /\ todo' = {}
            /\ Raise
    /\ seen' = <<>>
    /\ UNCHANGED <<store, world, threads, draft, batch, evt, bounds>>

Repair(o) ==
    /\ pc = "repair" /\ o \in todo
    /\ Await(o)
    /\ IF Accepted(o) THEN todo' = todo \ {o} /\ UNCHANGED <<pc, stage>>
                      ELSE todo' = {} /\ Raise
    /\ UNCHANGED <<world, seen, draft, batch, evt, bounds>>

Repaired ==
    /\ pc = "repair" /\ todo = {}
    /\ GoTo(IF stage = "resume" THEN "user" ELSE "publish")
    /\ UNCHANGED <<store, world, threads, seen, todo, draft, batch, evt, bounds>>

AppendUser ==
    /\ pc = "user"
    /\ Await(StoreCall("append", UserMessage))
    /\ GoTo("model")
    /\ UNCHANGED <<world, seen, todo, draft, batch, evt, bounds>>

\* Mutant of ModelAsks: the ids are not checked.
ModelAsksAnyId(B) ==
    /\ pc = "model" /\ ~evt
    /\ draft' = Advertise(B) /\ GoTo("record")
    /\ UNCHANGED <<store, world, threads, seen, todo, batch, evt, bounds>>

\* The model asks for the calls B; _validate_new_tool_call_ids rejects an id
\* the durable transcript already has.
ModelAsks(B) ==
    /\ pc = "model" /\ ~evt
    /\ IF B \cap CallIds(log) = {}
       THEN draft' = Advertise(B) /\ GoTo("record")
       ELSE UNCHANGED draft /\ Finalize
    /\ UNCHANGED <<store, world, threads, seen, todo, batch, evt, bounds>>

ModelAnswers ==
    /\ pc = "model" /\ ~evt
    /\ draft' = Answer("model")
    /\ GoTo("record")
    /\ UNCHANGED <<store, world, threads, seen, todo, batch, evt, bounds>>

\* A provider or budget error, or the cancel event.
ModelStops ==
    /\ pc = "model"
    /\ Finalize
    /\ UNCHANGED <<store, world, threads, seen, todo, draft, batch, evt, bounds>>

RecordAssistant ==
    /\ pc = "record"
    /\ Await(StoreCall("append", draft))
    /\ IF draft.calls = {}
       THEN /\ Finalize
            /\ UNCHANGED batch
       ELSE /\ GoTo("batch")
            /\ bundle' = draft.calls
            /\ live' = ParallelReads
            /\ UNCHANGED <<cpc, halt, why>>
    /\ draft' = NoMessage
    /\ UNCHANGED <<world, seen, todo, evt, bounds>>

\* The last act of finalize: a stopped run publishes its causal result; an
\* answered one may already have its answer in the transcript.
PublishResult ==
    /\ pc = "publish"
    /\ \/ Await(StoreCall("append", Answer("final")))
       \/ /\ log # <<>> /\ Last(log).role = "assistant"
          /\ UNCHANGED <<store, threads>>
    /\ GoTo("rest")
    /\ UNCHANGED <<world, seen, todo, draft, batch, evt, bounds>>
-----------------------------------------------------------------------------
(* The batch: _execute_calls, bounded_calls and one _execute_one per call.  *)

ActiveAt == {"starting", "started", "running", "returned", "grace", "stopping", "lost"}
Active == {c \in bundle : cpc[c] \in ActiveAt}
Recorded == {c \in bundle : cpc[c] = "recorded"}

callUnchanged == <<seen, todo, draft, evt, bounds, pc, stage>>
MoveTo(c, p) == cpc' = [cpc EXCEPT ![c] = p] /\ UNCHANGED bundle

\* The first exception decides how the batch ends; later ones are drained.
Fail(reason) == IF halt \in {"no", "cancelled"}
                THEN halt' = "fatal" /\ why' = reason
                ELSE UNCHANGED <<halt, why>>

\* Reads run in at most `live` workers; a mutating call runs alone, after them.
Eligible(c) ==
    /\ pc = "batch" /\ c \in bundle /\ cpc[c] = "new"
    /\ IF c \in Reads THEN live > 0
       ELSE Active = {} /\ halt = "no" /\ bundle \cap Reads \subseteq Recorded

Begin(c) ==
    /\ Eligible(c) /\ ~evt /\ halt # "cancelled" /\ why # "refused"
    /\ MoveTo(c, "starting")
    /\ live' = IF c \in Reads THEN live - 1 ELSE live
    /\ UNCHANGED <<store, world, threads, halt, why, callUnchanged>>

\* _check_cancel or script_scope.check() raises before the call starts, and
\* would raise for the next ones.
Refuse(c) ==
    /\ Eligible(c) /\ halt \in {"no", "cancelled"}
    /\ Fail("refused")
    /\ UNCHANGED <<store, world, threads, bundle, cpc, live, callUnchanged>>

StartCall(c) ==
    /\ cpc[c] = "starting"
    /\ LET o == StoreCall("start", Result(c, "not_started", "exec")) IN
       /\ Await(o)
       /\ IF Accepted(o) THEN MoveTo(c, "started") /\ UNCHANGED <<halt, why>>
                         ELSE MoveTo(c, "failed") /\ Fail("error")
    /\ UNCHANGED <<world, live, callUnchanged>>

\* tools.execute enters the tool body.
EnterTool(c) ==
    /\ cpc[c] = "started"
    /\ entries' = [entries EXCEPT ![c] = @ + 1]
    /\ MoveTo(c, "running")
    /\ UNCHANGED <<store, forgotten, threads, live, halt, why, callUnchanged>>

\* The tool, or the refusal of its arguments, policy or approval, gives a result.
ToolReturns(c) ==
    /\ cpc[c] = "running"
    /\ MoveTo(c, "returned")
    /\ UNCHANGED <<store, world, threads, live, halt, why, callUnchanged>>

\* tools.execute raises outside the tool body: its event or artifact cannot be
\* stored.  A batch that already ends for another reason does not notice.
HostFails(c) ==
    /\ cpc[c] \in {"started", "running"} /\ faults < MaxFaults
    /\ faults' = faults + 1
    /\ MoveTo(c, "failed")
    /\ Fail("error")
    /\ forgotten' = IF cpc[c] = "running" /\ why' # "error" THEN forgotten \cup {c} ELSE forgotten
    /\ UNCHANGED <<store, entries, threads, live, pc, stage, seen, todo, draft, evt,
                   run, cancels, crashes>>

\* _await_until_cancelled sees the cancel event.
StopOnEvent(c) ==
    /\ cpc[c] \in {"started", "running"} /\ evt
    /\ MoveTo(c, "stopping")
    /\ UNCHANGED <<store, world, threads, live, halt, why, callUnchanged>>

RanResult(c) == Result(c, "ran", "exec")

\* complete_tool_call inside _finish_after_tool_result.  A result that is a
\* BudgetExceeded ends the batch once it is recorded; a result recorded under
\* the cancel event raises; another one frees its worker.
RecordResult(c) ==
    /\ cpc[c] \in {"returned", "grace"}
    /\ LET o == StoreCall("settle", RanResult(c)) IN
       /\ Await(o)
       /\ \/ /\ ~Accepted(o)
             /\ MoveTo(c, "failed") /\ Fail("error") /\ UNCHANGED live
          \/ /\ Accepted(o)
             /\ MoveTo(c, "recorded")
             /\ \/ Fail("stop") /\ UNCHANGED live
                \/ /\ live' = IF c \in Reads THEN live + 1 ELSE live
                   /\ UNCHANGED <<halt, why>>
          \/ /\ Accepted(o) /\ evt
             /\ MoveTo(c, "lost") /\ UNCHANGED <<live, halt, why>>
    /\ UNCHANGED <<world, callUnchanged>>

\* The grace period ends before the store call does.
GraceExpires(c) ==
    /\ cpc[c] = "grace" \/ (cpc[c] = "returned" /\ evt)
    /\ Abandon({StoreCall("settle", RanResult(c))})
    /\ MoveTo(c, "lost")
    /\ UNCHANGED <<world, live, halt, why, callUnchanged>>

\* The handlers of a cancelled call: the same result again, or "Run cancelled";
\* a refused cancellation of a settled call is ignored.
Unwind(c) ==
    /\ cpc[c] \in {"lost", "stopping"}
    /\ LET o == StoreCall("settle", IF cpc[c] = "lost" THEN RanResult(c)
                                    ELSE Result(c, "cancelled", "exec")) IN
       /\ Await(o)
       /\ IF Accepted(o) \/ (cpc[c] = "stopping" /\ row[c] \in Terminal)
          THEN MoveTo(c, "stopped") /\ Fail("stop")
          ELSE MoveTo(c, "failed") /\ Fail("error")
    /\ UNCHANGED <<world, live, callUnchanged>>

CallStep(c) ==
    \/ Begin(c) \/ Refuse(c) \/ StartCall(c) \/ EnterTool(c) \/ ToolReturns(c)
    \/ HostFails(c) \/ StopOnEvent(c) \/ RecordResult(c) \/ GraceExpires(c) \/ Unwind(c)

\* What a CancelledError does to a call's coroutine, and the store call it leaves.
Interrupted(p) ==
    CASE p \in {"starting", "stopping", "lost"} -> "stopped"
      [] p \in {"started", "running"} -> "stopping"
      [] p = "returned" -> "grace"
      [] p = "grace" -> "lost"
Left(c) ==
    CASE cpc[c] = "starting" -> {StoreCall("start", Result(c, "not_started", "exec"))}
      [] cpc[c] = "stopping" -> {StoreCall("settle", Result(c, "cancelled", "exec"))}
      [] cpc[c] \in {"grace", "lost"} -> {StoreCall("settle", RanResult(c))}
      [] OTHER -> {}

Deliver(S) ==
    /\ cpc' = [c \in Calls |-> IF c \in S THEN Interrupted(cpc[c]) ELSE cpc[c]]
    /\ Abandon(UNION {Left(c) : c \in S})
    /\ UNCHANGED bundle

\* bounded_calls cancels every worker once when one of them raises; one that
\* is recording a result outlives it and goes on to the next read.
DrainReads ==
    /\ pc = "batch" /\ halt = "fatal" /\ Active \cap Reads # {}
    /\ Deliver(Active \cap Reads)
    /\ halt' = "drained" /\ live' = 0
    /\ UNCHANGED <<world, why, callUnchanged>>

BatchDone ==
    /\ pc = "batch" /\ halt = "no" /\ bundle = Recorded
    /\ NoBatch
    /\ GoTo("model")
    /\ UNCHANGED <<store, world, threads, seen, todo, draft, evt, bounds>>

\* Mutant of BatchStopped: it waits for every call of the bundle to end.
BatchStoppedWaits ==
    /\ pc = "batch" /\ halt \in {"cancelled", "fatal", "drained"}
    /\ \A c \in bundle : cpc[c] \in {"recorded", "stopped", "failed"}
    /\ IF why = "error" THEN Finalize /\ NoBatch
                        ELSE GoTo("unstarted") /\ UNCHANGED batch
    /\ UNCHANGED <<store, world, threads, seen, todo, draft, evt, bounds>>

\* The batch raises: its handlers close the calls that did not start, except
\* for an exception they do not catch.
BatchStopped ==
    /\ pc = "batch" /\ Active = {} /\ halt \in {"cancelled", "fatal", "drained"}
    /\ IF why = "error" THEN Finalize /\ NoBatch
                        ELSE GoTo("unstarted") /\ UNCHANGED batch
    /\ UNCHANGED <<store, world, threads, seen, todo, draft, evt, bounds>>

-----------------------------------------------------------------------------
(* _record_unstarted_calls                                                  *)

Unstarted(c) == Result(c, "not_started", "stop")

\* Calls of the batch without a result in the durable transcript; the outcome
\* of some may still be on its way there.
Open == {c \in bundle : \A i \in DOMAIN log : log[i].role = "tool" => log[i].calls # {c}}
FindUnstarted ==
    /\ pc = "unstarted"
    /\ todo' = {StoreCall("start", Unstarted(c)) : c \in Open}
    /\ forgotten' = forgotten \cup
                       {c \in Open : \E o \in orphans : o.op = "settle" /\ o.msg.calls = {c}}
    /\ GoTo("close")
    /\ NoBatch
    /\ UNCHANGED <<store, entries, threads, seen, draft, evt, bounds>>

\* Each one is started and then cancelled; one that another finalizer settled
\* is left alone.
CloseCall(o) ==
    /\ pc = "close" /\ o \in todo
    /\ o.op = "start" => \A p \in todo : p.op = "start"
    /\ Await(o)
    /\ LET settled == row[CallOf(o.msg)] \in Terminal IN
       CASE Accepted(o) /\ o.op = "start" ->
               /\ todo' = (todo \ {o}) \cup {StoreCall("settle", o.msg)}
               /\ UNCHANGED <<pc, stage>>
         [] (Accepted(o) /\ o.op = "settle") \/ (~Accepted(o) /\ settled) ->
               /\ todo' = todo \ {o}
               /\ UNCHANGED <<pc, stage>>
         [] OTHER -> todo' = {} /\ Finalize
    /\ UNCHANGED <<world, seen, draft, batch, evt, bounds>>

Closed ==
    /\ pc = "close" /\ todo = {}
    /\ Finalize
    /\ UNCHANGED <<store, world, threads, seen, todo, draft, batch, evt, bounds>>

-----------------------------------------------------------------------------
(* Cancellation and crashes                                                 *)

\* AgentRunner.cancel sets the event.
CancelEvent ==
    /\ pc # "rest" /\ ~evt /\ cancels < MaxCancels
    /\ evt' = TRUE /\ cancels' = cancels + 1
    /\ UNCHANGED <<store, world, threads, pc, stage, seen, todo, draft, batch, run, faults, crashes>>

\* _run, for a deadline or a cancelled caller: the event and worker.cancel(),
\* which the await of the moment receives.
TaskCancel ==
    /\ pc # "rest" /\ stage = "resume" /\ cancels < MaxCancels
    /\ evt' = TRUE /\ cancels' = cancels + 1
    /\ \/ /\ pc \in {"read", "rows", "user", "model", "record", "unstarted"}
          /\ Abandon(CASE pc = "user" -> {StoreCall("append", UserMessage)}
                       [] pc = "record" -> {StoreCall("append", draft)}
                       [] OTHER -> {})
          /\ todo' = {} /\ seen' = <<>> /\ draft' = NoMessage
          /\ Finalize /\ NoBatch
       \/ /\ pc \in {"repair", "close"}
          /\ \E o \in todo : /\ o.op = "start" => \A p \in todo : p.op = "start"
                             /\ Abandon({o})
          /\ todo' = {} /\ UNCHANGED <<seen, draft, batch>>
          /\ Finalize
       \/ /\ pc = "batch" /\ halt \in {"no", "cancelled"}
          /\ Deliver(Active)
          /\ IF \E c \in Calls : cpc'[c] = "stopped"
             THEN Fail("stop")
             ELSE IF Active \subseteq Reads
             THEN why' = "stop" /\ halt' = IF Active = {} THEN "fatal" ELSE "cancelled"
             ELSE UNCHANGED <<halt, why>>
          /\ UNCHANGED <<pc, stage, seen, todo, draft, live>>
    /\ UNCHANGED <<world, run, faults, crashes>>

\* The process dies: its coroutines, threads and tools with it.
Crash ==
    /\ pc # "rest" /\ crashes < MaxCrashes
    /\ crashes' = crashes + 1
    /\ pc' = "rest" /\ stage' = "crashed" /\ evt' = FALSE
    /\ orphans' = {} /\ passed' = {} /\ todo' = {} /\ seen' = <<>> /\ draft' = NoMessage
    /\ NoBatch
    /\ UNCHANGED <<store, world, raced, run, cancels, faults>>

-----------------------------------------------------------------------------
Init ==
    /\ log = <<>> /\ row = [c \in Calls |-> "absent"]
    /\ entries = [c \in Calls |-> 0] /\ forgotten = {}
    /\ orphans = {} /\ passed = {} /\ raced = FALSE
    /\ pc = "rest" /\ stage = "final"
    /\ seen = <<>> /\ todo = {} /\ draft = NoMessage
    /\ bundle = {} /\ cpc = [c \in Calls |-> "new"] /\ live = 0 /\ halt = "no" /\ why = "-"
    /\ evt = FALSE
    /\ run = 0 /\ cancels = 0 /\ faults = 0 /\ crashes = 0

RunStep ==
    \/ ReadMessages \/ ReadRows \/ Repaired \/ AppendUser
    \/ (\E o \in todo : Repair(o) \/ CloseCall(o))
    \/ (\E B \in (SUBSET Calls) \ {{}} : ModelAsks(B)) \/ ModelAnswers \/ ModelStops
    \/ RecordAssistant \/ PublishResult
    \/ DrainReads \/ BatchDone \/ BatchStopped \/ FindUnstarted \/ Closed

\* No further prompt arrives (MaxRuns): any other state without a step is a deadlock.
Idle == pc = "rest" /\ run = MaxRuns /\ orphans \cup passed = {} /\ UNCHANGED vars

Next == \/ Idle \/ StartRun \/ RunStep \/ (\E c \in Calls : CallStep(c))
        \/ (\E o \in orphans \cup passed : LateStore(o) \/ Withdraw(o))
        \/ CancelEvent \/ TaskCancel \/ Crash

Spec == Init /\ [][Next]_vars

\* Coroutines and store threads are scheduled, tools return (each has its own
\* timeout) and a refused or failing step is never taken forever.
Fairness == /\ WF_vars(RunStep)
            /\ \A c \in Calls : WF_vars(CallStep(c))
            /\ WF_vars(\E o \in orphans \cup passed : LateStore(o))

FairSpec == Spec /\ Fairness
=============================================================================
