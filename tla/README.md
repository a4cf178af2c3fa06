# TLA+ models of Borealis Coder

Borealis Coder is a terminal coding agent: an asyncio program that asks language
models for tool calls, runs the tools under a policy, and keeps every session in
SQLite.  This directory holds TLA+ modules of the parts of it that are concurrent or
must survive crashes, the TLC configurations that check them on small instances, and
proofs that TLAPS checks for every instance.  Paths below are relative to
`src/src/borealis_coder/`, the package of the repository.

## The system

| Part | State | Operations | Interacts with | Hard behaviour |
|---|---|---|---|---|
| Runner (`agent/runner.py`) | per-session lock, cancel event, steering queue, the worker task of a run | `run`, `cancel`, `steer`, `close`; the loop of `_run_locked`; `finalize` | every other part | cancellation at any await, deadline, one terminal owner |
| Tool-call lifecycle (`runner.py`, `tools/base.py`, `sessions/store.py`) | `messages`, `tool_calls` tables; the batch in progress | `_execute_calls`, `_execute_one`, `_record_unstarted_calls`, `_abandoned_tool_call_results`; `start/complete/cancel_tool_call`, `append_message` | store threads, event bus | store calls that outlive the coroutine that made them, crash between two transactions, grace period |
| Session store (`sessions/store.py`) | SQLite, one connection and one lock per process, `_run_leases` | the above, leases, sessions, usage, cache, artifacts | other processes, through files | reader against writer, crash, deletion |
| Run lease | a flock'ed file per session, `sessions.status` | `acquire_run_lease`, `release_run_lease`, `_reconcile_running_row` | runner, any reader | stale status, probe of a live lease |
| Budget (`agent/budget.py`) | turns, requests, closure reservations, cost holds | `before_turn`, `before_model_request`, `reserve_closure`, `reserve_cost`, `hold_usage`, `add_usage` | runner, delegates, providers | a ceiling shared by a tree of agents |
| Delegation (`tools/delegate.py`, `agent/swarm.py`) | `SwarmState`: admissions, provider slots, receipts | `admit`, `execute`, `_investigate`, `bounded_calls` | budget, runner, providers | siblings racing for requests and slots, recursive cancellation |
| Script (`tools/script.py`) | jobs, slots, the fatal error of the scope | `start`, `control`, `_invoke`, `_run`, `close` | runner, tools | child calls against the end of the run |
| Events (`events.py`) | two pending batches, the flush lock, the trace and its rotated segments | `emit`, `flush`, rotation, maintenance | store, trace | failing sink, order, rotation half-way |
| Compaction (`agent/compaction.py`) | artifacts in the store | pruning, selection, evidence, summary, reuse, retry after an overflow | runner, budget, store | incremental evidence, keep call bundles whole |
| Workspace transactions (`tools/patch.py`, `tools/_workspace_lock.py`, `safety/checkpoints.py`) | thread lock, file lock, checkpoints | patch, write, delete, rollback, prune | other processes, editors | partial commit and rollback, pruning by somebody else |
| Verification (`runner.py`, `tools/verification.py`) | `mutation_revision`, `verified_revision` | `_verify_changes`, `_handle_candidate_verification`, `_finish_run_output` | runner | stale verification |
| ChatGPT credentials (`auth/chatgpt.py`, `providers/chatgpt.py`) | `auth.json`, `_credentials`, an asyncio lock, a lock file | `ensure_valid`, `refresh`, `stream` with its retry after a refusal | the token service, other processes, the Codex client | a refresh token can be spent once; stale lock file, cancelled exchange |
| Providers, HTTP, MCP, ACP, UI, policy, context | mostly per request | | | I/O, text and protocol formats |

`PROJECT.json` lists every part with its status, and the hazards of the code at their
lines with the properties that cover them.

What makes each part correct, in a sentence: a transcript can always be continued and
tells the truth about every call; a session has one owner and only a lost run is called
interrupted; the ceiling on requests holds and no agent spends what was reserved for
another; a charge is counted once; an event is stored once and in order; a job never
outlives its run; a refused mutation leaves nothing and a torn one can be put back; every
prompt is kept in order; a request stands for the whole conversation; an answer never claims
a verification that is out of date; a refresh token is spent once and its successor is kept.

## Modules

| Module | Models | State and actions |
|---|---|---|
| `ToolOutcome` | what the transcript promises (abstract) | `asked`, `entries`, `forgotten`, `outcome`; `Ask`, `Execute`, `Forget`, `Resolve` |
| `ToolLedger` | the durable life of the tool calls of one session | `log` = messages, `row` = tool_calls, `entries` = how often each tool was entered, `orphans` and `passed` = store calls whose await was cancelled; `forgotten`, `raced` (history); a run from `StartRun` to `PublishResult`; one coroutine per call (`CallStep`), the batch, cancellation, crash |
| `MCToolLedger` | its properties and instances | |
| `RunLease` | lease file, status and readers, several processes | `status`, `owner` (the flock), `lease` (`_run_leases`), `txn` (SQLite's write lock), `read`, `run`, `late` |
| `RequestBudget` | the request budget shared by a run and its delegates | `requests`, `closures`, `admitted`, `slots`, and where each agent is in its loop |
| `EventBus` | `EventBus` of `events.py` with its two sinks, the trace's rotation, the maintenance command | `pending`, `db`, `files` (the trace and its segments), `queue` (the flush lock), `orphans` (threads of cancelled flushes), `seen` by observers; `Emit`, `TakeLock`, `Stored`, `Traced`, `SinkFails`, `Resume`, `Cancel`, `LateWrite`, `Prune`, `Repack` |
| `UsageSettlement` | the money of a run and of its session | `cost`, `pending`, `held` of `Budget`, `usage` and `reserved` of each request, `stored` (usage table), `entry` (the cached compaction summary); `Ask` to `Store` |
| `ScriptScope` | `ScriptScope` of `tools/script.py`, for several runs of one runner | `owner`, `stage`, `process`, `call` of each job, `slots` and `queue` (the runner's job slots and mutation lock), `fatal`, `cancelled` (cancellations not yet received), `root` (where each run is); `late` (history); `RootStep`, `JobStep`, `CallStep` |
| `WorkspaceTransaction` | file mutations under the workspace lock, checkpoints, rollback, pruning | `file`, `threads` and `flock` (the two levels of the lock), `job` (a tool call or a command), `checkpoint` of each job; one action per system call that matters |
| `MCWorkspace` | its instance | |
| `ConversationBundles` | the pure part of compaction: pruning, bundles, evidence, sizes, both compactors | operators over sequences of messages |
| `ContextCompaction` | what a run sends of a session, from the history to the request | `history`, `artifacts`, `answered` (durable); `retries`, `requests`, `target`, `plan`, `parent`, `chunks`, `view` (of the run), `guided` (history); `Prepare`, `Tighten`, `Choose`, the summarizer, `Record`, `Route`, `Overflow`, and what is said |
| `MCCompaction` | its instance: what users say and what calls return | |
| `VerificationReport` | what a run knows of its workspace, reports, and what a final answer may say | operators |
| `RunLifecycle` | a run from the prompt to its result, its clients, its three tasks, its turns, steering and verification | `pending`, `queue`, `accepting` (where a prompt is), `waiting`, `task`, `stop`, `work` (the worker's locals), `log`; `fresh`, `silent`, `lost`, `published` (history) |
| `MCRunLifecycle` | its instances | |
| `CredentialRefresh` | the credentials shared by the requests of several processes | `disk` (`auth.json`), `cache` and `inside` (each process's `_credentials` and the holder of its `_refresh_lock`), `lock` and `stale` (the lock file), `task` and `thread` (a request and what it has in `to_thread`), `newest` (the token service); `Start` to `Answered` |
| `MCCredentials` | its instances | |
| `AdmissionProofs` (of `RunLease` and `RequestBudget`), `ToolLedgerProofs`, `WorkspaceTransactionProofs`, `CredentialRefreshProofs`, `ScriptScopeProofs`, `RunLifecycleProofs`, `UsageSettlementProofs`, `SessionProofs` (of `EventBus` and `ContextCompaction`) | proofs | |

Each step of a module is what the code does between two points where another actor can
interfere: a stretch without `await`, a store transaction, a system call.

How they compose.  `RunLifecycle` EXTENDS `VerificationReport`, and `ContextCompaction` EXTENDS
`ConversationBundles`.  A batch of calls and a request to a model are single steps of
`RunLifecycle`; `ToolLedger` opens the batch, `RequestBudget` and `UsageSettlement` the request,
`ContextCompaction` its preparation, `ScriptScope` the jobs, `WorkspaceTransaction` one
mutating call, and `RunLease` the lease that a run takes.  They are checked apart: their
product is out of reach, and what each needs of another (a batch ends with a result for each
call, a run has the session alone, a job is stopped at the close) is a property of that other.

**ToolLedger.**  A message is a record of its role, the calls it names, the kind of
result it carries and its identity; texts are left out.  A result's `kind` merges the row's
status and the metadata that tells cancelled, never started and unknown outcomes apart.
`asyncio.to_thread` does not stop its thread when the awaiting coroutine is cancelled, so
a cancelled store call moves to `orphans` and is performed later by `LateStore`.
Nothing orders these calls: `threading.RLock` is not fair, so one of them may get the store before or
after what its coroutine does next, and one that is still queued for a thread of the pool is withdrawn
by its cancellation (`Withdraw`).  `sessions.messages` does not wait for them either: those that a reading of the
transcript leaves behind are `passed`, and once one of them has changed the store the run is
`raced`.  Four of the properties hold until then and say so; what becomes of a raced transcript is under
Disagreements.  `forgotten` are the calls that had begun and that the host no longer knows of: their tool's host
failed, their outcome was still in its thread when the batch was closed, or it was withdrawn.
`stage` distinguishes the two uses of the repair (resume and finalize).  Calls are in
`Reads` when the tool is concurrent and free of side effects; `Defaulted` are the calls
whose arguments execution completes in place (`call.arguments = {...}` in
`ToolRegistry._execute`), for which a second `start_tool_call` is refused.
Not modelled: nested calls of scripts and delegates, workspace snapshots (a longer
"running"), event persistence, the feedback messages of verification (user messages,
which do not interact with the order of results).  A result or message that is repaired
is taken from a set: the code goes in the order of the bundle.

**RunLease.**  `read` follows `_reconcile_running_row` from the SELECT, which is outside
a transaction (Python's `sqlite3` opens one only for the UPDATE), to the commit, which comes
after the lease is released.  The process's store lock is `StoreFree`.  `clean` is
a history variable.

**RequestBudget.**  An agent is a set of states of its loop.  The clock and the dollar
budget can stop any request, so they are nondeterministic.  `concluded` is a history
variable: children at work that have sent a conclusion request.
A delegation refused for want of requests keeps its admission, as in the code.
Retries and recovery requests are repeated at will: the ceiling ends them.

**EventBus.**  A flush awaits two threads.  A cancelled flush releases the lock and leaves its
thread behind; the next holder takes a snapshot that contains the same events again.  `Insert`
is INSERT OR IGNORE, the trace only appends.  An event is its index in `emitted`.
A batch fails as a whole in SQLite and after any record, or inside a rotation, in the trace.
The maintenance runs in another process: it prunes the oldest rows, then repacks the
segments, and may fail between two of them (`torn`).  `Prune` does not reach rows that a
pending batch or a thread left behind could still write again: the retention is 250 000 rows by
default and a batch is 64, and a retention so short that it did would store such a row twice in
time.  Records have one size.  Not modelled: a crash (it freezes `db`, which is a prefix at
any time), redaction, partial lines, the clock of the age limit.

**UsageSettlement.**  A request has one collector for all its attempts; `hold_usage` counts it
in `pending_cost_usd` until the sink takes it.  `Interrupt` is a cancellation at any await of
a request: an attempt on the wire leaves an incomplete usage, whose real cost only `spent`, a
history variable, knows.  `charged` and `lost` are history too: what a crash or a failed write
takes with it is not a charge forgotten by the code.  The root and its delegates do not ask at
the same time, because the root waits for its batch.
A usage sink that fails (`StoreFails`) ends the run if the request was the root's own.  That of a delegate is the
error of a tool (`tools/base.py:297`), and a summarizer whose usage cannot be stored is replaced by the deterministic
summary (`agent/compaction.py:1642`): the run goes on, with the charge in its budget and not in its session.
If the summary itself cannot be cached, its charge is settled directly and then the run fails.
`put_pending_compaction_summary` always inserts here: the losing branch needs a second run of
the session at the same time, which the lease excludes.

**ScriptScope.**  `cancelled` is a cancellation that asyncio will deliver at the task's next
await; `finish_on_cancellation` holds it back while a worker is spawned or cleaned up, and a
task that is cancelled before its first step never runs, so that its slot waits for the close.
`queue` is the runner's `_mutation_lock` with its waiters, shared by the direct calls and by the
nested calls of every run; reads have a semaphore per scope (`ParallelReads`).  The budget can be
found exhausted at any check.  A nested call looks at its scope when it asks for the lock (`Request`) and when it has
it (`Admit`).  The start of its row, `tool.started`, `tool.policy` and the approval are awaited after that, so
that the tool is entered in a later step (`Enter`), which nothing checks: `late` are the calls that enter it after the
stop of their scope.  A cancellation of the job reaches a call through the gather of its exchange, so the task
that runs the tool may be a step ahead of it.  A wait for a job in the foreground has a timeout, so it is not a
state of the run.  `SpawnFails`, `CleanUpFails`, `RecordFails` and `RetryFails` are the failures
of the host.  A cleanup that fails under a pending cancellation is not reported to the scope,
but the close tries it again.  Not modelled: what a job answers, the worker's protocol,
nested rows, and the second close that `AgentRunner.close` makes after the runs have ended.

**WorkspaceTransaction.**  The contents of a file are who wrote them and whether the file exists;
that is all that the hash of a preimage has to tell apart.  A job is a patch (several files,
with an `active` marker on its checkpoint), a write, edit or deletion of one file, a rollback
by the user, or the maintenance, which prunes without the lock.  A call awaits only while it
polls for the lock, so it can be cancelled only there; the rest runs in the event loop's thread
and is interleaved with other processes, editors (`Edit`) and crashes.  The kernel frees the
lock file of a process that dies.  `older` of a checkpoint is the set of complete ones before
it, which stands for its creation time.  The byte and age limits let the pruning take any number
of the oldest, but never the newest (`Spares`).

**ConversationBundles, ContextCompaction.**  A message is [id, role, tag, calls, path, cut]:
the tag says what the text is about (a request, a file that was read, an edit, a failure, a plan ...).
Texts have unit sizes, except a file that was read; facts and excerpts of a summary are sets, each
member of size one.  The operators follow `prune_provider_messages`, `bundle_conversation`,
`extract_compaction_evidence`, `compact_messages_v1` and `compact_messages`, for all bundles and sizes.
A system prompt has the instructions of the task, and the guidance on the remaining budget when two requests are left or
fewer (`Guidance`; that two turns are left or fewer, which adds the same text, is not modelled: turns do not change while a
request is prepared).  `refresh_budget_guidance` adds it before the target is computed, and once more when the summarizer is done.
`_fit_artifact_to_request_byte_target`, which is called then, works on bytes only and has no counterpart here.
Findings are carried up to a number (`MaxFindings`, twelve in the code).
The run is of version 2; what version 1 does not keep is under Disagreements.
The state machine is one session: the history grows by what the user says and by turns of the
model; before each request the view is prepared from the latest artifact or from the whole
history, compacted, tightened until what it keeps fits with its continuation state, summarized
in chunks by the model if requests are left, recorded, and cut to the limits of the route. A provider may
find any request too long.  `answered` are the answers of the summarizer in `key_values`, which
outlive a run that is stopped.  Not modelled: the token estimate, the rendering of a summary,
partial reads, the evaluation harness.

**VerificationReport, RunLifecycle.**  The context keeps what `ToolContext` knows of the workspace:
files that changed, roots, whether that is complete, and whether only the end of a process is in
doubt.  A text is known by what it claims ("answer", "claim" of a verification, "summary", an answer
with the summary).  The caller awaits a task (`_run`), the task awaits a worker (`_run_locked`),
and the worker's terminal result is shielded: `kill` is a cancellation that asyncio has yet to
deliver to the worker, `task.pc = "reap"` the join that follows.  The shell keeps follow-ups in
`pending` until the session accepts them and reclaims what no turn took; ACP steers or queues at the
session's lock.  `queue` is `_steering`; `hand` the prompt that `_drain_steering` has taken and not
stored.  `fresh` is a history variable, the truth of the workspace: something was written since the latest
verification that the runner was told of, or will be when the batch or the job ends; `silent` is the other case.  An edit
has four outcomes: it does nothing, it writes and puts all back, it writes and reports a failure
(`tools/patch.py:164` when a restore fails or a checkpoint cannot be pruned: `ToolRegistry._execute` makes an error result of it without
`changed_files`), or it writes and says so.  The writes of a delegate are counted on every way out (`runner.py:803`).  Tools are of five kinds (`Batches`): "read", "edit", "shell" (may be cut short or
leave a process), "spawn" (a job of a script that writes while the run goes on) and "delegate".
Not modelled: resuming the event trace, the helper request that recovers a terminal answer,
images.

**CredentialRefresh.**  Credentials are [login, turn]: the login they come from and how often they
were exchanged since.  The token service is external: it accepts the newest turn of a login, and an
exchange makes the next one.  A request loads credentials, refreshes them if they are near
their expiry or were refused, sends, and may be refused once more.  The two waits of a refresh, for
the lock file and for the exchange, are threads that a cancelled task leaves behind: `adrift` are the
exchanges nobody waits for, and a thread that still tries the lock file may create it for nobody.
A lock file becomes `stale` when its owner is not at work (`AtWork`): the exchange times out after 30
seconds and the file is broken after 120.  Breaking it is two steps, as in the code, so it can remove a
file that is no longer the stale one; `raced` is the history of that.  `cut` are the credentials whose
exchange was interrupted, so that their successor may be lost, and `twice` those that were exchanged when
spent.  Not modelled: a refused exchange's texts, answers without a new
refresh token, logout, tokens taken from the environment.

## Runs

| Run | Instance | Shows |
|---|---|---|
| `ledger` | 2 reads and 1 mutating call whose arguments are defaulted, 2 workers, 2 runs, 1 cancellation, 1 host failure, 1 crash, threads in any order or withdrawn | `TranscriptRepairable`, `SettledAtRest`, `RowMatchesResult`, and `ToolLedger` implements `ToolOutcome` |
| `ledger_any_order` | 1 read, 1 mutating call, 2 runs, 2 cancellations, 1 host failure, threads in any order or withdrawn | `OutcomesAreFinal`, `RunEnds` |
| `leases` | 3 processes, 3 runs, 1 cancellation, 1 fault, 2 crashes | `MutualExclusion`, `LiveNotInterrupted`, `InterruptedMeansLost`, `OwnerReleases` |
| `request_budget` | 3 children, depth 2, 5 requests, 3 turns each, 1 provider slot, batches of 2 | `Funded`, `ConclusionFunded`, `CombineFunded`, `Drained`, `RunSettles` |
| `event_bus` | 3 coroutines, 3 events, batches of 2, a trace of 2 segments of 2 records, 1 row retained, 2 cancellations, 1 fault, 1 maintenance | `StoredInOrder`, `ObservedIsStored`, `TracedInOrder`, `EmitEnds` |
| `usage_settlement` | root with 2 routes and 2 attempts, 2 delegates, limit 5 with estimates of 2, 3 requests, 2 runs, 1 fault, 1 crash | `PendingExact`, `WithinBudget`, `SettledOnce` |
| `script_scope` | 2 runs, 2 jobs with 1 call each, 2 slots, 1 read at a time, 1 failure of the host | `NothingOutlivesRun`, `LateEffectsBounded`, `StoppedDrains` |
| `workspace` | 3 jobs in 2 processes on 2 files: a patch, then a deletion or a rollback; another patch or maintenance; 1 checkpoint retained, 1 edit, failure or crash | `RefusedLeavesNothing`, `Recoverable`, `NoLostUpdate`, `TransactionEnds` |
| `compaction` | 6 messages about 1 file, 2 bundles kept, sizes 1 and 3, trigger 8, target 7, hard limit 11, route limit 9, tool volume 4, 1 finding carried, 4 requests per run, 1 retry | `EverythingOnce`, `EvidenceFaithful`, `OnlyGuidanceBreaks` |
| `run_lifecycle` | 3 prompts of a shell or 2 of ACP, 3 turns, 1 repair, 1 root, 4 batches, 1 stop or failure | `FollowUpsKept`, `SuccessIsEarned`, `ResultStands`, `RunEnds` |
| `stale_verification` | 2 prompts of a shell, 5 turns, 1 batch, 1 stop | violation, see Findings |
| `credentials` | 2 requests in one process and 1 in another, 2 refusals, 1 expiry, and 1 cancellation, failure, death or login | `SpentOnce`, `FileUsable`, `RetryIsNewer`, `RequestEnds` |

Why the bounds are enough.  Ledger: two runs are needed for a resume to meet what a run
left, and for an id to be used again; two reads and a write for a drain with one
worker recording, one running, and a call not started; in the other run, two cancellations for one during
the grace period of another.  A crash takes the threads with it, so what it adds is met with one.  Leases: an owner, a stale reader and a second requester are
three processes, and two crashes leave two stale rows.  Budget: a parent, its child
and a sibling contend for one slot and five requests, of which at most three are
reserved; depth two is the first at which a child waits for a child.  Events: a thread left
behind, a flush that repeats its batch and a waiter are three coroutines, and two cancellations
leave two threads, for the same or for different batches; repeated batches overflow the two
segments, so that records are dropped by a rotation as well as by the repack.  Money: two delegates fit the limit
and a third request does not, and an attempt may cost 0, 1 or 2, so that a request with a retry
can exceed its estimate.  Scripts: two jobs are siblings in one run, or compete for the lock
from two runs; one failure stops a job, and its retry may fail without another.  Workspace: a patch of two files can be
torn between them; its own process has a second job, so that the thread lock matters, and the other
process one that commits or prunes meanwhile; with one checkpoint retained, every pruning
takes all it may.  Compaction: six messages are a request, two calls with their results, and a later prompt
or answer, so that an artifact is built on an artifact; four requests are two before the guidance is due and two with it; and the smallest limits at which a
summary, one excerpt and one bundle fit make each of the fallbacks happen.  Lifecycle: three turns are one that
edits, one that answers and is verified, and the repair, which is the last and has no tools; a
second and third prompt arrive while the first is
still held, drained or queued.  Credentials: two requests contend for the lock of their process while
a third contends with it for the file; an expiry and two refusals are three refreshes, one
more than there are retries of one request.

Deadlock is checked except for `leases`, `compaction`, `run_lifecycle` and `stale_verification`,
where the bounds on runs, messages and prompts let everybody come to rest; `Idle`, `Over`, `Quiet`, `AllEnded`
and `Rest` mark the legitimate ends of the other modules.

Fairness.  `ToolLedger`: weak fairness of the run, of each call's coroutine and of the store
threads; a tool returns because each tool has a timeout of its own, cancellation and failure
are never obliged.  `RunLease`: a store call that has begun ends; a run ends
because of `agent.max_time_seconds`.  `RequestBudget`: provider requests end (timeouts), a child
waiting for a slot takes one when one is free, batches end when their workers
have; a model is never obliged to delegate or to stop before its budget.  `EventBus`: a thread
of the pool ends and asyncio schedules what is ready; `asyncio.Lock` serves its waiters in order.
`ScriptScope`: a spawn, a kill, a record and a cancelled call end (each has a timeout or is a
step of the event loop), and a received cancellation is acted on; a script is never obliged to
return, nor a run to end.  `WorkspaceTransaction`: weak fairness of each job's steps; a waiter for
the lock polls it until it is free, and no job holds it for ever.  `RunLifecycle`: the task, the
execution and the terminal result are scheduled when they are ready, and the deadline comes; neither
the model nor a job need ever answer, and that the run ends nevertheless is what `RunEnds` shows.
`CredentialRefresh`: weak fairness of each request with its thread: an exchange, a request and the wait
for a lock file have timeouts, and a cancelled task passes its lock on.

## Findings

* `stale_verification` (`agent/runner.py:1203`): a batch counts what its calls may have written only if
  `_execute_calls` returns.  A run that was verified, is steered, edits a file and is cancelled in the next
  call of that batch keeps its revision, and publishes the report that the checks passed, made
  before the edit, where `runner.py:1466` promises "Workspace changed after the latest automatic
  verification; the latest state was not verified."

## Disagreements

What the models show of the code where a property that one would want does not hold, without a run of
its own.  Each can be reproduced by checking the named property with the constants given, the others being those
of the module's configuration.

* `RotationPersisted` of `CredentialRefresh` with `Troubles = {"cancel"}` (`auth/chatgpt.py:290`): `docs/PROVIDERS.md:54`
  says "token rotation is persisted atomically under a cross-process credential lock".  The exchange runs in a thread
  and what it returns is stored by the task that awaits it.  If that task is cancelled, the service rotates
  the token, the answer is dropped, and `auth.json` keeps a token that is spent.
* `RefreshExclusive` of `CredentialRefresh` with `Troubles = {"death"}`, three processes and `ProcessOf <- Apart`
  (`auth/chatgpt.py:495`): `docs/SECURITY_MODEL.md:191` says that near-expiry tokens are refreshed
  "under an in-process and cross-process lock".  A stale lock file is found and removed in
  two steps and by name.  Two processes that find the file of a dead one both remove it: the second removes
  the one that the first has made meanwhile, and both refresh.
* `EverythingOnce` of `MCCompaction` with `Version` 1, `Trigger` 9, `Target` 4, `Reserve` 0 and `MaxMessages` 8 (`agent/runner.py:3028`):
  with `compaction_version = 1` an artifact names as its source only
  what it summarises, but carries the retained messages as well.  `_reuse_incremental_compaction` appends
  all that follows the source, so the retained messages are sent twice; if they hold
  calls, the ids are repeated and the reuse is refused.
* `TranscriptRepairable` of `MCToolLedger` without its exception `raced`, with one call, one run and one cancellation
  (`agent/runner.py:1439`): the comment promises a valid transcript after a stop.
  `finalize` reads the transcript while the thread that appends the assistant
  message may still be waiting for the store's lock.  If it gets the lock last, the bundle of
  calls is recorded with a terminal answer and no results, and the next resume raises.
* The exception `forgotten` of `ToolOutcome` (`agent/runner.py:4381`): with two reads and one host failure, a call that ran and whose
  result could not be collected (an artifact or event that could not be stored) is closed as not started when the
  batch ends for another reason at the same moment.  With two cancellations and no failure it happens too: the store call that settles
  a call that ran is withdrawn, or is still in its thread, when `_record_unstarted_calls` looks for calls without a result.
* `LateEffectsBounded` of `ScriptScope` with 0 in the place of its bounds, one run and no failure (`tools/script.py:209`): the check under the lock is the
  last one.  A scope that fails or closes while a nested call records its start, its events and its
  approval does not keep that call from its tool; the job is cancelled, but the task may enter the tool first.
  A direct call of a run has the same window behind the check at `agent/runner.py:4325`.
* `OnlyGuidanceBreaks` of `MCCompaction` without its exception (`agent/runner.py:2825`): a target is computed with more than two
  requests left, the summarizer spends them down to two, `refresh_budget_guidance` then lengthens the system prompt, and a
  request that had no room to spare for it raises `CompactionError` instead of being sent.
* `LeaseHasRun` of `RunLease` with two processes, one run and one cancellation (`agent/runner.py:615`):
  a cancellation during the acquisition of the lease
  leaves it to a process without a run until its store is closed.
* `LeftoversRetried` of `ScriptScope` with one run, two jobs and `MaxFaults = 2` (`tools/script.py:386`):
  the retry of a termination that failed is one loop
  over the jobs, which the first failure leaves.  A second worker that could not be stopped stays
  alive without its retry, and `finalize` raises before the terminal result and the idle status.
* `AnswerFunded` of `ContextCompaction` with `KeepRecent` 2, `Trigger` 9, `Target` 7, `Hard` 11, `Asks` {"request"},
  `MaxChunks` 2, `MaxRequests` 3 and `MaxMessages` 8 (`agent/runner.py:2687`): the test for the last request is made once,
  before the first chunk.  A summary of two chunks can spend the request that was left for the answer.
* ACP (`docs/PROTOCOLS.md:110`): a prompt that is steered while the run is ending is
  acknowledged and stays in the session's queue until the next prompt starts a run.  The shell
  reclaims it instead.  `FollowUpsKept` counts it as kept, in the queue.
* A prompt that `_drain_steering` has taken from the queue is gone when its append to the store
  fails or is cancelled before it began (`lost` in `RunLifecycle`).
* A patch whose pruning fails after its last write reports a failure although it was applied (the ending
  "late" of `WorkspaceTransaction`); `RefusedLeavesNothing` is about the other refusals.  The runner does not see it as a change
  (`agent/runner.py:5242`), nor a patch that is left torn: a run that was verified before can end its turn, or be cancelled, and publish that
  the checks passed.  `PublishedIsCurrent` counts it (`silent`), `SuccessIsEarned` excepts it.
* The preimage is read when a patch is planned, the checkpoint a little later, and the check of the preimage comes
  after both.  An editor that changes a file between plan and checkpoint, and changes it back
  before the check, leaves its bytes in the checkpoint; hence "or saved by an editor" in `Recoverable`.
* `LoginStays` of `CredentialRefresh` with `Troubles = {"login"}` (`auth/chatgpt.py:314`): a refresh in flight
  stores the successor of the old login over a login that was made meanwhile.
* `RefusalRefreshesOnce` of `CredentialRefresh` with `Troubles = {}` and two refusals (`auth/chatgpt.py:268`):
  `initial` is read after the process's lock is taken, so a second request that was refused with
  the same token compares the file with what the first one has just stored, and exchanges that again.
* A cancellation while the lock file is being acquired (`auth/chatgpt.py:276`) leaves a file that nobody removes: the next
  refreshes fail until it is 120 seconds old.

Of less consequence: a record may appear in the trace twice after a cancelled or
failed flush (the table ignores the repetition, the trace cannot); a reader's probe can refuse a run as
already running for a moment, and two readers of a dead session can both report it as running; a
worker that absorbs its cancellation while it records a result starts the next read of a batch
that is being drained; a conclusion request that is retried, overflows or is rejected
is paid from unreserved capacity.

## Proofs

TLAPS proves the following for every value of the constants that satisfies the `ASSUME`s
of the modules (a finite set of agents, natural limits, `None` not a process or job, ...).
`OwnershipOK`, `SlotsOK`, `SlotsHeld` and `IntentBeforeEffect` are proved and need no run.

* `AdmissionProofs`, of a session's lease (the specification is named `LeaseSpec`, since the module extends both):
  `LeaseTypeCorrect`, `Ownership`, `ExclusiveRuns`, `LiveRunsStayRunning`,
  `InterruptedRunsWereLost`.  The invariant is `OwnershipOK` with two more parts:
  while a run is in progress no UPDATE to "interrupted" is pending and the
  status says running (`RunningIsCommitted`), and a row that says running or interrupted
  has no recorded end (`UnfinishedIsUnclean`).  The first is why the release of the probe
  before the commit is harmless: the run's own write waits for SQLite's write lock, so it comes
  after the pending UPDATE.
* `AdmissionProofs`, of a run's requests: `TypeCorrect`, `CeilingHolds`, `ConclusionsPaid`, `CombinePaid`,
  `SlotsConserved`, `SubtreeDrained`.  The strengthening: depth grows along the tree
  (`Tree`), the root's closure is held while any child is at work (`RootHeld`), a root request
  with tools after a delegation is not the last one (`LastToolless`), and a conclusion
  on its way has been counted (`Sent`).  `TopmostChild` uses the well-foundedness of
  the depth to find a child whose parent is the root: while a child works, the root waits in its
  batch.
* `ToolLedgerProofs`: `IntentHolds`, `OutcomesStay`, `AlwaysRepairable`, `RestsSettled`, `RowsAgree`, `Implements`, for any
  calls, any number of workers and any bounds, with threads in any order, withdrawals, host failures and crashes.  For the first two, the invariant says that every store
  call that is submitted, abandoned or still to be made is about a known call and settles
  it with an outcome (`Submitted`), and that a call that has reached the point where its
  tool is entered has a row (`Intent`).  A step enters no tool and starts no call, or it is
  `StartCall` or `EnterTool`; a transaction (`PerformKeeps`) never leaves a settled row for another
  outcome and only appends to the transcript, in whatever order the threads get the lock.

  The others are proved from `raced \/ FInv`: nothing is claimed of a store that a passed thread has changed.
  `TranscriptRepairable` is not inductive.  `Orderly` says of a transcript that results follow the
  bundle that asked for them, one for each call, and that every bundle but the last is complete: so the set of
  positions that follow the last turn is known exactly (`UnansweredIs`), a turn or a result that is appended where it
  `Fits` keeps it orderly (`TurnAppended`, `ResultAppended`), and appending one result for each open
  call in any order makes it valid (`OrderlyIsRepairable`, where a bijection counts the results).  That
  nothing else is ever appended is the rest of the invariant, `Settling`: a row tells what the transcript tells
  (`Story`); every store call on its way is `Apt`, it neither answers a call twice nor starts an answered one,
  and no two on their way get in each other's way (`Queued`, `Compatible`), so one that is performed leaves the
  others apt (`StaysApt`); what is abandoned is abandoned only in a batch or before the next reading (`Places`);
  the repairs answer every open call once (`Repairing`, and `Closing` for the calls that never started); what is
  abandoned in a batch was asked for by the coroutine of a call that has let go of it, so a coroutine that still works
  finds no row settled but by itself (`Executing`, `Found`).  Hence no order of the threads is assumed: a thread may be
  performed next, last or never, and the others stay apt.  The exception is a thread that a run leaves behind
  when it reads its transcript to repair it: it joins `passed`, and `raced` records that one of these has
  changed the store.  One that changes nothing is proved harmless, and so is every order of the rest.

  `Implements` maps each step to a step of `ToolOutcome` or to a stutter, as long as `~raced`, with
  crashes, cancellations and host failures.  It needs `Truth` besides `FInv`: a call whose coroutine is before the
  entry of its tool has not run, and one that ran and has stopped has a settled row, or a store call on
  its way that settles it, or the host has lost track of it (`forgotten`), or the batch ends with an error, whose repair
  says unknown (`EnteredAt`); so a result that is still to be stored is `Honest`.  The abstract specification
  counts how often a tool is entered and lets a call be entered once, so a second execution is no stutter.
  A forgotten call is stored as never started although it ran: `Forget` allows that and no more
  (see Disagreements).
* `WorkspaceTransactionProofs`: `TypeCorrect`, `RefusedIsClean`, `UpdatesKept`, `PreimagesStay`.  The invariant says of each job
  by itself that it holds the lock file where it works (`LockHeld`), that what it still has to write is what
  it read or an editor's (`Fresh`), that a job that has not written, or has undone it, is in no
  file, checkpoint or restored content (`NoTrace`), and that what it has written lies in files that its own
  checkpoint covers (`Writing`, `Covered`).  `Frame(j)` is what a step of job `j` may do to the others'
  files, checkpoints and locks: each action is proved to keep its own job's part and to be within the
  frame, and one lemma shows that the frame keeps everybody else's.

  `PreimagesStay` says that no pruning takes the checkpoint that a working or torn mutation
  needs.  Nothing in the code says so directly: the maintenance prunes without the lock, between any two steps
  of a patch.  The argument (`RInv`): the checkpoint of a job at work is the newest, because a newer one
  needs the lock (`Newest`); so it is never among the oldest that a pruning
  chooses, and what carries the active marker is no record (`NotDoomed`); so where a mutation may have to
  go back its checkpoint is complete, marked if it is a patch, and holds what was read (`Needed`); and a
  patch that is torn or dies either left nothing, or wrote all, or keeps it (`Left`).
* `CredentialRefreshProofs`: `CredentialTypes`, `TokensSpentOnce`, `FileStaysUsable`, `RetriesAreNewer`.  Unless a lock
  file was raced, whoever relies on it has it (`Locks`), so what it is about to exchange is unspent or was
  cut off before (`Unspent`).  The file stays usable even when lock files are raced, because an answer is the
  newest of its login and in nobody else's hands (`Answers`).  A retry is newer because what is stored is
  always new: an answer is none of the copies that tasks and caches keep (`Copies`), so a
  request that was refused either finds its token still in the file and exchanges it, or finds another
  (`Retry`).
* `ScriptScopeProofs`: `TypeCorrect`, `ScopeDrained`, `SlotsPay`, `StopsEffects`, for any number of runs, jobs,
  slots and calls.  The slot is the thread through the argument: a job has one from its creation to the end of its
  cleanup, and as long as its worker lives (`Paid`); a close returns only when the jobs of its run are
  out of the table and have given their slots back (`Ended`); so no worker is left.  Who waits for the lock of the
  runner, or has it, is a pending call (`Waiting`), and waits once (`QueueOK`, for which `RemoveFirst` and `Append`
  have lemmas).  A call looks at its scope when its turn comes, and then has a way to go to its tool: row, event, policy,
  approval.  Whoever is on this way has the lock of the runner if it writes, or one of the turns to read
  (`Granted`, `ReadsOK`).  `Writers` and `Readers` of a scope are the calls that came late and those that still may; a
  scope that has stopped admits nobody, so from the stop on they do not grow, and they were bounded when it came
  (`LateOK`).  The semaphore's counter and the set of slots agree
  because the set is finite (`Counted`).
* `RunLifecycleProofs`: `TypeCorrect`, `OneResult`, `SuccessEarned`, `PromptsKept`, for any number of prompts, turns,
  batches, repairs and roots.  The result stands because of where the task, the worker and the publication can be
  together (`Phases`): whoever is cancelled, a worker that is done has published and one that failed has not.
  Success is earned because a change that nothing verified taints the context in a way that only a verification
  clears, and the run has counted it in its revision or still will, at the end of the batch or with the notice of the
  job (`Dirty`); so `verified = revision` on a way to `end_turn` says that nothing changed since (`Earned`), unless the
  context was found unchanged.  An edit that reports a failure after it had written raises no revision and is left out of
  this: it is remembered in `silent`, not in `fresh` (see Disagreements).  For the prompts, the five lines a prompt stands in (kept by the shell, queue, run,
  lock, store) are each in order and ahead of the next (`Kept`), and when a prompt jumps from one to another the
  lines between are empty (`Lines`): the shell submits only when no run is in progress, and a run takes over its own
  prompt before it drains the queue.

* `UsageSettlementProofs`: `TypeCorrect`, `PendingIsExact`, `BudgetHolds`, `ChargesSettled`, for any number of delegates,
  any limit and any estimate.  Sums over the agents come first.  The library's `SumFunction` is a fold, hence a
  recursive function that exists by induction, which the provers cannot instantiate; so it is proved to be the number
  of coins that lie on the agents (`Coins`), with the fold unique because two different ones would differ first at a
  smallest set (`WFMin`).  What follows is counting: changing one summand changes the sum by the difference.
  The invariant ties what is reserved and held to where a request is (`Phases`), says that the budget knows every
  cost unless one is unreported (`Exact`), and adds what the attempts on the wire may yet cost to what
  was spent (`Covered`): a request is sent when that sum fits, so the limit holds when every answer comes in at
  its estimate.  `ChargesSettled` needs the cached summary to carry the charge from the moment it is stored
  until it is claimed or transferred (`Summary`).

* `SessionProofs`, of a session's events: `TableInOrder`, `ObserversAreSafe`, `TraceInOrder`, for any number of tasks, any batch size and any bounds.  `Due` lists
  the events that are to be stored; the invariant gives everything that the store has to do with its position in it.
  The table is the stretch of `Due` from `pruned` on, what is pending is the stretch from `Shipped` to its end, and
  `pruned <= Shipped <= Rows`, so there is no gap between them (`CursorsOK`).  The batch of a thread
  begins at `Shipped`, and one that was left behind somewhere from `pruned` to `Shipped` (`OrphansOK`): so whenever it
  is written, what the table has not yet continues it (`InsertContinues`), and that is why `INSERT OR IGNORE` is enough.
  `del pending[:n]` removes what was stored because only the first of the lock's queue has a thread (`LockOK`), and it
  had taken everything up to its own event (`HolderOK`, `Reached`).  `Without` is a filter, a recursive function
  again: `KeepsExists` and `KeepsUnique` establish it by a smallest counterexample, and six lemmas say what it does
  to a sequence that grows, begins with what is removed, or loses a waiter.
  The trace has an invariant of its own (`TInv`).  What is pending for it are the last events emitted (`Handed` are
  gone), a batch of its writer starts there, an abandoned one earlier, and all before was written: so every batch
  continues what was written, repeats of it included (`BatchWritten`).  The files show an end of what was written from
  wherever one reads on (`Lasting`), which is the part of `TracedInOrder` that is inductive:
  the property itself speaks of the whole trace only, and a rotation may cut it anywhere.  Unless a repack was torn
  they are that end itself (`EndOf`).  Three lemmas about the
  concatenated segments carry it: a rotation, finished or not, drops the oldest (`RotationDrops`), a record
  appended to the newest is appended to all (`RecordAppended`), and a repack stopped after segment `k` leaves the older
  segments, followed by a stretch that starts no later than they end (`RepackSplices`).  For that
  the newest segments must hold no more records than fit, so the invariant bounds every segment.

* `SessionProofs`, of what is sent of a session (the specification is named `ContextSpec`): `SentOnce` (`EverythingOnce`), `EvidenceCarried` (`EvidenceFaithful`)
  and `CompactionHolds` (`OnlyGuidanceBreaks`),
  for any limits, any number of retained bundles and any conversation.  All assume `Version = 2`, the default:
  with version 1 the first is false (see Disagreements), the second says nothing, and the third is not claimed.
  Positions are the thread of the first: the messages of a session are numbered as they are appended, a view is `From`
  some number on, and a bundle never begins with a result, so a compaction `Divides` a view into
  a stretch that is summarized and one that is kept.  An artifact divides the history as it was (`ArtifactsOK`), a
  plan the history as it is (`PlanOK`), whatever was cut of the texts (`Alike`), and the view that is sent
  `Covers` the history: what is behind its artifact, what the route dropped, what it carries, in this order
  (`ViewOK`).  That a split at the newest `k` bundles exists is `RankExists`: ranks are `Cardinality(S)` many, and no two
  alike.
  The evidence is `Sound` for a prefix if it is what a reading of all of it finds; `ExtractSound` says that evidence that is
  sound for a prefix, and the reading of the rest alone, are sound for the whole.  It has one lemma for each kind of
  fact (`FailuresParts`, `WorkParts`, `FindingsParts`, `ClaimsParts`, ...), which rest on the latest
  message of a kind being the latest of the rest, or if there is none that of the prefix (`LatestParts`).  The
  invariant (`EvidenceOK`) adds that a session begins with an instruction, so that there is always an objective.
  That no check behind a compaction fires, but for the guidance of a run's last requests, has two halves.  The history is `Grouped`: the results of a call
  follow it, and a split at the first message of a bundle leaves no call on the other side
  (`CandidateGrouped`), so what is kept is `ValidOrder` (`GroupedValid`).  And sizes (`SizesOK`): a plan is `Made` for a
  target, it is `Fitting` what is left of the target when its summary is chosen, and an artifact is `Accounted` for under
  the configuration that it was recorded with, which is the present one if it is reused.  The step that is not obvious is the
  model's summary, which is only compared with the plan's own, larger target: it fits nevertheless, since the
  deterministic summary either fills its limit or says everything (`SummaryOf`), so that the model's is no longer than the
  one that fits (`ChosenFits`).  Facts and excerpts are counted, which needs that they are finite (`Counted`), and a list
  that is cut to its newest `n` has `n` (`NewestMany`).  The sizes of the constants are natural numbers, and a
  chunk has room for something (`LimitsAssumption`).  The plan was fitted to a target under the guidance of its time, and
  the guidance grows with the requests that the summarizer spends; so what was fitted holds its target if the request was
  `guided` from the start or no guidance has become due.  A recorded artifact is a new one, since each overflow counts up
  what it is recorded with (`AttemptsOK`, `NothingSame`).

Only model-checked: liveness (`RunEnds`, `OwnerReleases`, `RunSettles`, `EmitEnds`, `StoppedDrains`,
`TransactionEnds`, `RequestEnds`), which is beyond the prover.

## Not modelled

* Response cache: a hit is an action of `RequestBudget` (`RootCached`); expiry and eviction are one statement each.
* Safety policy, approvals and sandbox: decisions over strings and paths without state of their own, and process isolation.
* Providers: wire formats.  Their retry loop appears in `RequestBudget`, their usage in `UsageSettlement`.
* HTTP transport, MCP: the ownership of sockets under cancellation, the request table of a peer.  Each has a
  protocol worth a module of its own.
* ACP beyond its prompts: the JSON-RPC peer, sessions and modes, permission requests.
* Read-only and shell tools: one bounded operation each; their calls are in `ToolLedger`, what they
  may do to the workspace in `VerificationReport`.
* Prompt context and repository map, configuration, models and factory: text assembly, parsing and data classes.
* Terminal UI: rendering and input editing.  Its follow-ups and interrupts are in `RunLifecycle`, its
  commands that change state in `RunLease`, `WorkspaceTransaction` and `EventBus`.

## Plan

In this order:

1. Nested rows (of scripts and delegates) join `ToolLedger`, with `_recover_nested_calls`.
2. The request table of the MCP client; the pool of the HTTP transport;
   cache expiry and eviction.
