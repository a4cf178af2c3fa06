------------------------------ MODULE EventBus ------------------------------
(***************************************************************************)
(* EventBus (events.py): coroutines emit events, one of them at a time     *)
(* flushes what is pending to SQLite (append_events) and to the trace      *)
(* (JsonlTrace.append_many), each in a thread, and observers are called    *)
(* once the flush has returned.  A cancelled flush leaves its thread       *)
(* behind, and either sink can fail.  The trace is rotated as it grows,    *)
(* and `borealis maintenance` prunes the table and repacks the trace from  *)
(* another process.                                                        *)
(***************************************************************************)
EXTENDS Integers, Sequences, SequencesExt

CONSTANTS Tasks,          \* coroutines that emit: the run, its tools, its delegates
          PersistDeltas,  \* config.storage.persist_event_deltas
          BatchSize,      \* _EVENT_BATCH_SIZE
          MaxRecords,     \* storage.trace_max_bytes, in records
          Backups,        \* storage.trace_backup_count
          Retained,       \* storage.event_retention_max_count
          MaxEvents, MaxCancels, MaxFaults, MaxUpkeep     \* bounds of the exploration

ASSUME BusAssumption ==
    /\ PersistDeltas \in BOOLEAN
    /\ BatchSize \in Nat \ {0} /\ MaxRecords \in Nat \ {0} /\ Retained \in Nat \ {0}
    /\ Backups \in Nat
    /\ MaxEvents \in Nat /\ MaxCancels \in Nat /\ MaxFaults \in Nat /\ MaxUpkeep \in Nat

VARIABLES
    emitted,  \* kind of every event in the order of emission; an event is its index
    pending,  \* _persist_pending and _trace_pending
    db,       \* events table, in the order of its sequence
    pruned,   \* how many of its rows have been deleted
    files,    \* the trace, which is 0, and its rotated segments
    written,  \* history: the records of the trace in the order of writing
    torn,     \* history: a maintenance failed half-way
    queue,    \* tasks at the flush lock, its holder first
    at,       \* where each task is
    event,    \* the event it emits
    batch,    \* what the holder has handed to a thread
    orphans,  \* threads of cancelled flushes
    seen,     \* events handed to the observers
    cancels, faults,
    upkeep    \* steps of maintenances: a prune, a repack, a prune, ...

table == <<db, pruned>>
trace == <<files, written, torn>>
vars == <<emitted, pending, table, trace, queue, at, event, batch, orphans, seen, cancels, faults, upkeep>>

Sinks == {"store", "trace"}
Kinds == {"delta", "event"}

\* An event of this kind goes to the store.
Durable(kind) == kind = "event" \/ PersistDeltas

\* s without the elements of S (SelectSeq, in a form that can be proved about).
Without(s, S) ==
    LET kept[i \in 0..Len(s)] ==
            IF i = 0 THEN <<>> ELSE IF s[i] \in S THEN kept[i - 1] ELSE Append(kept[i - 1], s[i])
    IN kept[Len(s)]

\* append_events: INSERT OR IGNORE, in one transaction.
Insert(rows, b) == rows \o Without(b, ToSet(rows))

-----------------------------------------------------------------------------
(* The trace.  Records are of one size; the file lock makes each of its     *)
(* operations a step for other processes.                                   *)

Segments == 0..Backups
Records(fs) == FlattenSeq([i \in 1..(Backups + 1) |-> fs[Backups + 1 - i]])

\* _rotate, which begins with the oldest segment and has come to segment k.
Rotated(fs, k) ==
    IF Backups = 0 THEN [fs EXCEPT ![0] = <<>>]
    ELSE [i \in Segments |-> CASE i > k -> fs[i - 1] [] i = k -> <<>> [] i < k -> fs[i]]
Full(fs) == Len(fs[0]) >= MaxRecords
AppendRecord(fs, e) == [(IF Full(fs) THEN Rotated(fs, 0) ELSE fs) EXCEPT ![0] = Append(@, e)]
AppendMany(fs, b) ==
    LET after[n \in 0..Len(b)] == IF n = 0 THEN fs ELSE AppendRecord(after[n - 1], b[n])
    IN after[Len(b)]
TraceBatch(b) == files' = AppendMany(files, b) /\ written' = written \o b /\ UNCHANGED torn

\* maintenance: the newest records that fit, from the newest segment up to segment k.
Repacked(fs, k) ==
    LET all == Records(fs)
        end(i) == Len(all) - i * MaxRecords
        chunk(i) == CASE end(i) <= 0 -> <<>>
                      [] end(i) \in 1..MaxRecords -> SubSeq(all, 1, end(i))
                      [] OTHER -> SubSeq(all, end(i) - MaxRecords + 1, end(i))
    IN [i \in Segments |-> IF i <= k THEN chunk(i) ELSE fs[i]]

-----------------------------------------------------------------------------
(* A flush                                                                  *)

\* Mutant of Leave: a cancelled waiter stays in the queue.
LeaveInQueue(t) == /\ at' = [at EXCEPT ![t] = "idle"]
                   /\ event' = [event EXCEPT ![t] = 0]
                   /\ batch' = IF at[t] = "locking" /\ Head(queue) # t THEN batch ELSE <<>>
                   /\ queue' = IF at[t] = "locking" THEN queue ELSE Tail(queue)

\* The task gives the lock, or its place at it, away and its emit ends.
Leave(t) == /\ at' = [at EXCEPT ![t] = "idle"]
            /\ event' = [event EXCEPT ![t] = 0]
            /\ batch' = IF at[t] = "locking" /\ Head(queue) # t THEN batch ELSE <<>>
            /\ queue' = Without(queue, {t})

\* An emit that is not interrupted ends by calling the observers.
Finish(t) == Leave(t) /\ seen' = seen \cup {event[t]}

\* The holder snapshots what is pending for a sink and starts its thread.
Submit(t, q, p, sink) == /\ at' = [at EXCEPT ![t] = sink]
                         /\ batch' = p[sink]
                         /\ queue' = q
                         /\ UNCHANGED seen

\* flush() with something pending, up to its first await: the store comes first.
FirstSink(p) == IF p["store"] # <<>> THEN "store" ELSE "trace"

Emit(t, kind) ==
    LET e == Len(emitted) + 1
        p == [s \in Sinks |-> IF s = "trace" \/ Durable(kind) THEN Append(pending[s], e)
                                                              ELSE pending[s]] IN
    /\ at[t] = "idle" /\ Len(emitted) < MaxEvents
    /\ emitted' = Append(emitted, kind)
    /\ pending' = p
    /\ IF kind = "delta" /\ \A s \in Sinks : Len(p[s]) < BatchSize
       THEN seen' = seen \cup {e} /\ UNCHANGED <<at, event, batch, queue>>
       ELSE /\ event' = [event EXCEPT ![t] = e]
            /\ IF queue = <<>>
               THEN Submit(t, <<t>>, p, FirstSink(p))
               ELSE /\ queue' = Append(queue, t)
                    /\ at' = [at EXCEPT ![t] = "locking"]
                    /\ UNCHANGED <<batch, seen>>
    /\ UNCHANGED <<table, trace, orphans, cancels, faults, upkeep>>

\* The lock is handed to the first waiter.
TakeLock(t) ==
    /\ at[t] = "locking" /\ Head(queue) = t
    /\ IF \E s \in Sinks : pending[s] # <<>>
       THEN Submit(t, queue, pending, FirstSink(pending)) /\ UNCHANGED event
       ELSE Finish(t)
    /\ UNCHANGED <<emitted, pending, table, trace, orphans, cancels, faults, upkeep>>

\* Mutant of StoreBatch: the batch is written without INSERT OR IGNORE.
StoreBatchTwice(b) == db' = db \o b /\ UNCHANGED pruned
StoreBatch(b) == db' = Insert(db, b) /\ UNCHANGED pruned

\* The thread of the holder ends.
Stored(t) ==
    /\ at[t] = "store"
    /\ StoreBatch(batch)
    /\ at' = [at EXCEPT ![t] = "stored"]
    /\ UNCHANGED <<emitted, pending, trace, queue, event, batch, orphans, seen, cancels, faults, upkeep>>

Traced(t) ==
    /\ at[t] = "trace"
    /\ TraceBatch(batch)
    /\ at' = [at EXCEPT ![t] = "traced"]
    /\ UNCHANGED <<emitted, pending, table, queue, event, batch, orphans, seen, cancels, faults, upkeep>>

\* Mutant of SinkFails: the failure of a sink is not reported to emit.
SinkFailsQuietly(t) ==
    /\ at[t] \in Sinks /\ faults < MaxFaults
    /\ faults' = faults + 1
    /\ Finish(t)
    /\ UNCHANGED <<emitted, pending, table, trace, orphans, cancels, upkeep>>

\* The thread fails: a transaction as a whole, the trace after any record or
\* in a rotation.  The batch stays pending and emit raises.
SinkFails(t) ==
    /\ at[t] \in Sinks /\ faults < MaxFaults
    /\ faults' = faults + 1
    /\ IF at[t] = "store" THEN UNCHANGED trace
       ELSE \E n \in 0..(Len(batch) - 1), k \in Segments :
            LET fs == AppendMany(files, SubSeq(batch, 1, n)) IN
            /\ files' \in {fs} \cup (IF Full(fs) THEN {Rotated(fs, k)} ELSE {})
            /\ written' = written \o SubSeq(batch, 1, n)
            /\ UNCHANGED torn
    /\ Leave(t)
    /\ UNCHANGED <<emitted, pending, table, orphans, seen, cancels, upkeep>>

\* Mutant of Rest: pending.clear().
RestCleared(p, b) == <<>>
\* del pending[: len(events)]
Rest(p, b) == SubSeq(p, Len(b) + 1, Len(p))

\* The holder resumes after its thread.
Resume(t) ==
    /\ \/ /\ at[t] = "stored"
          /\ pending' = [pending EXCEPT !["store"] = Rest(@, batch)]
          /\ IF pending["trace"] # <<>> THEN Submit(t, queue, pending, "trace") /\ UNCHANGED event
                                        ELSE Finish(t)
       \/ /\ at[t] = "traced"
          /\ pending' = [pending EXCEPT !["trace"] = Rest(@, batch)]
          /\ Finish(t)
    /\ UNCHANGED <<emitted, table, trace, orphans, cancels, faults, upkeep>>

\* Cancellation at the lock or at the thread: the thread goes on, the batch
\* stays pending, and the observers are not called.
Cancel(t) ==
    /\ at[t] # "idle" /\ cancels < MaxCancels
    /\ cancels' = cancels + 1
    /\ orphans' = orphans \cup (IF at[t] \in Sinks
                                THEN {[sink |-> at[t], batch |-> batch, nth |-> cancels]} ELSE {})
    /\ Leave(t)
    /\ UNCHANGED <<emitted, pending, table, trace, seen, faults, upkeep>>

\* A thread that was left behind ends, or it fails, or it never started: its
\* cancellation withdrew it from the queue of the pool.
LateWrite(w) ==
    /\ w \in orphans
    /\ orphans' = orphans \ {w}
    /\ \/ w.sink = "store" /\ StoreBatch(w.batch) /\ UNCHANGED trace
       \/ w.sink = "trace" /\ TraceBatch(w.batch) /\ UNCHANGED table
       \/ UNCHANGED <<table, trace>>
    /\ UNCHANGED <<emitted, pending, queue, at, event, batch, seen, cancels, faults, upkeep>>

-----------------------------------------------------------------------------
(* borealis maintenance, in another process                                 *)

Upkeep(step) == upkeep < 2 * MaxUpkeep /\ upkeep % 2 = step /\ upkeep' = upkeep + 1

\* prune_events: rows beyond the number retained, or older than an age; retention is so
\* long that it does not reach rows that a thread or a pending batch may yet repeat.
Excess == IF Len(db) > Retained THEN Len(db) - Retained ELSE 0
Prune ==
    /\ Upkeep(0)
    /\ \E n \in Excess..Len(db) :
        /\ \A i \in 1..n : ~Contains(pending["store"], db[i]) /\ \A w \in orphans : ~Contains(w.batch, db[i])
        /\ db' = SubSeq(db, n + 1, Len(db)) /\ pruned' = pruned + n
    /\ UNCHANGED <<emitted, pending, trace, queue, at, event, batch, orphans, seen, cancels, faults>>

\* Each segment is replaced at once; the maintenance may fail between two of them.
Repack ==
    /\ Upkeep(1)
    /\ \/ files' = Repacked(files, Backups) /\ UNCHANGED <<torn, faults>>
       \/ /\ faults < MaxFaults /\ faults' = faults + 1 /\ torn' = TRUE
          /\ \E k \in Segments : files' = Repacked(files, k)
    /\ UNCHANGED <<emitted, pending, table, written, queue, at, event, batch, orphans, seen, cancels>>

-----------------------------------------------------------------------------
Init ==
    /\ emitted = <<>> /\ pending = [s \in Sinks |-> <<>>]
    /\ db = <<>> /\ pruned = 0
    /\ files = [i \in Segments |-> <<>>] /\ written = <<>> /\ torn = FALSE
    /\ queue = <<>> /\ at = [t \in Tasks |-> "idle"] /\ event = [t \in Tasks |-> 0]
    /\ batch = <<>> /\ orphans = {} /\ seen = {}
    /\ cancels = 0 /\ faults = 0 /\ upkeep = 0

\* What a task does by itself once it has emitted.
Step(t) == TakeLock(t) \/ Stored(t) \/ Traced(t) \/ SinkFails(t) \/ Resume(t)

\* Nothing is left to emit; that what was begun ends is EmitEnds.
Quiet == Len(emitted) = MaxEvents /\ UNCHANGED vars

Next == \/ Quiet
        \/ \E t \in Tasks : Step(t) \/ Cancel(t) \/ \E kind \in Kinds : Emit(t, kind)
        \/ \E w \in orphans : LateWrite(w)
        \/ Prune \/ Repack

Spec == Init /\ [][Next]_vars

\* Threads end and resumed coroutines are scheduled.
FairSpec == Spec /\ \A t \in Tasks : WF_vars(Step(t))

-----------------------------------------------------------------------------
TypeOK ==
    /\ emitted \in Seq(Kinds)
    /\ pending \in [Sinks -> Seq(DOMAIN emitted)]
    /\ db \in Seq(DOMAIN emitted) /\ written \in Seq(DOMAIN emitted)
    /\ files \in [Segments -> Seq(DOMAIN emitted)]
    /\ queue \in Seq(Tasks) /\ batch \in Seq(DOMAIN emitted)
    /\ at \in [Tasks -> Sinks \cup {"idle", "locking", "stored", "traced"}]
    /\ \A t \in Tasks : at[t] \notin {"idle", "locking"} <=> queue # <<>> /\ Head(queue) = t /\ at[t] # "locking"
    /\ seen \subseteq DOMAIN emitted

\* The events that are to be stored.
Due == Without([i \in DOMAIN emitted |-> i], {i \in DOMAIN emitted : ~Durable(emitted[i])})

Removed == SubSeq(Due, 1, pruned)

\* docs/ARCHITECTURE.md:303, "a failed event batch stays queued in order": but for the
\* oldest, which a maintenance has removed, the table is always a prefix of what was
\* emitted, without gaps or repetitions, and what is not in it is still pending,
\* whatever failed or was cancelled.
StoredInOrder ==
    /\ IsPrefix(Removed \o db, Due)
    /\ IsSuffix(pending["store"], Due)
    /\ pruned + Len(db) + Len(pending["store"]) >= Len(Due)

\* "Event persistence is authoritative": an observer is told of an event, other
\* than a streaming delta, only when the event and all before it are stored.
ObservedIsStored ==
    \A e \in seen : emitted[e] = "event" =>
        \A i \in 1..e : Durable(emitted[i]) => Contains(Removed \o db, i)

\* A record may be repeated in the trace after a cancelled or failed flush, but it
\* appears first after all the events emitted before it.  However often the trace is
\* rotated and repacked, and wherever that fails, only the oldest records go: what is
\* kept is the end of what was written, and in that order unless a repack was torn.
TracedInOrder ==
    /\ \A i \in DOMAIN written : \A e \in 1..(written[i] - 1) : \E j \in 1..(i - 1) : written[j] = e
    /\ \A e \in DOMAIN emitted : Contains(written, e) \/ Contains(pending["trace"], e)
    /\ \E i \in 1..(Len(written) + 1) :
        ToSet(Records(files)) = {written[j] : j \in i..Len(written)}
    /\ torn \/ IsSuffix(Records(files), written)

\* Every emit ends, whoever else emits, fails or is cancelled at the lock.
EmitEnds == \A t \in Tasks : at[t] # "idle" ~> at[t] = "idle"
=============================================================================
