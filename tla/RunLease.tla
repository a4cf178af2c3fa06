------------------------------ MODULE RunLease ------------------------------
(***************************************************************************)
(* Run ownership of one session shared by several processes: the status    *)
(* column in SQLite, the flock'ed lease file, and the reconciliation that  *)
(* any reader of the row performs (sessions/store.py, AgentRunner._run).   *)
(*                                                                         *)
(* A process owns one SessionStore, whose lock serialises its store calls; *)
(* only the file lock and SQLite's write lock order different processes.   *)
(***************************************************************************)
EXTENDS Integers

CONSTANTS Procs,
          None,        \* not a process
          MaxRuns, MaxCancels, MaxFaults, MaxCrashes   \* bounds of the exploration

ASSUME NoneAssumption == None \notin Procs
ASSUME BoundsAssumption == /\ MaxRuns \in Nat /\ MaxCancels \in Nat
                           /\ MaxFaults \in Nat /\ MaxCrashes \in Nat

VARIABLES
    status,   \* sessions.status, as committed
    txn,      \* process with an uncommitted UPDATE to "interrupted", or None
    owner,    \* process whose descriptor holds the lease file's flock, or None
    lease,    \* lease[p]: the session is in p's _run_leases
    read,     \* read[p]: where p's get_session or list_sessions is
    run,      \* run[p]: where p's AgentRunner._run is
    late,     \* late[p]: store call of a cancelled await that is still to run
    clean,    \* history: the last run to write "running" has written "idle"
    runs, cancels, faults, crashes

bounds == <<runs, cancels, faults, crashes>>
leaseVars == <<status, txn, owner, lease, read, run, late, clean, runs, cancels, faults, crashes>>

Statuses == {"idle", "running", "interrupted", "deleted"}
ReadStates == {"no", "selected", "probing", "marked", "released"}
RunStates == {"no", "acquire", "held", "running", "finishing", "releasing"}

\* The run has the lease and has not given it back.
Owning(p) == run[p] \in {"held", "running", "finishing", "releasing"}

\* p's store lock is free for a new call; a call submitted earlier goes first.
StoreFree(p) == read[p] = "no"
StoreTurn(p) == StoreFree(p) /\ late[p] = "no"

-----------------------------------------------------------------------------
(* Readers: _reconcile_running_row                                          *)

\* The SELECT, outside any transaction.  The other rows are returned as they are.
Select(p) ==
    /\ StoreTurn(p)
    /\ status = "running" /\ ~lease[p]
    /\ read' = [read EXCEPT ![p] = "selected"]
    /\ UNCHANGED <<status, txn, owner, lease, run, late, clean, bounds>>

\* Mutant of Probe: the lease is not tried.
ProbeAlways(p) ==
    /\ read[p] = "selected"
    /\ read' = [read EXCEPT ![p] = "probing"]
    /\ UNCHANGED <<status, txn, owner, lease, run, late, clean, bounds>>

\* lease.acquire() on a descriptor of its own; a live run keeps it away.
Probe(p) ==
    /\ read[p] = "selected"
    /\ IF owner = None
       THEN owner' = p /\ read' = [read EXCEPT ![p] = "probing"]
       ELSE UNCHANGED owner /\ read' = [read EXCEPT ![p] = "no"]
    /\ UNCHANGED <<status, txn, lease, run, late, clean, bounds>>

\* The UPDATE takes SQLite's write lock.
Mark(p) ==
    /\ read[p] = "probing" /\ txn = None
    /\ txn' = p
    /\ read' = [read EXCEPT ![p] = "marked"]
    /\ UNCHANGED <<status, owner, lease, run, late, clean, bounds>>

\* SQLite stays busy beyond the connection's timeout: the UPDATE raises.
MarkFails(p) ==
    /\ read[p] = "probing" /\ faults < MaxFaults
    /\ faults' = faults + 1
    /\ read' = [read EXCEPT ![p] = "marked"]
    /\ UNCHANGED <<status, txn, owner, lease, run, late, clean, runs, cancels, crashes>>

\* finally: lease.release(), before the transaction is committed.
Unprobe(p) ==
    /\ read[p] = "marked"
    /\ owner' = None
    /\ read' = [read EXCEPT ![p] = "released"]
    /\ UNCHANGED <<status, txn, lease, run, late, clean, bounds>>

\* Mutants of Commit: the UPDATE without AND status='running'; no commit.
CommitUnguarded(p) ==
    /\ read[p] = "released"
    /\ status' = IF txn = p THEN "interrupted" ELSE status
    /\ txn' = IF txn = p THEN None ELSE txn
    /\ read' = [read EXCEPT ![p] = "no"]
    /\ UNCHANGED <<owner, lease, run, late, clean, bounds>>
CommitForgotten(p) ==
    /\ read[p] = "released"
    /\ read' = [read EXCEPT ![p] = "no"]
    /\ UNCHANGED <<status, txn, owner, lease, run, late, clean, bounds>>

\* The transaction ends; its UPDATE reaches only a row that is still running.
Commit(p) ==
    /\ read[p] = "released"
    /\ status' = IF txn = p /\ status = "running" THEN "interrupted" ELSE status
    /\ txn' = IF txn = p THEN None ELSE txn
    /\ read' = [read EXCEPT ![p] = "no"]
    /\ UNCHANGED <<owner, lease, run, late, clean, bounds>>

-----------------------------------------------------------------------------
(* A run: AgentRunner._run and _run_locked, the part that owns the session  *)

Request(p) ==
    /\ run[p] = "no" /\ runs < MaxRuns
    /\ runs' = runs + 1
    /\ run' = [run EXCEPT ![p] = "acquire"]
    /\ UNCHANGED <<status, txn, owner, lease, read, late, clean, cancels, faults, crashes>>

\* acquire_run_lease takes the file lock unless the session is unknown or the
\* lease is already out.
Free(p) == status # "deleted" /\ ~lease[p] /\ owner = None

\* Mutant of Acquire: a refused flock is not noticed.
AcquireAlways(p) ==
    /\ run[p] = "acquire" /\ StoreTurn(p)
    /\ status # "deleted" /\ ~lease[p]
    /\ owner' = p
    /\ lease' = [lease EXCEPT ![p] = TRUE]
    /\ run' = [run EXCEPT ![p] = "held"]
    /\ UNCHANGED <<status, txn, read, late, clean, bounds>>

Acquire(p) ==
    /\ run[p] = "acquire" /\ StoreTurn(p)
    /\ IF Free(p)
       THEN /\ owner' = p
            /\ lease' = [lease EXCEPT ![p] = TRUE]
            /\ run' = [run EXCEPT ![p] = "held"]
       ELSE /\ run' = [run EXCEPT ![p] = "no"]     \* "already running", or unknown
            /\ UNCHANGED <<owner, lease>>
    /\ UNCHANGED <<status, txn, read, late, clean, bounds>>

\* update_session(status="running"); a deleted session makes it raise.
WriteRunning(p) ==
    /\ run[p] = "held" /\ StoreTurn(p) /\ txn = None
    /\ IF status # "deleted"
       THEN /\ status' = "running" /\ clean' = FALSE
            /\ run' = [run EXCEPT ![p] = "running"]
       ELSE /\ run' = [run EXCEPT ![p] = "finishing"]
            /\ UNCHANGED <<status, clean>>
    /\ UNCHANGED <<txn, owner, lease, read, late, bounds>>

\* A run that fails before it is marked running, or one that is over: both
\* go through finalize or startup_fallback.
Finish(p) ==
    /\ run[p] \in {"held", "running"}
    /\ run' = [run EXCEPT ![p] = "finishing"]
    /\ UNCHANGED <<status, txn, owner, lease, read, late, clean, bounds>>

\* update_session(status="idle"), in the finally of finalize.
WriteIdle(p) ==
    /\ run[p] = "finishing" /\ StoreTurn(p) /\ txn = None
    /\ status' = IF status = "deleted" THEN status ELSE "idle"
    /\ clean' = TRUE
    /\ run' = [run EXCEPT ![p] = "releasing"]
    /\ UNCHANGED <<txn, owner, lease, read, late, bounds>>

\* The write fails; the lease is still given back.
WriteIdleFails(p) ==
    /\ run[p] = "finishing" /\ faults < MaxFaults
    /\ faults' = faults + 1
    /\ run' = [run EXCEPT ![p] = "releasing"]
    /\ UNCHANGED <<status, txn, owner, lease, read, late, clean, runs, cancels, crashes>>

\* release_run_lease, in the finally of _run.
Release(p) ==
    /\ run[p] = "releasing" /\ StoreTurn(p)
    /\ IF lease[p] THEN owner' = None ELSE UNCHANGED owner
    /\ lease' = [lease EXCEPT ![p] = FALSE]
    /\ run' = [run EXCEPT ![p] = "no"]
    /\ UNCHANGED <<status, txn, read, late, clean, bounds>>

-----------------------------------------------------------------------------
(* Cancelled awaits, other processes' deletions, crashes                    *)

\* The task is cancelled while to_thread(acquire_run_lease) or the write of
\* "running" is in its thread.
CancelAwait(p) ==
    /\ run[p] \in {"acquire", "held"} /\ late[p] = "no" /\ cancels < MaxCancels
    /\ cancels' = cancels + 1
    /\ IF run[p] = "acquire"
       THEN late' = [late EXCEPT ![p] = "acquire"] /\ run' = [run EXCEPT ![p] = "no"]
       ELSE late' = [late EXCEPT ![p] = "running"] /\ run' = [run EXCEPT ![p] = "finishing"]
    /\ UNCHANGED <<status, txn, owner, lease, read, clean, runs, faults, crashes>>

LateAcquire(p) ==
    /\ late[p] = "acquire" /\ StoreFree(p)
    /\ late' = [late EXCEPT ![p] = "no"]
    /\ IF Free(p)
       THEN owner' = p /\ lease' = [lease EXCEPT ![p] = TRUE]
       ELSE UNCHANGED <<owner, lease>>
    /\ UNCHANGED <<status, txn, read, run, clean, bounds>>

LateRunning(p) ==
    /\ late[p] = "running" /\ StoreFree(p) /\ txn = None
    /\ late' = [late EXCEPT ![p] = "no"]
    /\ IF status # "deleted" THEN status' = "running" /\ clean' = FALSE
                             ELSE UNCHANGED <<status, clean>>
    /\ UNCHANGED <<txn, owner, lease, read, run, bounds>>

\* The call was still queued for a thread of the pool: its cancellation withdraws it.
LateWithdrawn(p) ==
    /\ late[p] # "no"
    /\ late' = [late EXCEPT ![p] = "no"]
    /\ UNCHANGED <<status, txn, owner, lease, read, run, clean, bounds>>

\* delete_session asks for no lease.
Delete(p) ==
    /\ run[p] = "no" /\ StoreTurn(p) /\ txn = None
    /\ status # "deleted"
    /\ status' = "deleted"
    /\ UNCHANGED <<txn, owner, lease, read, run, late, clean, bounds>>

\* The process dies, or closes its store: SQLite rolls its transaction back
\* and the kernel drops its file lock.
Crash(p) ==
    /\ crashes < MaxCrashes
    /\ crashes' = crashes + 1
    /\ txn' = IF txn = p THEN None ELSE txn
    /\ owner' = IF owner = p THEN None ELSE owner
    /\ lease' = [lease EXCEPT ![p] = FALSE]
    /\ read' = [read EXCEPT ![p] = "no"]
    /\ run' = [run EXCEPT ![p] = "no"]
    /\ late' = [late EXCEPT ![p] = "no"]
    /\ UNCHANGED <<status, clean, runs, cancels, faults>>

-----------------------------------------------------------------------------
LeaseInit ==
    /\ status = "idle" /\ txn = None /\ owner = None
    /\ lease = [p \in Procs |-> FALSE]
    /\ read = [p \in Procs |-> "no"]
    /\ run = [p \in Procs |-> "no"]
    /\ late = [p \in Procs |-> "no"]
    /\ clean = TRUE
    /\ runs = 0 /\ cancels = 0 /\ faults = 0 /\ crashes = 0

ReadStep(p) == Probe(p) \/ Mark(p) \/ Unprobe(p) \/ Commit(p)
RunStep(p) == Acquire(p) \/ WriteRunning(p) \/ WriteIdle(p) \/ Release(p)
LateStep(p) == LateAcquire(p) \/ LateRunning(p) \/ LateWithdrawn(p)

LeaseNext == \E p \in Procs :
    \/ Select(p) \/ ReadStep(p) \/ MarkFails(p)
    \/ Request(p) \/ RunStep(p) \/ Finish(p) \/ WriteIdleFails(p)
    \/ CancelAwait(p) \/ LateStep(p) \/ Delete(p) \/ Crash(p)

LeaseSpec == LeaseInit /\ [][LeaseNext]_leaseVars

\* A store call that started ends, and a run does not outlast its deadline.
LeaseFairness == \A p \in Procs : /\ WF_leaseVars(ReadStep(p)) /\ WF_leaseVars(LateStep(p))
                             /\ WF_leaseVars(RunStep(p)) /\ WF_leaseVars(Finish(p))

LeaseFairSpec == LeaseSpec /\ LeaseFairness

-----------------------------------------------------------------------------
LeaseTypeOK ==
    /\ status \in Statuses
    /\ txn \in Procs \cup {None} /\ owner \in Procs \cup {None}
    /\ lease \in [Procs -> BOOLEAN]
    /\ read \in [Procs -> ReadStates]
    /\ run \in [Procs -> RunStates]
    /\ late \in [Procs -> {"no", "acquire", "running"}]
    /\ clean \in BOOLEAN

\* What the file lock stands for: a process is in _run_leases, or probes, only
\* while it holds it, never both, and a run owns the session only with its lease.
Held(p) == lease[p] \/ read[p] \in {"probing", "marked"}
OwnershipOK ==
    \A p \in Procs : /\ Held(p) => owner = p
                     /\ ~(lease[p] /\ read[p] \in {"probing", "marked"})
                     /\ Owning(p) => lease[p]

\* No session is run by two processes at once.
MutualExclusion == \A p, q \in Procs : Owning(p) /\ Owning(q) => p = q

\* A run that is in progress is never reported or recorded as interrupted, by
\* the reader of another process, however it interleaves with the run's start.
LiveNotInterrupted == \A p \in Procs : run[p] = "running" => status \in {"running", "deleted"}

\* A session is marked interrupted only when a run really ended without
\* writing its end: a finished run stays finished.
InterruptedMeansLost == status = "interrupted" => ~clean

\* A run that owns the session gives it up: no two of the store's lock, the
\* file lock and SQLite's write lock wait for each other.
OwnerReleases == \A p \in Procs : Owning(p) ~> ~Owning(p)

\* A lease "used to distinguish live and stale runs" is held by a live run.
LeaseHasRun == \A p \in Procs : lease[p] => Owning(p)
=============================================================================
