----------------------- MODULE WorkspaceTransaction -----------------------
(***************************************************************************)
(* The file mutations of one workspace: tools/patch.py and                 *)
(* tools/filesystem.py under the two-level lock of tools/_workspace_lock.py,*)
(* with the checkpoints of safety/checkpoints.py, rollback and maintenance *)
(* (cli.py, interactive.py).  A job is one call of a tool or one command in *)
(* a process.  The contents of a file are who wrote them and whether the   *)
(* file exists.  Jobs, editors and crashes interleave between any two      *)
(* system calls that matter.                                               *)
(***************************************************************************)
EXTENDS Naturals, FiniteSets

CONSTANTS
    Jobs, Files, Processes,
    ProcessOf,      \* the process in which each job runs
    CallsOf,        \* the calls [kind, targets] that each job can be
    None,
    MaxCount,       \* safety.checkpoint_retention_max_count
    MaxTroubles     \* bound of the edits, failures and crashes

Single == {"write", "delete"}
Mutations == Single \cup {"patch"}

ASSUME WorkspaceAssumption ==
    /\ None \notin Jobs /\ {"original", "editor"} \cap Jobs = {}
    /\ ProcessOf \in [Jobs -> Processes]
    /\ MaxCount \in Nat \ {0} /\ MaxTroubles \in Nat
    /\ \A j \in Jobs : \A call \in CallsOf[j] :
        /\ call \in [kind : Mutations \cup {"rollback", "maintenance"}, targets : SUBSET Files]
        /\ call.kind \in Single => \E f \in Files : call.targets = {f}

VARIABLES
    file,       \* [by, exists] of each file
    threads,    \* holder of the threading.Lock of each process
    flock,      \* holder of the lock file
    job,        \* where each job is, and what it holds in memory
    checkpoint, \* the checkpoint of each job
    troubles

locks == <<threads, flock>>
vars == <<file, locks, job, checkpoint, troubles>>

Original == [by |-> "original", exists |-> TRUE]
\* [state; its marker; the files, with their contents; the complete ones before it].
NoCheckpoint ==
    [state |-> "none", active |-> FALSE, of |-> {}, saved |-> [f \in Files |-> Original], older |-> {}]

\* [pc, kind; targets; what it has read (expected); targets it has written;
\* directories that its pruning removes (doomed) and where it goes on (next);
\* the contents that it restores (source)].
Idle == [pc |-> "idle", kind |-> "none", targets |-> {}, expected |-> [f \in Files |-> Original],
         written |-> {}, doomed |-> {}, next |-> "finish", source |-> [f \in Files |-> Original]]

pc(j) == job[j].pc
kind(j) == job[j].kind
Complete(c) == checkpoint[c].state = "complete"
Endings == {"done", "refused", "late", "torn", "cancelled", "crashed"}
Ended(j) == pc(j) \in Endings
Goto(j, place) == job' = [job EXCEPT ![j].pc = place]

-----------------------------------------------------------------------------
(* workspace_transaction                                                    *)

\* Of a job that ends only the kind is kept, and what it leaves torn.
Gone(j, outcome) ==
    IF outcome \in {"torn", "crashed"} THEN [job[j] EXCEPT !.pc = outcome]
    ELSE [Idle EXCEPT !.pc = outcome, !.kind = kind(j)]

\* Mutant of Unlock: the thread lock is not released.
UnlockFile(j) == threads' = threads /\ flock' = IF flock = j THEN None ELSE flock
Unlock(j) ==
    /\ threads' = [threads EXCEPT ![ProcessOf[j]] = IF @ = j THEN None ELSE @]
    /\ flock' = IF flock = j THEN None ELSE flock

\* The job leaves the transaction.
End(j, outcome) == job' = [job EXCEPT ![j] = Gone(j, outcome)] /\ Unlock(j)

\* The model has read the files that it is going to write or delete.
Start(j) ==
    /\ pc(j) = "idle"
    /\ \E call \in CallsOf[j] :
        job' = [job EXCEPT ![j] = [Idle EXCEPT
            !.pc = IF call.kind = "maintenance" THEN "prune" ELSE "thread",
            !.kind = call.kind, !.targets = call.targets, !.expected = file]]
    /\ UNCHANGED <<file, locks, checkpoint, troubles>>

TakeThread(j) ==
    /\ pc(j) = "thread" /\ threads[ProcessOf[j]] = None
    /\ threads' = [threads EXCEPT ![ProcessOf[j]] = j]
    /\ Goto(j, "flock")
    /\ UNCHANGED <<file, flock, checkpoint, troubles>>

\* Mutant of TakeFlock: the lock file is opened and not locked.
TakeFlockAlways(j) ==
    /\ pc(j) = "flock"
    /\ flock' = j
    /\ Goto(j, IF kind(j) = "rollback" THEN "load" ELSE "plan")
    /\ UNCHANGED <<file, threads, checkpoint, troubles>>

TakeFlock(j) ==
    /\ pc(j) = "flock" /\ flock = None
    /\ flock' = j
    /\ Goto(j, IF kind(j) = "rollback" THEN "load" ELSE "plan")
    /\ UNCHANGED <<file, threads, checkpoint, troubles>>

\* The call is cancelled while it waits, which is the only place where it awaits.
Cancel(j) ==
    /\ pc(j) \in {"thread", "flock"}
    /\ End(j, "cancelled")
    /\ UNCHANGED <<file, checkpoint, troubles>>

-----------------------------------------------------------------------------
(* ApplyPatchTool._apply, and execute of the tools of one file              *)

Unmoved(j) == \A f \in job[j].targets : file[f] = job[j].expected[f]

\* A patch is parsed and its hunks are applied to what the files hold now; the
\* other tools compare the hash of what the model has read.  Either may refuse.
Plan(j) ==
    /\ pc(j) = "plan"
    /\ \/ /\ kind(j) = "patch" \/ Unmoved(j)
          /\ job' = [job EXCEPT ![j].expected = file, ![j].pc = "save"]
          /\ UNCHANGED locks
       \/ End(j, "refused")
    /\ UNCHANGED <<file, checkpoint, troubles>>

\* CheckpointManager.create: the blobs and the marker, then the manifest.
SaveBlobs(j) ==
    /\ pc(j) = "save"
    /\ checkpoint' = [checkpoint EXCEPT ![j] =
         [state |-> "partial", active |-> kind(j) = "patch", of |-> job[j].targets,
          saved |-> [f \in Files |-> IF f \in job[j].targets THEN file[f] ELSE Original],
          older |-> {}]]
    /\ Goto(j, "manifest")
    /\ UNCHANGED <<file, locks, troubles>>

\* It fails and removes its own files.
SaveFails(j) ==
    /\ pc(j) = "manifest" /\ troubles < MaxTroubles
    /\ troubles' = troubles + 1
    /\ checkpoint' = [checkpoint EXCEPT ![j] = NoCheckpoint]
    /\ End(j, "refused")
    /\ UNCHANGED file

WriteManifest(j) ==
    /\ pc(j) = "manifest"
    /\ checkpoint' = [checkpoint EXCEPT ![j].state = "complete", ![j].older = {c \in Jobs : Complete(c)}]
    /\ job' = [job EXCEPT ![j].pc = "prune", ![j].next = "check"]
    /\ UNCHANGED <<file, locks, troubles>>

\* _require_preimage of every target, before the first write.
CheckPreimage(j) ==
    /\ pc(j) = "check"
    /\ \/ Unmoved(j) /\ Goto(j, "commit") /\ UNCHANGED locks
       \/ ~Unmoved(j) /\ kind(j) = "patch" /\ UNCHANGED locks
          /\ job' = [job EXCEPT ![j].pc = "release", ![j].next = "refuse"]
       \/ ~Unmoved(j) /\ kind(j) \in Single /\ End(j, "refused")
    /\ UNCHANGED <<file, checkpoint, troubles>>

\* Whether a file exists after the job.
Leaves(k) == CASE k = "write" -> {TRUE} [] k = "delete" -> {FALSE} [] OTHER -> BOOLEAN

Commit(j, f) ==
    /\ pc(j) = "commit" /\ f \in job[j].targets \ job[j].written
    /\ \E e \in Leaves(kind(j)) : file' = [file EXCEPT ![f] = [by |-> j, exists |-> e]]
    /\ job' = [job EXCEPT ![j].written = @ \cup {f}]
    /\ UNCHANGED <<locks, checkpoint, troubles>>

\* A write, or the removal of a file, fails: atomic_write_text leaves it alone.
CommitFails(j) ==
    /\ pc(j) = "commit" /\ job[j].written # job[j].targets /\ troubles < MaxTroubles
    /\ troubles' = troubles + 1
    /\ IF kind(j) = "patch" THEN Goto(j, "load") /\ UNCHANGED locks ELSE End(j, "refused")
    /\ UNCHANGED <<file, checkpoint>>

Committed(j) ==
    /\ pc(j) = "commit" /\ job[j].written = job[j].targets
    /\ IF kind(j) = "patch"
       THEN job' = [job EXCEPT ![j].pc = "release", ![j].next = "finish"] /\ UNCHANGED locks
       ELSE End(j, "done")
    /\ UNCHANGED <<file, checkpoint, troubles>>

\* CheckpointManager.release, up to its pruning.
Release(j) ==
    /\ pc(j) = "release"
    /\ checkpoint' = [checkpoint EXCEPT ![j].active = FALSE]
    /\ Goto(j, "prune")
    /\ UNCHANGED <<file, locks, troubles>>

-----------------------------------------------------------------------------
(* CheckpointManager.restore: of a patch that fails, and of a rollback      *)

\* It reads and validates everything before it writes anything.
Load(j) ==
    /\ pc(j) = "load"
    /\ \/ \E c \in IF kind(j) = "patch" THEN {j} ELSE Jobs :
            /\ Complete(c)
            /\ job' = [job EXCEPT ![j].source = checkpoint[c].saved, ![j].targets = checkpoint[c].of,
                                  ![j].written = {}, ![j].pc = "restore"]
            /\ UNCHANGED locks
       \/ kind(j) = "rollback" /\ End(j, "refused")
       \/ kind(j) = "patch" /\ ~Complete(j) /\ End(j, "torn")
    /\ UNCHANGED <<file, checkpoint, troubles>>

\* Mutant of RestoreFile: only files that exist again are written back.
RestoreExisting(j, f) ==
    /\ pc(j) = "restore" /\ f \in job[j].targets \ job[j].written
    /\ file' = IF file[f].exists THEN [file EXCEPT ![f] = job[j].source[f]] ELSE file
    /\ job' = [job EXCEPT ![j].written = @ \cup {f}]
    /\ UNCHANGED <<locks, checkpoint, troubles>>

RestoreFile(j, f) ==
    /\ pc(j) = "restore" /\ f \in job[j].targets \ job[j].written
    /\ file' = [file EXCEPT ![f] = job[j].source[f]]
    /\ job' = [job EXCEPT ![j].written = @ \cup {f}]
    /\ UNCHANGED <<locks, checkpoint, troubles>>

RestoreFails(j) ==
    /\ pc(j) = "restore" /\ job[j].written # job[j].targets /\ troubles < MaxTroubles
    /\ troubles' = troubles + 1
    /\ End(j, "torn")
    /\ UNCHANGED <<file, checkpoint>>

Restored(j) ==
    /\ pc(j) = "restore" /\ job[j].written = job[j].targets
    /\ IF kind(j) = "patch"
       THEN job' = [job EXCEPT ![j].pc = "release", ![j].next = "refuse"] /\ UNCHANGED locks
       ELSE End(j, "done")
    /\ UNCHANGED <<file, checkpoint, troubles>>

-----------------------------------------------------------------------------
(* CheckpointManager.prune                                                  *)

\* _complete_records: without the ones that a patch still needs.
Records == {c \in Jobs : Complete(c) /\ ~checkpoint[c].active}

\* Mutant of Spares: the newest record can go too.
SparesNone(D) == TRUE
Spares(D) == Records # {} => D # Records

\* Too many records, or too old or too big ones: always the oldest.
SelectDoomed(j) ==
    /\ pc(j) = "prune"
    /\ \E D \in SUBSET Records :
        /\ \A c \in D, d \in Records \ D : c \in checkpoint[d].older
        /\ Spares(D) /\ Cardinality(Records \ D) <= MaxCount
        /\ job' = [job EXCEPT ![j].doomed = D,
                              ![j].pc = IF D = {} THEN job[j].next ELSE "remove"]
    /\ UNCHANGED <<file, locks, checkpoint, troubles>>

RemoveDirectory(j, c) ==
    /\ pc(j) = "remove" /\ c \in job[j].doomed /\ Complete(c)
    /\ checkpoint' = [checkpoint EXCEPT ![c] = [NoCheckpoint EXCEPT !.active = checkpoint[c].active]]
    /\ job' = [job EXCEPT ![j].doomed = @ \ {c},
                          ![j].pc = IF job[j].doomed = {c} THEN job[j].next ELSE "remove"]
    /\ UNCHANGED <<file, locks, troubles>>

\* shutil.rmtree raises when somebody else has removed the directory.
RemoveFails(j) ==
    /\ pc(j) = "remove" /\ \E c \in job[j].doomed : ~Complete(c)
    /\ End(j, IF kind(j) # "maintenance" /\ job[j].next = "finish" THEN "late" ELSE "refused")
    /\ UNCHANGED <<file, checkpoint, troubles>>

Finish(j) ==
    /\ pc(j) \in {"finish", "refuse"}
    /\ End(j, IF pc(j) = "finish" THEN "done" ELSE "refused")
    /\ UNCHANGED <<file, checkpoint, troubles>>

-----------------------------------------------------------------------------
(* The world around                                                         *)

\* Somebody else, without the lock.
Edit(f) ==
    /\ troubles < MaxTroubles
    /\ troubles' = troubles + 1
    /\ \E e \in BOOLEAN : file' = [file EXCEPT ![f] = [by |-> "editor", exists |-> e]]
    /\ UNCHANGED <<locks, job, checkpoint>>

Running(j) == pc(j) # "idle" /\ ~Ended(j)

\* A process dies; the kernel releases its lock file.
Crash(p) ==
    /\ troubles < MaxTroubles /\ \E j \in Jobs : ProcessOf[j] = p /\ Running(j)
    /\ troubles' = troubles + 1
    /\ job' = [j \in Jobs |-> IF ProcessOf[j] = p /\ Running(j) THEN Gone(j, "crashed") ELSE job[j]]
    /\ threads' = [threads EXCEPT ![p] = None]
    /\ flock' = IF \E j \in Jobs : flock = j /\ ProcessOf[j] = p THEN None ELSE flock
    /\ UNCHANGED <<file, checkpoint>>

Init ==
    /\ file = [f \in Files |-> Original]
    /\ threads = [p \in Processes |-> None] /\ flock = None
    /\ job = [j \in Jobs |-> Idle]
    /\ checkpoint = [j \in Jobs |-> NoCheckpoint]
    /\ troubles = 0

Proceed(j) ==
    \/ TakeThread(j) \/ TakeFlock(j) \/ Plan(j) \/ SaveBlobs(j) \/ WriteManifest(j) \/ CheckPreimage(j)
    \/ Committed(j) \/ Release(j) \/ Load(j) \/ Restored(j)
    \/ SelectDoomed(j) \/ RemoveFails(j) \/ Finish(j)
    \/ \E f \in Files : Commit(j, f) \/ RestoreFile(j, f)
    \/ \E c \in Jobs : RemoveDirectory(j, c)

AllEnded == (\A j \in Jobs : Ended(j)) /\ UNCHANGED vars

Next ==
    \/ \E j \in Jobs : Start(j) \/ Proceed(j) \/ Cancel(j) \/ SaveFails(j) \/ CommitFails(j) \/ RestoreFails(j)
    \/ \E f \in Files : Edit(f)
    \/ \E p \in Processes : Crash(p)
    \/ AllEnded

Spec == Init /\ [][Next]_vars
FairSpec == Spec /\ \A j \in Jobs : WF_vars(Proceed(j))

-----------------------------------------------------------------------------
\* "Checkpoints record pre-mutation bytes" (safety/checkpoints.py): whatever a job
\* has written can be put back, while it works, and after it was torn or its
\* process died, also when another process prunes meanwhile - to what it has read, or
\* to what an editor outside of the lock wrote before the checkpoint.
Recoverable ==
    \A j \in Jobs :
        \/ pc(j) = "commit"
        \/ /\ pc(j) \in {"load", "restore", "torn", "crashed"} /\ kind(j) = "patch"
           /\ job[j].written # job[j].targets /\ \E f \in Files : file[f].by = j
        => /\ Complete(j)
           /\ \A f \in job[j].targets :
                checkpoint[j].saved[f] = job[j].expected[f] \/ checkpoint[j].saved[f].by = "editor"

\* "After acquisition, validation, checkpointing, and commit remain within the same
\* transaction" (tools/_workspace_lock.py): a tool replaces what it has read, or
\* what an editor outside of the lock wrote since; never another tool's work.
NoLostUpdate ==
    [][\A j \in Jobs, f \in Files :
        file'[f] # file[f] /\ file'[f].by = j /\ pc(j) = "commit"
            => file[f] = job[j].expected[f] \/ file[f].by = "editor"]_vars

\* "Filesystem failure during commit triggers checkpoint restoration" (tools/patch.py):
\* a mutation that is refused, or rolled back, has left nothing of it in any file.
RefusedLeavesNothing ==
    \A j \in Jobs, f \in Files : pc(j) = "refused" /\ kind(j) \in Mutations => file[f].by # j

\* Waiting for the locks ends, and so does a transaction.
TransactionEnds == \A j \in Jobs : Running(j) ~> Ended(j)
=============================================================================
