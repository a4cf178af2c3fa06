--------------------- MODULE WorkspaceTransactionProofs ---------------------
(***************************************************************************)
(* Three promises of a workspace transaction, for any jobs, processes,     *)
(* files and bounds: no tool overwrites another one's work, a refused      *)
(* mutation leaves nothing of it behind, and no pruning takes the          *)
(* checkpoint that a mutation may still have to go back to.                *)
(***************************************************************************)
EXTENDS WorkspaceTransaction, TLAPS

Kinds == Mutations \cup {"none", "rollback", "maintenance"}
Places == {"idle", "thread", "flock", "plan", "save", "manifest", "prune", "remove", "check", "commit",
           "release", "load", "restore", "finish", "refuse"} \cup Endings
Contents == [by : Jobs \cup {"original", "editor"}, exists : BOOLEAN]

JobType ==
    [pc : Places, kind : Kinds, targets : SUBSET Files, expected : [Files -> Contents],
     written : SUBSET Files, doomed : SUBSET Jobs, next : {"finish", "check", "refuse"},
     source : [Files -> Contents]]
CheckpointType ==
    [state : {"none", "partial", "complete"}, active : BOOLEAN, of : SUBSET Files,
     saved : [Files -> Contents], older : SUBSET Jobs]

TypeOK ==
    /\ file \in [Files -> Contents]
    /\ threads \in [Processes -> Jobs \cup {None}]
    /\ flock \in Jobs \cup {None}
    /\ job \in [Jobs -> JobType]
    /\ checkpoint \in [Jobs -> CheckpointType]

\* The places that each kind of job comes to.
Placed(j) ==
    /\ kind(j) = "none" <=> pc(j) = "idle"
    /\ pc(j) = "release" => job[j].next # "check"
    /\ pc(j) \notin Endings =>
        /\ kind(j) = "maintenance" => job[j].next = "finish" /\ pc(j) \in {"prune", "remove", "finish"}
        /\ kind(j) = "rollback" => pc(j) \in {"thread", "flock", "load", "restore"}
        /\ kind(j) \in Single =>
            /\ pc(j) \notin {"load", "restore", "release", "refuse"} /\ job[j].next # "refuse"
            /\ \E f \in Files : job[j].targets = {f}

\* Where a job works under the lock file.
Inside(j) ==
    \/ pc(j) \in {"plan", "save", "manifest", "check", "commit", "release", "load", "restore", "refuse"}
    \/ pc(j) \in {"prune", "remove", "finish"} /\ kind(j) # "maintenance"
LockHeld(j) == Inside(j) => flock = j

\* What is still to be written is what was read, or an editor's.
Fresh(j) ==
    pc(j) = "commit" => \A f \in job[j].targets \ job[j].written :
                            file[f] = job[j].expected[f] \/ file[f].by = "editor"

\* Of a job that has not written, or has undone what it wrote, there is no trace.
Before(j) ==
    \/ pc(j) \in {"idle", "thread", "flock", "plan", "save", "manifest", "check"}
    \/ pc(j) \in {"prune", "remove"} /\ job[j].next = "check"
Refusing(j) ==
    \/ pc(j) \in {"refuse", "refused"}
    \/ pc(j) \in {"release", "prune", "remove"} /\ job[j].next = "refuse"
Unwritten(j) == \A f \in Files : file[f].by # j
Unsaved(j) == \A c \in Jobs, f \in Files : checkpoint[c].saved[f].by # j /\ job[c].source[f].by # j
NoTrace(j) == kind(j) \in Mutations \cup {"none"} /\ (Before(j) \/ Refusing(j)) => Unwritten(j) /\ Unsaved(j)

\* While a mutation writes, and while it writes back, all there is of it is in files
\* that its checkpoint covers.
Writing(j) ==
    /\ Before(j) => job[j].written = {}
    /\ pc(j) = "commit"  => job[j].written \subseteq job[j].targets
    /\ pc(j) \in {"commit", "load", "restore"} => Unsaved(j)
    /\ pc(j) = "commit"  => \A f \in Files : file[f].by = j => f \in job[j].written
    /\ pc(j) = "load"    => \A f \in Files : file[f].by = j => f \in job[j].targets
    /\ pc(j) = "restore" => \A f \in Files : file[f].by = j => f \in job[j].targets \ job[j].written
Covered(j) ==
    /\ pc(j) \in {"idle", "thread", "flock", "plan", "save"} => checkpoint[j].state = "none"
    /\ pc(j) = "manifest" => checkpoint[j].state = "partial"
    /\ kind(j) \in Mutations /\ (Before(j) \/ pc(j) \in {"commit", "load"}) /\ checkpoint[j].state # "none" =>
            checkpoint[j].of = job[j].targets

Local(j) ==
    /\ Placed(j) /\ LockHeld(j) /\ Fresh(j) /\ NoTrace(j)
    /\ (kind(j) \in Mutations => Writing(j)) /\ Covered(j)

IInv == TypeOK /\ \A j \in Jobs : Local(j)

-----------------------------------------------------------------------------
(* A step of a job, as the others see it                                    *)

Frame(j) ==
    /\ \A k \in Jobs \ {j} : job'[k] = job[k]
    /\ flock' = flock \/ (flock = None /\ flock' = j) \/ (flock = j /\ flock' = None)
    /\ \A f \in Files : \/ file'[f] = file[f]
                        \/ flock = j /\ (file'[f].by = j \/ file'[f] = job[j].source[f])
    /\ \A c \in Jobs, f \in Files :
        \/ checkpoint'[c].saved[f] = checkpoint[c].saved[f]
        \/ checkpoint'[c].saved[f] = Original
        \/ flock = j /\ checkpoint'[c].saved[f] = file[f]
    /\ \A f \in Files :
        \/ job'[j].source[f] = job[j].source[f]
        \/ job'[j].source[f] = Original
        \/ \E c \in Jobs : job'[j].source[f] = checkpoint[c].saved[f]
    /\ \A c \in Jobs \ {j} :
        \/ checkpoint'[c].state = "none" /\ Complete(c)
        \/ checkpoint'[c].of = checkpoint[c].of /\ checkpoint'[c].state = checkpoint[c].state

\* What is clean of a job stays so while others work.
LEMMA StaysClean ==
    ASSUME IInv, NEW j \in Jobs, Frame(j), NEW k \in Jobs \ {j}
    PROVE  /\ Unsaved(k) /\ (Unwritten(k) \/ flock = k) => Unsaved(k)'
           /\ Unsaved(k) /\ Unwritten(k) => Unwritten(k)'
<1>1. job'[k] = job[k] /\ k # j /\ k \in Jobs
  BY DEF Frame
<1>2. Unsaved(k) /\ (Unwritten(k) \/ flock = k) => Unsaved(k)'
  <2> SUFFICES ASSUME Unsaved(k), Unwritten(k) \/ flock = k, NEW c \in Jobs, NEW f \in Files
               PROVE  checkpoint'[c].saved[f].by # k /\ job'[c].source[f].by # k
    BY DEF Unsaved
  <2>1. checkpoint'[c].saved[f].by # k
    BY <1>1, WorkspaceAssumption DEF Frame, Unsaved, Unwritten, Original
  <2>2. job'[c].source[f].by # k
    BY <1>1, WorkspaceAssumption DEF Frame, Unsaved, Original
  <2> QED BY <2>1, <2>2
<1>3. Unsaved(k) /\ Unwritten(k) => Unwritten(k)'
  BY <1>1 DEF Unsaved, Unwritten, Frame
<1> QED BY <1>2, <1>3

LEMMA OthersKeep ==
    ASSUME IInv, NEW j \in Jobs, Frame(j), NEW k \in Jobs \ {j}
    PROVE  Local(k)'
<1>1. job'[k] = job[k] /\ Local(k) /\ k # j /\ k \in Jobs
  BY DEF Frame, IInv
<1>2. Placed(k)'
  BY <1>1 DEF Local, Placed, pc, kind
<1>3. LockHeld(k)' /\ (Inside(k) => flock = k)
  BY <1>1, WorkspaceAssumption DEF Local, LockHeld, Inside, pc, kind, Frame
<1>4. Unsaved(k) /\ (Unwritten(k) \/ flock = k) => Unsaved(k)'
  BY StaysClean
<1>5. Unsaved(k) /\ Unwritten(k) => Unwritten(k)'
  BY StaysClean
<1>6. NoTrace(k)'
  BY <1>1, <1>4, <1>5 DEF Local, NoTrace, Before, Refusing, pc, kind
<1>7. flock = k => \A f \in Files : file'[f] = file[f]
  BY <1>1 DEF Frame
<1>8. Fresh(k)'
  <2> SUFFICES ASSUME pc(k) = "commit", NEW f \in job[k].targets \ job[k].written
               PROVE  file'[f] = job[k].expected[f] \/ file'[f].by = "editor"
    BY <1>1 DEF Fresh, pc
  <2>1. f \in Files
    BY DEF IInv, TypeOK, JobType
  <2> QED BY <1>1, <1>3, <1>7, <2>1 DEF Local, Fresh, Inside
<1>9. kind(k) \in Mutations => Writing(k)'
  <2> SUFFICES ASSUME kind(k) \in Mutations PROVE Writing(k)'
    OBVIOUS
  <2>1. CASE pc(k) \in {"commit", "load", "restore"}
    <3>1. flock = k
      BY <1>3, <2>1 DEF Inside
    <3> QED BY <1>1, <1>4, <1>7, <2>1, <3>1 DEF Local, Writing, Before, pc, kind
  <2>2. CASE pc(k) \notin {"commit", "load", "restore"}
    BY <1>1, <2>2 DEF Local, Writing, Before, pc, kind
  <2> QED BY <2>1, <2>2
<1>10. Covered(k)'
  BY <1>1 DEF Local, Covered, Before, pc, kind, Frame, Complete
<1> QED BY <1>1, <1>2, <1>3, <1>6, <1>8, <1>9, <1>10 DEF Local, kind

LEMMA StepKeeps ==
    ASSUME IInv, NEW j \in Jobs, Frame(j), TypeOK', Local(j)'
    PROVE  IInv' /\ Frame(j)
<1>1. \A k \in Jobs : Local(k)'
  BY OthersKeep
<1> QED BY <1>1 DEF IInv

LEMMA Own ==
    ASSUME IInv, NEW j \in Jobs
    PROVE  TypeOK /\ Local(j) /\ job[j] \in JobType /\ checkpoint[j] \in CheckpointType
BY DEF IInv, TypeOK

LEMMA Moved ==
    ASSUME TypeOK, NEW j \in Jobs, NEW r \in JobType, job' = [job EXCEPT ![j] = r]
    PROVE  job' \in [Jobs -> JobType] /\ job'[j] = r /\ \A k \in Jobs \ {j} : job'[k] = job[k]
BY DEF TypeOK

-----------------------------------------------------------------------------
(* A job ends                                                               *)

LEMMA Unlocked ==
    ASSUME TypeOK, NEW j \in Jobs, Unlock(j)
    PROVE  /\ threads' \in [Processes -> Jobs \cup {None}] /\ flock' \in Jobs \cup {None}
           /\ flock' = flock \/ (flock = j /\ flock' = None)
BY DEF TypeOK, Unlock

LEMMA GoneType ==
    ASSUME NEW j \in Jobs, job[j] \in JobType, NEW outcome \in Endings
    PROVE  /\ Gone(j, outcome) \in JobType
           /\ Gone(j, outcome).pc = outcome /\ Gone(j, outcome).kind = kind(j)
           /\ \A f \in Files : Gone(j, outcome).source[f] \in {job[j].source[f], Original}
<1>1. CASE outcome \in {"torn", "crashed"}
  <2>1. Gone(j, outcome) = [job[j] EXCEPT !.pc = outcome]
    BY <1>1 DEF Gone
  <2> QED BY <2>1 DEF JobType, kind, Places
<1>2. CASE outcome \notin {"torn", "crashed"}
  <2>1. Gone(j, outcome) = [Idle EXCEPT !.pc = outcome, !.kind = kind(j)]
    BY <1>2 DEF Gone
  <2>2. Idle \in JobType /\ kind(j) \in Kinds
    BY DEF Idle, JobType, Places, Kinds, Original, Contents, kind
  <2>3. \A f \in Files : Gone(j, outcome).source[f] = Original
    BY <2>1 DEF Idle
  <2> QED BY <2>1, <2>2, <2>3 DEF JobType, Places
<1> QED BY <1>1, <1>2

LEMMA NoCheckpointType ==
    /\ NoCheckpoint \in CheckpointType /\ NoCheckpoint.state = "none"
    /\ \A f \in Files : NoCheckpoint.saved[f] = Original
BY DEF NoCheckpoint, CheckpointType, Original, Contents

\* What a job that ends leaves in place, and what its end needs.
LEMMA EndKeeps ==
    ASSUME IInv, NEW j \in Jobs, NEW outcome \in Endings, End(j, outcome), pc(j) # "idle", file' = file,
           checkpoint' = checkpoint \/ checkpoint' = [checkpoint EXCEPT ![j] = NoCheckpoint],
           outcome = "refused" /\ kind(j) \in Mutations => Unwritten(j) /\ Unsaved(j)
    PROVE  IInv' /\ Frame(j)
<1> DEFINE r == Gone(j, outcome)
<1>1. TypeOK /\ Local(j) /\ job[j] \in JobType
  BY Own
<1>2. r \in JobType /\ job' = [job EXCEPT ![j] = r]
  BY <1>1, GoneType DEF End
<1>3. job' \in [Jobs -> JobType] /\ job'[j] = r /\ \A k \in Jobs \ {j} : job'[k] = job[k]
  BY <1>1, <1>2, Moved
<1>4. job'[j].pc = outcome /\ job'[j].kind = kind(j)
      /\ \A f \in Files : job'[j].source[f] \in {job[j].source[f], Original}
  BY <1>1, <1>3, GoneType
<1> HIDE DEF r
<1>5. /\ checkpoint' \in [Jobs -> CheckpointType]
      /\ \A c \in Jobs, f \in Files : checkpoint'[c].saved[f] \in {checkpoint[c].saved[f], Original}
      /\ \A c \in Jobs \ {j} : checkpoint'[c] = checkpoint[c]
  BY <1>1, NoCheckpointType DEF TypeOK
<1>6. /\ threads' \in [Processes -> Jobs \cup {None}] /\ flock' \in Jobs \cup {None}
      /\ flock' = flock \/ (flock = j /\ flock' = None)
  BY <1>1, Unlocked DEF End
<1>7. TypeOK'
  BY <1>1, <1>3, <1>5, <1>6 DEF TypeOK
<1>8. Frame(j)
  BY <1>3, <1>4, <1>5, <1>6 DEF Frame
<1>9. Placed(j)'
  BY <1>1, <1>4 DEF Local, Placed, pc, kind, Endings
<1>10. LockHeld(j)' /\ Fresh(j)' /\ Covered(j)' /\ Writing(j)'
  BY <1>4 DEF LockHeld, Inside, Fresh, Covered, Before, Writing, pc, kind, Endings
<1>11. Unwritten(j) /\ Unsaved(j) => Unwritten(j)' /\ Unsaved(j)'
  BY <1>3, <1>4, <1>5, WorkspaceAssumption DEF Unwritten, Unsaved, Original
<1>12. NoTrace(j)'
  BY <1>4, <1>9, <1>11 DEF NoTrace, Placed, Before, Refusing, pc, kind, Endings
<1> QED BY <1>7, <1>8, <1>9, <1>10, <1>12, StepKeeps DEF Local

-----------------------------------------------------------------------------
(* A job goes on, and no file changes                                       *)

\* Job j is at p and goes on to n from there.
Steps(j, p, n) ==
    /\ job' \in [Jobs -> JobType]
    /\ \A k \in Jobs \ {j} : job'[k] = job[k]
    /\ job'[j].pc = p /\ job'[j].next = n
    /\ job'[j].kind = job[j].kind /\ job'[j].targets = job[j].targets
    /\ job'[j].written = job[j].written /\ job'[j].source = job[j].source

LockStep(j) ==
    /\ threads' \in [Processes -> Jobs \cup {None}] /\ flock' \in Jobs \cup {None}
    /\ flock' = flock \/ (flock = None /\ flock' = j)

\* The checkpoints at most lose something.
StoreStep(j) ==
    /\ checkpoint' \in [Jobs -> CheckpointType]
    /\ \A c \in Jobs, f \in Files :
          checkpoint'[c].saved[f] = checkpoint[c].saved[f] \/ checkpoint'[c].saved[f] = Original
    /\ \A c \in Jobs \ {j} :
        \/ checkpoint'[c].state = "none" /\ Complete(c)
        \/ checkpoint'[c].of = checkpoint[c].of /\ checkpoint'[c].state = checkpoint[c].state

LEMMA Quiet ==
    ASSUME IInv, NEW j \in Jobs, NEW p, NEW n, Steps(j, p, n), LockStep(j), StoreStep(j), file' = file
    PROVE  /\ TypeOK' /\ Frame(j)
           /\ Unwritten(j) => Unwritten(j)'
           /\ Unsaved(j) => Unsaved(j)'
<1>1. TypeOK'
  BY DEF IInv, TypeOK, Steps, LockStep, StoreStep
<1>2. Frame(j)
  BY DEF Frame, Steps, LockStep, StoreStep
<1>3. Unwritten(j) => Unwritten(j)'
  BY DEF Unwritten
<1>4. Unsaved(j) => Unsaved(j)'
  <2> SUFFICES ASSUME Unsaved(j), NEW c \in Jobs, NEW f \in Files
               PROVE  checkpoint'[c].saved[f].by # j /\ job'[c].source[f].by # j
    BY DEF Unsaved
  <2>1. checkpoint'[c].saved[f].by # j
    BY WorkspaceAssumption DEF StoreStep, Unsaved, Original
  <2>2. job'[c].source[f].by # j
    BY DEF Steps, Unsaved
  <2> QED BY <2>1, <2>2
<1> QED BY <1>1, <1>2, <1>3, <1>4

\* The places that a job may go to without a look at the files.
LEMMA WalkKeeps ==
    ASSUME IInv, NEW j \in Jobs, NEW p \in Places \ {"idle"}, NEW n, Steps(j, p, n),
           LockStep(j), StoreStep(j), file' = file,
           Placed(j)', LockHeld(j)', Fresh(j)',
           kind(j) \in Mutations /\ (Before(j)' \/ Refusing(j)') => Unwritten(j) /\ Unsaved(j),
           kind(j) \in Mutations => Writing(j)',
           Covered(j)'
    PROVE  IInv' /\ Frame(j)
<1>1. /\ TypeOK' /\ Frame(j)
      /\ Unwritten(j) => Unwritten(j)'
      /\ Unsaved(j) => Unsaved(j)'
  BY Quiet
<1>2. kind(j)' = kind(j) /\ kind(j) # "none" 
  BY DEF Steps, kind, pc, Placed
<1>3. NoTrace(j)'
  BY <1>1, <1>2 DEF NoTrace
<1>4. Local(j)'
  BY <1>2, <1>3 DEF Local
<1> QED BY <1>1, <1>4, StepKeeps

LEMMA Went ==
    ASSUME TypeOK, NEW j \in Jobs, NEW p \in Places
    PROVE  /\ Goto(j, p) => Steps(j, p, job[j].next)
           /\ \A n \in {"finish", "check", "refuse"} :
                job' = [job EXCEPT ![j].pc = p, ![j].next = n] => Steps(j, p, n)
<1>1. job[j] \in JobType
  BY DEF TypeOK
<1>2. ASSUME Goto(j, p)
      PROVE  Steps(j, p, job[j].next)
  <2> DEFINE r == [job[j] EXCEPT !.pc = p]
  <2>1. /\ r \in JobType /\ r.pc = p /\ r.next = job[j].next /\ r.kind = job[j].kind
        /\ r.targets = job[j].targets /\ r.written = job[j].written /\ r.source = job[j].source
    BY <1>1 DEF JobType
  <2>2. job' = [job EXCEPT ![j] = r]
    BY <1>2 DEF Goto
  <2> HIDE DEF r
  <2> QED BY <2>1, <2>2, Moved DEF Steps
<1>3. ASSUME NEW n \in {"finish", "check", "refuse"}, job' = [job EXCEPT ![j].pc = p, ![j].next = n]
      PROVE  Steps(j, p, n)
  <2> DEFINE r == [job[j] EXCEPT !.pc = p, !.next = n]
  <2>1. /\ r \in JobType /\ r.pc = p /\ r.next = n /\ r.kind = job[j].kind
        /\ r.targets = job[j].targets /\ r.written = job[j].written /\ r.source = job[j].source
    BY <1>1 DEF JobType
  <2>2. job' = [job EXCEPT ![j] = r]
    BY <1>3
  <2> HIDE DEF r
  <2> QED BY <2>1, <2>2, Moved DEF Steps
<1> QED BY <1>2, <1>3

LEMMA Still ==
    ASSUME IInv, NEW j \in Jobs, checkpoint' = checkpoint
    PROVE  StoreStep(j)
BY DEF IInv, TypeOK, StoreStep

LEMMA Unlocking ==
    ASSUME IInv, NEW j \in Jobs, UNCHANGED <<threads, flock>>
    PROVE  LockStep(j)
BY DEF IInv, TypeOK, LockStep

LEMMA TakeThreadKeeps ==
    ASSUME IInv, NEW j \in Jobs, TakeThread(j)
    PROVE  IInv' /\ Frame(j)
<1>1. TypeOK /\ Local(j) /\ job[j] \in JobType
  BY Own
<1>2. Steps(j, "flock", job[j].next) /\ pc(j) = "thread"
  BY <1>1, Went DEF TakeThread, Places
<1>3. LockStep(j) /\ StoreStep(j) /\ file' = file
  BY <1>1, Still DEF TypeOK, TakeThread, LockStep
<1>4. Placed(j)' /\ LockHeld(j)' /\ Fresh(j)' /\ Covered(j)'
  BY <1>1, <1>2, <1>3 DEF Local, Placed, LockHeld, Inside, Fresh, Covered, Before, Steps, pc, kind, Endings, TakeThread
<1>5. kind(j) \in Mutations => Writing(j)' /\ Unwritten(j) /\ Unsaved(j)
  BY <1>1, <1>2, <1>3 DEF Local, NoTrace, Writing, Before, Steps, pc, kind
<1> QED BY <1>2, <1>3, <1>4, <1>5, WalkKeeps DEF Places

LEMMA TakeFlockKeeps ==
    ASSUME IInv, NEW j \in Jobs, TakeFlock(j)
    PROVE  IInv' /\ Frame(j)
<1>1. TypeOK /\ Local(j) /\ job[j] \in JobType
  BY Own
<1>2. \E p \in {"load", "plan"} :
        Steps(j, p, job[j].next) /\ pc(j) = "flock" /\ (p = "load" <=> kind(j) = "rollback")
  BY <1>1, Went DEF TakeFlock, Places
<1>3. LockStep(j) /\ StoreStep(j) /\ file' = file /\ flock' = j
  BY <1>1, Still DEF TypeOK, TakeFlock, LockStep
<1>4. Placed(j)' /\ LockHeld(j)' /\ Fresh(j)' /\ Covered(j)'
  BY <1>1, <1>2, <1>3 DEF Local, Placed, LockHeld, Inside, Fresh, Covered, Before, Steps, pc, kind, Endings, Single, Mutations, TakeFlock
<1>5. kind(j) \in Mutations => Writing(j)' /\ Unwritten(j) /\ Unsaved(j)
  BY <1>1, <1>2, <1>3 DEF Local, NoTrace, Writing, Before, Steps, pc, kind, Single, Mutations
<1> QED BY <1>2, <1>3, <1>4, <1>5, WalkKeeps DEF Places

LEMMA CancelKeeps ==
    ASSUME IInv, NEW j \in Jobs, Cancel(j)
    PROVE  IInv' /\ Frame(j)
BY EndKeeps DEF Cancel, Endings

LEMMA PlanKeeps ==
    ASSUME IInv, NEW j \in Jobs, Plan(j)
    PROVE  IInv' /\ Frame(j)
<1>1. TypeOK /\ Local(j) /\ job[j] \in JobType /\ pc(j) = "plan"
  BY Own DEF Plan
<1>2. kind(j) \in Mutations => Unwritten(j) /\ Unsaved(j)
  BY <1>1 DEF Local, NoTrace, Before
<1>3. CASE End(j, "refused")
  BY <1>1, <1>2, <1>3, EndKeeps DEF Plan, Endings
<1>4. CASE job' = [job EXCEPT ![j].expected = file, ![j].pc = "save"] /\ UNCHANGED locks
  <2>1. Steps(j, "save", job[j].next)
    BY <1>1, <1>4 DEF TypeOK, Steps, JobType, Places
  <2>2. LockStep(j) /\ StoreStep(j) /\ file' = file /\ checkpoint' = checkpoint /\ flock' = flock
    BY <1>1, <1>4, Still DEF TypeOK, Plan, LockStep, locks
  <2>3. Placed(j)' /\ LockHeld(j)' /\ Fresh(j)' /\ Covered(j)'
    BY <1>1, <2>1, <2>2 DEF Local, Placed, LockHeld, Inside, Fresh, Covered, Before, Steps, pc, kind, Endings
  <2>4. kind(j) \in Mutations => Writing(j)'
    BY <1>1, <2>1 DEF Local, Writing, Before, Steps, pc, kind
  <2> QED BY <1>2, <2>1, <2>2, <2>3, <2>4, WalkKeeps DEF Places
<1> QED BY <1>3, <1>4 DEF Plan

LEMMA SaveFailsKeeps ==
    ASSUME IInv, NEW j \in Jobs, SaveFails(j)
    PROVE  IInv' /\ Frame(j)
<1>1. Local(j) /\ pc(j) = "manifest"
  BY Own DEF SaveFails
<1>2. kind(j) \in Mutations => Unwritten(j) /\ Unsaved(j)
  BY <1>1 DEF Local, NoTrace, Before
<1> QED BY <1>1, <1>2, EndKeeps DEF SaveFails, Endings

LEMMA WriteManifestKeeps ==
    ASSUME IInv, NEW j \in Jobs, WriteManifest(j)
    PROVE  IInv' /\ Frame(j)
<1>1. TypeOK /\ Local(j) /\ job[j] \in JobType /\ pc(j) = "manifest" /\ checkpoint[j] \in CheckpointType
  BY Own DEF WriteManifest
<1>2. Steps(j, "prune", "check")
  BY <1>1, Went DEF WriteManifest, Places
<1>3. LockStep(j) /\ StoreStep(j) /\ file' = file /\ flock' = flock /\ checkpoint'[j].of = checkpoint[j].of
  <2> DEFINE O == {c \in Jobs : Complete(c)}
  <2>1. O \in SUBSET Jobs
    OBVIOUS
  <2>2. checkpoint' = [checkpoint EXCEPT ![j].state = "complete", ![j].older = O]
    BY DEF WriteManifest
  <2> HIDE DEF O
  <2>3. StoreStep(j) /\ checkpoint'[j].of = checkpoint[j].of
    BY <1>1, <2>1, <2>2 DEF TypeOK, StoreStep, CheckpointType
  <2> QED BY <1>1, <2>3 DEF TypeOK, WriteManifest, LockStep, locks
<1>4. Placed(j)' /\ LockHeld(j)' /\ Fresh(j)' /\ Covered(j)'
  BY <1>1, <1>2, <1>3 DEF Local, Placed, LockHeld, Inside, Fresh, Covered, Before, Steps, pc, kind, Endings
<1>5. kind(j) \in Mutations => Writing(j)' /\ Unwritten(j) /\ Unsaved(j)
  BY <1>1, <1>2 DEF Local, NoTrace, Writing, Before, Steps, pc, kind
<1> QED BY <1>2, <1>3, <1>4, <1>5, WalkKeeps DEF Places

LEMMA CheckPreimageKeeps ==
    ASSUME IInv, NEW j \in Jobs, CheckPreimage(j)
    PROVE  IInv' /\ Frame(j)
<1>1. TypeOK /\ Local(j) /\ job[j] \in JobType /\ pc(j) = "check"
  BY Own DEF CheckPreimage
<1>2. kind(j) \in Mutations => Unwritten(j) /\ Unsaved(j)
  BY <1>1 DEF Local, NoTrace, Before
<1>3. CASE End(j, "refused")
  BY <1>1, <1>2, <1>3, EndKeeps DEF CheckPreimage, Endings
<1>4. CASE UNCHANGED locks
  <2>1. LockStep(j) /\ StoreStep(j) /\ file' = file /\ checkpoint' = checkpoint /\ flock' = flock
    BY <1>1, <1>4, Still DEF TypeOK, CheckPreimage, LockStep, locks
  <2>2. \/ Unmoved(j) /\ Steps(j, "commit", job[j].next) /\ job'[j].expected = job[j].expected
        \/ kind(j) = "patch" /\ Steps(j, "release", "refuse")
        \/ End(j, "refused")
    <3>1. CASE Unmoved(j) /\ Goto(j, "commit")
      <4>1. job'[j].expected = job[j].expected
        BY <1>1, <3>1 DEF TypeOK, Goto, JobType
      <4> QED BY <1>1, <3>1, <4>1, Went DEF Places
    <3>2. CASE kind(j) = "patch" /\ job' = [job EXCEPT ![j].pc = "release", ![j].next = "refuse"]
      BY <1>1, <3>2, Went DEF Places
    <3> QED BY <3>1, <3>2 DEF CheckPreimage
  <2>3. CASE Unmoved(j) /\ Steps(j, "commit", job[j].next) /\ job'[j].expected = job[j].expected
    <3>1. Placed(j)' /\ LockHeld(j)' /\ Covered(j)'
      BY <1>1, <2>1, <2>3 DEF Local, Placed, LockHeld, Inside, Covered, Before, Steps, pc, kind, Endings
    <3>2. Fresh(j)'
      BY <2>1, <2>3 DEF Fresh, Unmoved, Steps
    <3>3. kind(j) \in Mutations => Writing(j)'
      BY <1>1, <1>2, <2>1, <2>3, Quiet DEF Local, Writing, Before, Steps, pc, kind, Unwritten
    <3>4. ~(Before(j)' \/ Refusing(j)')
      BY <2>3 DEF Before, Refusing, Steps, pc
    <3> QED BY <2>1, <2>3, <3>1, <3>2, <3>3, <3>4, WalkKeeps DEF Places
  <2>4. CASE kind(j) = "patch" /\ Steps(j, "release", "refuse")
    <3>1. Placed(j)' /\ LockHeld(j)' /\ Fresh(j)' /\ Covered(j)'
      BY <1>1, <2>1, <2>4 DEF Local, Placed, LockHeld, Inside, Fresh, Covered, Before, Steps, pc, kind, Endings, Single
    <3>2. kind(j) \in Mutations => Writing(j)'
      BY <1>1, <2>4 DEF Local, Writing, Before, Steps, pc, kind
    <3> QED BY <1>2, <2>1, <2>4, <3>1, <3>2, WalkKeeps DEF Places
  <2> QED BY <1>3, <2>2, <2>3, <2>4
<1> QED BY <1>3, <1>4 DEF CheckPreimage

LEMMA CommitFailsKeeps ==
    ASSUME IInv, NEW j \in Jobs, CommitFails(j)
    PROVE  IInv' /\ Frame(j)
<1>1. TypeOK /\ Local(j) /\ job[j] \in JobType /\ pc(j) = "commit"
  BY Own DEF CommitFails
<1>2. kind(j) \in Mutations
  BY <1>1 DEF Local, Placed, JobType, Kinds, kind, Endings
<1>3. CASE kind(j) = "patch"
  <2>1. Steps(j, "load", job[j].next)
    BY <1>1, <1>3, Went DEF CommitFails, Places
  <2>2. LockStep(j) /\ StoreStep(j) /\ file' = file /\ checkpoint' = checkpoint /\ flock' = flock
    BY <1>1, <1>3, Still DEF TypeOK, CommitFails, LockStep, locks
  <2>3. Placed(j)' /\ LockHeld(j)' /\ Fresh(j)' /\ Covered(j)'
    BY <1>1, <1>3, <2>1, <2>2 DEF Local, Placed, LockHeld, Inside, Fresh, Covered, Before, Steps, pc, kind, Endings, Single
  <2>4. Writing(j)'
    BY <1>1, <1>2, <2>1, <2>2, Quiet DEF Local, Writing, Before, Steps, pc, kind
  <2>5. ~(Before(j)' \/ Refusing(j)')
    BY <2>1 DEF Before, Refusing, Steps, pc
  <2> QED BY <2>1, <2>2, <2>3, <2>4, <2>5, WalkKeeps DEF Places
<1>4. CASE kind(j) # "patch"
  <2>1. job[j].written \subseteq job[j].targets /\ job[j].written # job[j].targets
    BY <1>1, <1>2 DEF Local, Writing, CommitFails
  <2>2. \E f \in Files : job[j].targets = {f}
    BY <1>1, <1>2, <1>4 DEF Local, Placed, Mutations, Endings
  <2>3. job[j].written = {}
    BY <2>1, <2>2
  <2>4. Unwritten(j) /\ Unsaved(j)
    BY <1>1, <1>2, <2>3 DEF Local, Writing, Unwritten
  <2> QED BY <1>1, <1>4, <2>4, EndKeeps DEF CommitFails, Endings
<1> QED BY <1>3, <1>4

LEMMA CommittedKeeps ==
    ASSUME IInv, NEW j \in Jobs, Committed(j)
    PROVE  IInv' /\ Frame(j)
<1>1. TypeOK /\ Local(j) /\ job[j] \in JobType /\ pc(j) = "commit"
  BY Own DEF Committed
<1>2. CASE kind(j) = "patch"
  <2>1. Steps(j, "release", "finish")
    BY <1>1, <1>2, Went DEF Committed, Places
  <2>2. LockStep(j) /\ StoreStep(j) /\ file' = file /\ checkpoint' = checkpoint /\ flock' = flock
    BY <1>1, <1>2, Still DEF TypeOK, Committed, LockStep, locks
  <2>3. Placed(j)' /\ LockHeld(j)' /\ Fresh(j)' /\ Covered(j)' /\ Writing(j)' /\ ~(Before(j)' \/ Refusing(j)')
    BY <1>1, <1>2, <2>1, <2>2
       DEF Local, Placed, LockHeld, Inside, Fresh, Covered, Writing, Before, Refusing, Steps, pc, kind, Endings, Single
  <2> QED BY <2>1, <2>2, <2>3, WalkKeeps DEF Places
<1>3. CASE kind(j) # "patch"
  BY <1>1, <1>3, EndKeeps DEF Committed, Endings
<1> QED BY <1>2, <1>3

LEMMA ReleaseKeeps ==
    ASSUME IInv, NEW j \in Jobs, Release(j)
    PROVE  IInv' /\ Frame(j)
<1>1. TypeOK /\ Local(j) /\ job[j] \in JobType /\ pc(j) = "release"
  BY Own DEF Release
<1>2. Steps(j, "prune", job[j].next)
  BY <1>1, Went DEF Release, Places
<1>3. LockStep(j) /\ file' = file /\ flock' = flock
  BY <1>1 DEF TypeOK, Release, LockStep, locks
<1>4. StoreStep(j)
  <2>1. checkpoint' = [checkpoint EXCEPT ![j].active = FALSE]
    BY DEF Release
  <2>2. checkpoint[j] \in CheckpointType
    BY <1>1 DEF TypeOK
  <2> DEFINE r == [checkpoint[j] EXCEPT !.active = FALSE]
  <2>3. r \in CheckpointType /\ r.saved = checkpoint[j].saved
    BY <2>2 DEF CheckpointType
  <2>4. checkpoint' = [checkpoint EXCEPT ![j] = r]
    BY <2>1
  <2> HIDE DEF r
  <2> QED BY <1>1, <2>3, <2>4 DEF TypeOK, StoreStep
<1>5. Placed(j)' /\ LockHeld(j)' /\ Fresh(j)' /\ Covered(j)' /\ Writing(j)' /\ ~Before(j)'
  BY <1>1, <1>2, <1>3
     DEF Local, Placed, LockHeld, Inside, Fresh, Covered, Writing, Before, Steps, pc, kind, Endings, Single
<1>6. kind(j) \in Mutations /\ Refusing(j)' => Unwritten(j) /\ Unsaved(j)
  BY <1>1, <1>2 DEF Local, NoTrace, Refusing, Steps, pc, kind
<1> QED BY <1>2, <1>3, <1>4, <1>5, <1>6, WalkKeeps DEF Places

LEMMA RestoredKeeps ==
    ASSUME IInv, NEW j \in Jobs, Restored(j)
    PROVE  IInv' /\ Frame(j)
<1>1. TypeOK /\ Local(j) /\ job[j] \in JobType /\ pc(j) = "restore" /\ job[j].written = job[j].targets
  BY Own DEF Restored
<1>2. CASE kind(j) = "patch"
  <2>1. Steps(j, "release", "refuse")
    BY <1>1, <1>2, Went DEF Restored, Places
  <2>2. LockStep(j) /\ StoreStep(j) /\ file' = file /\ checkpoint' = checkpoint /\ flock' = flock
    BY <1>1, <1>2, Still DEF TypeOK, Restored, LockStep, locks
  <2>3. Placed(j)' /\ LockHeld(j)' /\ Fresh(j)' /\ Covered(j)' /\ Writing(j)'
    BY <1>1, <1>2, <2>1, <2>2
       DEF Local, Placed, LockHeld, Inside, Fresh, Covered, Writing, Before, Steps, pc, kind, Endings, Single
  <2>4. Unwritten(j) /\ Unsaved(j)
    BY <1>1, <1>2 DEF Local, Writing, Unwritten, Mutations
  <2> QED BY <2>1, <2>2, <2>3, <2>4, WalkKeeps DEF Places
<1>3. CASE kind(j) # "patch"
  BY <1>1, <1>3, EndKeeps DEF Restored, Endings
<1> QED BY <1>2, <1>3

LEMMA RestoreFailsKeeps ==
    ASSUME IInv, NEW j \in Jobs, RestoreFails(j)
    PROVE  IInv' /\ Frame(j)
BY EndKeeps DEF RestoreFails, Endings

\* Pruning goes on, or is over.
LEMMA PruningKeeps ==
    ASSUME IInv, NEW j \in Jobs, pc(j) \in {"prune", "remove"}, NEW p \in {"remove", job[j].next},
           Steps(j, p, job[j].next), UNCHANGED <<file, locks>>, StoreStep(j),
           checkpoint'[j].state # "none" => checkpoint'[j].of = checkpoint[j].of /\ checkpoint[j].state # "none"
    PROVE  IInv' /\ Frame(j)
<1>1. TypeOK /\ Local(j) /\ job[j] \in JobType
  BY Own
<1>2. LockStep(j) /\ file' = file /\ flock' = flock
  BY <1>1 DEF TypeOK, LockStep, locks
<1>3. p \in Places \ {"idle"} /\ job[j].next \in {"finish", "check", "refuse"}
  BY <1>1 DEF JobType, Places
<1>4. Placed(j)' /\ LockHeld(j)' /\ Fresh(j)'
  BY <1>1, <1>2, <1>3
     DEF Local, Placed, LockHeld, Inside, Fresh, Steps, pc, kind, Endings, Single
<1>5. Before(j)' <=> Before(j)
  BY <1>3 DEF Before, Steps, pc
<1>6. Refusing(j)' => Refusing(j)
  BY <1>3 DEF Refusing, Steps, pc
<1>7. kind(j) \in Mutations => Writing(j)'
  BY <1>1, <1>3, <1>5 DEF Local, Writing, Steps, pc
<1>8. Covered(j)'
  BY <1>1, <1>3, <1>5 DEF Local, Covered, Steps, pc, kind
<1>9. kind(j) \in Mutations /\ (Before(j)' \/ Refusing(j)') => Unwritten(j) /\ Unsaved(j)
  BY <1>1, <1>5, <1>6 DEF Local, NoTrace
<1> QED BY <1>2, <1>3, <1>4, <1>7, <1>8, <1>9, WalkKeeps

LEMMA SelectDoomedKeeps ==
    ASSUME IInv, NEW j \in Jobs, SelectDoomed(j)
    PROVE  IInv' /\ Frame(j)
<1>1. TypeOK /\ Local(j) /\ job[j] \in JobType
  BY Own
<1>2. PICK D \in SUBSET Jobs :
        job' = [job EXCEPT ![j].doomed = D, ![j].pc = IF D = {} THEN job[j].next ELSE "remove"]
  BY DEF SelectDoomed, Records
<1> DEFINE p == IF D = {} THEN job[j].next ELSE "remove"
<1>3. p \in {"remove", job[j].next} /\ p \in Places
  BY <1>1 DEF JobType, Places
<1>4. Steps(j, p, job[j].next)
  <2> HIDE DEF p
  <2> QED BY <1>1, <1>2, <1>3 DEF TypeOK, Steps, JobType, p
<1>5. StoreStep(j) /\ checkpoint' = checkpoint
  BY Still DEF SelectDoomed
<1> HIDE DEF p
<1> QED BY <1>3, <1>4, <1>5, PruningKeeps DEF SelectDoomed

LEMMA RemoveDirectoryKeeps ==
    ASSUME IInv, NEW j \in Jobs, NEW c \in Jobs, RemoveDirectory(j, c)
    PROVE  IInv' /\ Frame(j)
<1>1. TypeOK /\ Local(j) /\ job[j] \in JobType
  BY Own
<1> DEFINE p == IF job[j].doomed = {c} THEN job[j].next ELSE "remove"
<1>2. p \in {"remove", job[j].next} /\ p \in Places
  BY <1>1 DEF JobType, Places
<1>3. Steps(j, p, job[j].next)
  <2>1. job' = [job EXCEPT ![j].doomed = @ \ {c}, ![j].pc = p]
    BY DEF RemoveDirectory
  <2> HIDE DEF p
  <2> QED BY <1>1, <1>2, <2>1 DEF TypeOK, Steps, JobType
<1>4. StoreStep(j) /\ (checkpoint'[j].state # "none" => checkpoint'[j] = checkpoint[j])
  <2> DEFINE gone == [NoCheckpoint EXCEPT !.active = checkpoint[c].active]
  <2>1. gone \in CheckpointType /\ gone.state = "none" /\ \A f \in Files : gone.saved[f] = Original
    BY <1>1 DEF TypeOK, NoCheckpoint, CheckpointType, Original, Contents
  <2>2. checkpoint' = [checkpoint EXCEPT ![c] = gone] /\ Complete(c)
    BY DEF RemoveDirectory
  <2> HIDE DEF gone
  <2> QED BY <1>1, <2>1, <2>2 DEF TypeOK, StoreStep
<1> HIDE DEF p
<1> QED BY <1>2, <1>3, <1>4, PruningKeeps DEF RemoveDirectory

LEMMA RemoveFailsKeeps ==
    ASSUME IInv, NEW j \in Jobs, RemoveFails(j)
    PROVE  IInv' /\ Frame(j)
<1>1. Local(j) /\ job[j] \in JobType /\ pc(j) = "remove"
  BY Own DEF RemoveFails
<1> DEFINE outcome == IF kind(j) # "maintenance" /\ job[j].next = "finish" THEN "late" ELSE "refused"
<1>2. outcome = "refused" /\ kind(j) \in Mutations => Unwritten(j) /\ Unsaved(j)
  BY <1>1 DEF Local, NoTrace, Before, Refusing, JobType, Mutations, Single
<1>3. outcome \in Endings
  BY DEF Endings
<1>4. End(j, outcome) /\ file' = file /\ checkpoint' = checkpoint
  BY DEF RemoveFails
<1> HIDE DEF outcome
<1> QED BY <1>1, <1>2, <1>3, <1>4, EndKeeps

LEMMA FinishKeeps ==
    ASSUME IInv, NEW j \in Jobs, Finish(j)
    PROVE  IInv' /\ Frame(j)
<1>1. Local(j) /\ pc(j) \in {"finish", "refuse"}
  BY Own DEF Finish
<1>2. pc(j) = "refuse" /\ kind(j) \in Mutations => Unwritten(j) /\ Unsaved(j)
  BY <1>1 DEF Local, NoTrace, Refusing
<1> DEFINE outcome == IF pc(j) = "finish" THEN "done" ELSE "refused"
<1>3. outcome \in Endings /\ (outcome = "refused" => pc(j) = "refuse")
  BY <1>1 DEF Endings
<1>4. End(j, outcome) /\ file' = file /\ checkpoint' = checkpoint
  BY DEF Finish
<1> HIDE DEF outcome
<1> QED BY <1>1, <1>2, <1>3, <1>4, EndKeeps

-----------------------------------------------------------------------------
(* The steps that change what a job, a checkpoint or a file holds           *)

LEMMA StartKeeps ==
    ASSUME IInv, NEW j \in Jobs, Start(j)
    PROVE  IInv' /\ Frame(j)
<1>1. TypeOK /\ Local(j) /\ job[j] \in JobType /\ pc(j) = "idle"
  BY Own DEF Start
<1>2. PICK call \in CallsOf[j] :
        job' = [job EXCEPT ![j] = [Idle EXCEPT
            !.pc = IF call.kind = "maintenance" THEN "prune" ELSE "thread",
            !.kind = call.kind, !.targets = call.targets, !.expected = file]]
  BY DEF Start
<1>3. /\ call.kind \in Mutations \cup {"rollback", "maintenance"} /\ call.targets \in SUBSET Files
      /\ call.kind \in Single => \E f \in Files : call.targets = {f}
  BY WorkspaceAssumption
<1> DEFINE r == [Idle EXCEPT !.pc = IF call.kind = "maintenance" THEN "prune" ELSE "thread",
                             !.kind = call.kind, !.targets = call.targets, !.expected = file]
<1>4. /\ r \in JobType /\ r.pc = (IF call.kind = "maintenance" THEN "prune" ELSE "thread")
      /\ r.kind = call.kind /\ r.targets = call.targets /\ r.written = {} /\ r.next = "finish"
      /\ \A f \in Files : r.source[f] = Original
  BY <1>1, <1>3 DEF TypeOK, Idle, JobType, Places, Kinds, Contents, Original
<1>5. job' = [job EXCEPT ![j] = r]
  BY <1>2
<1> HIDE DEF r
<1>6. job' \in [Jobs -> JobType] /\ job'[j] = r /\ \A k \in Jobs \ {j} : job'[k] = job[k]
  BY <1>1, <1>4, <1>5, Moved
<1>7. file' = file /\ threads' = threads /\ flock' = flock /\ checkpoint' = checkpoint
  BY DEF Start, locks
<1>8. TypeOK' /\ Frame(j)
  BY <1>1, <1>4, <1>6, <1>7 DEF TypeOK, Frame
<1>9. kind(j) = "none" /\ Unwritten(j) /\ Unsaved(j)
  BY <1>1 DEF Local, Placed, NoTrace, Before
<1>10. Unwritten(j)' /\ Unsaved(j)'
  BY <1>4, <1>6, <1>7, <1>9, WorkspaceAssumption DEF Unwritten, Unsaved, Original
<1>11. kind(j)' = call.kind /\ pc(j)' = (IF call.kind = "maintenance" THEN "prune" ELSE "thread")
       /\ job'[j].next = "finish" /\ job'[j].written = {} /\ job'[j].targets = call.targets
  BY <1>4, <1>6 DEF kind, pc
<1>12. Placed(j)' /\ LockHeld(j)' /\ Fresh(j)'
  BY <1>3, <1>11 DEF Placed, LockHeld, Inside, Fresh, Mutations, Single
<1>13. Covered(j)' /\ Writing(j)' /\ NoTrace(j)'
  BY <1>1, <1>7, <1>10, <1>11 DEF Local, Covered, Writing, NoTrace, Before, Mutations, Single
<1> QED BY <1>8, <1>12, <1>13, StepKeeps DEF Local

LEMMA SaveBlobsKeeps ==
    ASSUME IInv, NEW j \in Jobs, SaveBlobs(j)
    PROVE  IInv' /\ Frame(j)
<1>1. TypeOK /\ Local(j) /\ job[j] \in JobType /\ pc(j) = "save" /\ flock = j
  BY Own DEF SaveBlobs, Local, LockHeld, Inside
<1> DEFINE r == [state |-> "partial", active |-> kind(j) = "patch", of |-> job[j].targets,
                 saved |-> [f \in Files |-> IF f \in job[j].targets THEN file[f] ELSE Original],
                 older |-> {}]
<1>2. checkpoint' = [checkpoint EXCEPT ![j] = r]
  BY DEF SaveBlobs
<1>3. Steps(j, "manifest", job[j].next)
  BY <1>1, Went DEF SaveBlobs, Places
<1>4. r.state = "partial" /\ r.of = job[j].targets
      /\ \A f \in Files : r.saved[f] = file[f] \/ r.saved[f] = Original
  OBVIOUS
<1>5. r \in CheckpointType
  <2>1. job[j].targets \in SUBSET Files /\ Original \in Contents /\ file \in [Files -> Contents]
    BY <1>1 DEF TypeOK, JobType, Original, Contents
  <2> QED BY <2>1 DEF CheckpointType
<1> HIDE DEF r
<1>6. file' = file /\ threads' = threads /\ flock' = flock
  BY DEF SaveBlobs, locks
<1>7. TypeOK'
  BY <1>1, <1>2, <1>3, <1>5, <1>6 DEF TypeOK, Steps
<1>8. checkpoint'[j] = r /\ \A c \in Jobs \ {j} : checkpoint'[c] = checkpoint[c]
  BY <1>1, <1>2 DEF TypeOK
<1>9. Frame(j)
  BY <1>1, <1>3, <1>4, <1>6, <1>8 DEF Frame, Steps
<1>10. Unwritten(j) /\ Unsaved(j) => Unwritten(j)' /\ Unsaved(j)'
  <2> SUFFICES ASSUME Unwritten(j), Unsaved(j) PROVE Unwritten(j)' /\ Unsaved(j)'
    OBVIOUS
  <2>1. ASSUME NEW c \in Jobs, NEW f \in Files
        PROVE  checkpoint'[c].saved[f].by # j /\ job'[c].source[f].by # j
    <3>1. job'[c].source[f].by # j
      BY <1>3 DEF Steps, Unsaved
    <3>2. checkpoint'[c].saved[f].by # j
      BY <1>4, <1>8, WorkspaceAssumption DEF Unwritten, Unsaved, Original
    <3> QED BY <3>1, <3>2
  <2> QED BY <1>6, <2>1 DEF Unwritten, Unsaved
<1>11. Placed(j)' /\ LockHeld(j)' /\ Fresh(j)'
  BY <1>1, <1>3, <1>6 DEF Local, Placed, LockHeld, Inside, Fresh, Steps, pc, kind, Endings
<1>12. Covered(j)'
  BY <1>3, <1>4, <1>8 DEF Covered, Steps, pc
<1>13. (kind(j) \in Mutations => Writing(j)') /\ NoTrace(j)' /\ kind(j)' = kind(j)
  BY <1>1, <1>3, <1>10 DEF Local, Writing, NoTrace, Before, Refusing, Steps, pc, kind, Placed
<1> QED BY <1>7, <1>9, <1>11, <1>12, <1>13, StepKeeps DEF Local

LEMMA LoadKeeps ==
    ASSUME IInv, NEW j \in Jobs, Load(j)
    PROVE  IInv' /\ Frame(j)
<1>1. TypeOK /\ Local(j) /\ job[j] \in JobType /\ pc(j) = "load" /\ flock = j
  BY Own DEF Load, Local, LockHeld, Inside
<1>2. CASE kind(j) = "rollback" /\ End(j, "refused")
  BY <1>1, <1>2, EndKeeps DEF Load, Endings, Mutations, Single
<1>3. CASE End(j, "torn")
  BY <1>1, <1>3, EndKeeps DEF Load, Endings
<1>4. ASSUME NEW c \in IF kind(j) = "patch" THEN {j} ELSE Jobs, Complete(c),
             job' = [job EXCEPT ![j].source = checkpoint[c].saved, ![j].targets = checkpoint[c].of,
                                ![j].written = {}, ![j].pc = "restore"],
             UNCHANGED locks
      PROVE  IInv' /\ Frame(j)
  <2>1. c \in Jobs /\ checkpoint[c] \in CheckpointType
    BY <1>1, <1>4 DEF TypeOK
  <2> DEFINE r == [job[j] EXCEPT !.source = checkpoint[c].saved, !.targets = checkpoint[c].of,
                                 !.written = {}, !.pc = "restore"]
  <2>2. /\ r \in JobType /\ r.pc = "restore" /\ r.kind = kind(j) /\ r.written = {} /\ r.next = job[j].next
        /\ r.source = checkpoint[c].saved /\ r.targets = checkpoint[c].of
    BY <1>1, <2>1 DEF JobType, CheckpointType, Places, kind
  <2>3. job' = [job EXCEPT ![j] = r]
    BY <1>4
  <2> HIDE DEF r
  <2>4. job' \in [Jobs -> JobType] /\ job'[j] = r /\ \A k \in Jobs \ {j} : job'[k] = job[k]
    BY <1>1, <2>2, <2>3, Moved
  <2>5. file' = file /\ threads' = threads /\ flock' = flock /\ checkpoint' = checkpoint
    BY <1>4 DEF Load, locks
  <2>6. TypeOK' /\ Frame(j)
    BY <1>1, <2>1, <2>2, <2>4, <2>5 DEF TypeOK, Frame
  <2>7. Placed(j)' /\ LockHeld(j)' /\ Fresh(j)' /\ Covered(j)' /\ NoTrace(j)' /\ kind(j)' = kind(j)
    BY <1>1, <2>2, <2>4, <2>5
       DEF Local, Placed, LockHeld, Inside, Fresh, Covered, NoTrace, Before, Refusing, pc, kind, Endings, Single
  <2>8. kind(j) \in Mutations => Writing(j)'
    <3> SUFFICES ASSUME kind(j) \in Mutations PROVE Writing(j)'
      OBVIOUS
    <3>1. kind(j) = "patch" /\ c = j
      BY <1>1, <1>4 DEF Local, Placed, Mutations, Endings
    <3>2. r.targets = job[j].targets
      BY <1>1, <1>4, <2>2, <3>1 DEF Local, Covered, Complete
    <3>3. Unsaved(j) /\ \A f \in Files : file[f].by = j => f \in job[j].targets
      BY <1>1 DEF Local, Writing
    <3>4. Unsaved(j)'
      BY <2>1, <2>2, <2>4, <2>5, <3>3 DEF Unsaved
    <3> QED BY <2>2, <2>4, <2>5, <3>2, <3>3, <3>4 DEF Writing, Before, pc
  <2> QED BY <2>6, <2>7, <2>8, StepKeeps DEF Local
<1> QED BY <1>2, <1>3, <1>4 DEF Load

\* A file is written, or written back, under the lock.
LEMMA WriteFile ==
    ASSUME IInv, NEW j \in Jobs, NEW f \in Files, pc(j) \in {"commit", "restore"},
           file' \in [Files -> Contents], \A g \in Files \ {f} : file'[g] = file[g],
           file'[f].by = j \/ file'[f] = job[j].source[f],
           job' = [job EXCEPT ![j].written = @ \cup {f}],
           threads' = threads, flock' = flock, checkpoint' = checkpoint
    PROVE  /\ TypeOK' /\ Frame(j) /\ Placed(j)' /\ LockHeld(j)' /\ Covered(j)' /\ NoTrace(j)'
           /\ job'[j].written = job[j].written \cup {f} /\ job'[j].targets = job[j].targets
           /\ job'[j].expected = job[j].expected /\ job'[j].pc = pc(j) /\ job'[j].kind = kind(j)
           /\ Unsaved(j) => Unsaved(j)'
<1>1. TypeOK /\ Local(j) /\ job[j] \in JobType /\ flock = j
  BY Own DEF Local, LockHeld, Inside
<1> DEFINE r == [job[j] EXCEPT !.written = @ \cup {f}]
<1>3. /\ r \in JobType /\ r.pc = pc(j) /\ r.kind = kind(j) /\ r.targets = job[j].targets
      /\ r.expected = job[j].expected /\ r.source = job[j].source /\ r.next = job[j].next
      /\ r.written = job[j].written \cup {f}
  BY <1>1 DEF JobType, pc, kind
<1>4. job' = [job EXCEPT ![j] = r]
  OBVIOUS
<1> HIDE DEF r
<1>5. job' \in [Jobs -> JobType] /\ job'[j] = r /\ \A k \in Jobs \ {j} : job'[k] = job[k]
  BY <1>1, <1>3, <1>4, Moved
<1>7. TypeOK' /\ Frame(j)
  BY <1>1, <1>3, <1>5 DEF TypeOK, Frame
<1>8. Placed(j)' /\ LockHeld(j)' /\ Covered(j)' /\ NoTrace(j)'
  BY <1>1, <1>3, <1>5
     DEF Local, Placed, LockHeld, Inside, Covered, NoTrace, Before, Refusing, pc, kind, Endings
<1>9. Unsaved(j) => Unsaved(j)'
  BY <1>3, <1>5 DEF Unsaved
<1> QED BY <1>3, <1>5, <1>7, <1>8, <1>9

LEMMA CommitKeeps ==
    ASSUME IInv, NEW j \in Jobs, NEW f \in Files, Commit(j, f)
    PROVE  IInv' /\ Frame(j)
<1>1. Local(j) /\ pc(j) = "commit" /\ f \in job[j].targets \ job[j].written
  BY Own DEF Commit
<1>2. PICK e \in BOOLEAN : file' = [file EXCEPT ![f] = [by |-> j, exists |-> e]]
  BY DEF Commit, Leaves
<1>3. [by |-> j, exists |-> e] \in Contents
  BY DEF Contents
<1>4. file' \in [Files -> Contents] /\ file'[f].by = j /\ \A g \in Files \ {f} : file'[g] = file[g]
  BY <1>2, <1>3, Own DEF TypeOK
<1>5. /\ TypeOK' /\ Frame(j) /\ Placed(j)' /\ LockHeld(j)' /\ Covered(j)' /\ NoTrace(j)'
      /\ job'[j].written = job[j].written \cup {f} /\ job'[j].targets = job[j].targets
      /\ job'[j].expected = job[j].expected /\ job'[j].pc = pc(j) /\ job'[j].kind = kind(j)
      /\ Unsaved(j) => Unsaved(j)'
  <2>1. /\ job' = [job EXCEPT ![j].written = @ \cup {f}]
        /\ threads' = threads /\ flock' = flock /\ checkpoint' = checkpoint
    BY DEF Commit, locks
  <2> QED BY <1>1, <1>4, <2>1, WriteFile
<1>6. Fresh(j)'
  <2>1. job[j].targets \subseteq Files
    BY Own DEF JobType
  <2> QED BY <1>1, <1>4, <1>5, <2>1 DEF Local, Fresh, pc
<1>7. kind(j) \in Mutations => Writing(j)'
  BY <1>1, <1>4, <1>5 DEF Local, Writing, Before, pc
<1> QED BY <1>5, <1>6, <1>7, StepKeeps DEF Local, kind

LEMMA RestoreFileKeeps ==
    ASSUME IInv, NEW j \in Jobs, NEW f \in Files, RestoreFile(j, f)
    PROVE  IInv' /\ Frame(j)
<1>1. Local(j) /\ pc(j) = "restore" /\ f \in job[j].targets \ job[j].written
  BY Own DEF RestoreFile
<1>2. /\ file' \in [Files -> Contents] /\ file'[f] = job[j].source[f]
      /\ \A g \in Files \ {f} : file'[g] = file[g]
  BY Own DEF TypeOK, JobType, RestoreFile
<1>3. /\ TypeOK' /\ Frame(j) /\ Placed(j)' /\ LockHeld(j)' /\ Covered(j)' /\ NoTrace(j)'
      /\ job'[j].written = job[j].written \cup {f} /\ job'[j].targets = job[j].targets
      /\ job'[j].pc = pc(j) /\ job'[j].kind = kind(j)
      /\ Unsaved(j) => Unsaved(j)'
  <2>1. /\ job' = [job EXCEPT ![j].written = @ \cup {f}]
        /\ threads' = threads /\ flock' = flock /\ checkpoint' = checkpoint
    BY DEF RestoreFile, locks
  <2> QED BY <1>1, <1>2, <2>1, WriteFile
<1>4. Fresh(j)'
  BY <1>1, <1>3 DEF Fresh, pc
<1>5. kind(j) \in Mutations => Writing(j)'
  <2> SUFFICES ASSUME kind(j) \in Mutations PROVE Writing(j)'
    OBVIOUS
  <2>1. Unsaved(j) /\ \A g \in Files : file[g].by = j => g \in job[j].targets \ job[j].written
    BY <1>1 DEF Local, Writing
  <2>2. file'[f].by # j
    BY <1>2, <2>1 DEF Unsaved
  <2> QED BY <1>1, <1>2, <1>3, <2>1, <2>2 DEF Writing, Before, pc
<1> QED BY <1>3, <1>4, <1>5, StepKeeps DEF Local, kind

-----------------------------------------------------------------------------
(* The world around                                                         *)

LEMMA EditKeeps ==
    ASSUME IInv, NEW f \in Files, Edit(f)
    PROVE  IInv'
<1>1. PICK e \in BOOLEAN : file' = [file EXCEPT ![f] = [by |-> "editor", exists |-> e]]
  BY DEF Edit
<1>2. threads' = threads /\ flock' = flock /\ job' = job /\ checkpoint' = checkpoint
  BY DEF Edit, locks
<1>3. [by |-> "editor", exists |-> e] \in Contents
  BY DEF Contents
<1>4. file' \in [Files -> Contents] /\ \A g \in Files : file'[g] = file[g] \/ file'[g].by = "editor"
  BY <1>1, <1>3 DEF IInv, TypeOK
<1>5. TypeOK'
  BY <1>2, <1>4 DEF IInv, TypeOK
<1>6. ASSUME NEW j \in Jobs PROVE Local(j)'
  <2>1. Local(j) /\ job[j] \in JobType /\ j # "editor"
    BY Own, WorkspaceAssumption
  <2>2. Placed(j)' /\ LockHeld(j)' /\ Covered(j)' /\ (Unsaved(j)' <=> Unsaved(j))
    BY <1>2, <2>1 DEF Local, Placed, LockHeld, Inside, Covered, Before, Unsaved, pc, kind
  <2>3. \A g \in Files : file'[g].by = j => file[g].by = j
    BY <1>4, <2>1
  <2>4. Fresh(j)'
    <3>1. job[j].targets \subseteq Files
      BY <2>1 DEF JobType
    <3> QED BY <1>2, <1>4, <2>1, <3>1 DEF Local, Fresh, pc
  <2>5. NoTrace(j)'
    BY <1>2, <2>1, <2>2, <2>3 DEF Local, NoTrace, Unwritten, Before, Refusing, pc, kind
  <2>6. kind(j) \in Mutations => Writing(j)'
    BY <1>2, <2>1, <2>2, <2>3 DEF Local, Writing, Before, pc
  <2> QED BY <1>2, <2>2, <2>4, <2>5, <2>6 DEF Local, kind
<1> QED BY <1>5, <1>6 DEF IInv

LEMMA CrashKeeps ==
    ASSUME IInv, NEW p \in Processes, Crash(p)
    PROVE  IInv'
<1> DEFINE Dies(j) == ProcessOf[j] = p /\ Running(j)
<1>1. TypeOK /\ file' = file /\ checkpoint' = checkpoint
  BY DEF Crash, IInv
<1>2. job' = [j \in Jobs |-> IF Dies(j) THEN [job[j] EXCEPT !.pc = "crashed"] ELSE job[j]]
  BY DEF Crash, Gone
<1>3. ASSUME NEW j \in Jobs
      PROVE  /\ job'[j] \in JobType /\ job'[j].source = job[j].source
             /\ \/ job'[j] = job[j] /\ ~Dies(j)
                \/ job'[j].pc = "crashed" /\ job'[j].kind = kind(j) /\ Dies(j)
  <2>1. job[j] \in JobType
    BY <1>1 DEF TypeOK
  <2>2. [job[j] EXCEPT !.pc = "crashed"] \in JobType
    BY <2>1 DEF JobType, Places, Endings
  <2> HIDE DEF Dies
  <2>3. CASE Dies(j)
    <3>1. job'[j] = [job[j] EXCEPT !.pc = "crashed"]
      BY <1>2, <2>3
    <3> QED BY <2>1, <2>2, <2>3, <3>1 DEF JobType, kind
  <2>4. CASE ~Dies(j)
    BY <1>2, <2>1, <2>4
  <2> QED BY <2>3, <2>4
<1> HIDE DEF Dies
<1>4. job' \in [Jobs -> JobType]
  BY <1>2, <1>3
<1>5. threads' \in [Processes -> Jobs \cup {None}] /\ flock' \in Jobs \cup {None}
  BY <1>1 DEF TypeOK, Crash
<1>6. TypeOK'
  BY <1>1, <1>4, <1>5 DEF TypeOK
<1>7. ASSUME NEW j \in Jobs PROVE Local(j)'
  <2>1. Local(j)
    BY DEF IInv
  <2>2. Unwritten(j)' <=> Unwritten(j)
    BY <1>1 DEF Unwritten
  <2>3. Unsaved(j)' <=> Unsaved(j)
    BY <1>1, <1>3 DEF Unsaved
  <2>4. CASE job'[j] = job[j] /\ ~Dies(j)
    <3>1. LockHeld(j)'
      <4> SUFFICES ASSUME Inside(j) PROVE flock' = j
        BY <2>4 DEF LockHeld, Inside, pc, kind
      <4>1. flock = j /\ Running(j)
        BY <2>1 DEF Local, LockHeld, Inside, Running, Ended, Endings
      <4>2. ProcessOf[j] # p
        BY <2>4, <4>1 DEF Dies
      <4> QED BY <4>1, <4>2 DEF Crash
    <3>2. Placed(j)' /\ Fresh(j)' /\ Covered(j)'
      BY <1>1, <2>1, <2>4 DEF Local, Placed, Fresh, Covered, Before, pc, kind
    <3>3. NoTrace(j)' /\ (kind(j) \in Mutations => Writing(j)')
      BY <1>1, <2>1, <2>2, <2>3, <2>4 DEF Local, NoTrace, Writing, Before, Refusing, pc, kind
    <3> QED BY <2>4, <3>1, <3>2, <3>3 DEF Local, kind
  <2>5. CASE job'[j].pc = "crashed" /\ job'[j].kind = kind(j) /\ Dies(j)
    <3>1. kind(j) # "none"
      BY <2>1, <2>5 DEF Dies, Running, Local, Placed
    <3>2. Placed(j)' /\ LockHeld(j)' /\ Fresh(j)' /\ Covered(j)' /\ NoTrace(j)' /\ Writing(j)'
      BY <2>5, <3>1 DEF Placed, LockHeld, Inside, Fresh, Covered, NoTrace, Writing, Before, Refusing, pc, kind, Endings
    <3> QED BY <3>2 DEF Local
  <2> QED BY <1>3, <2>4, <2>5
<1> QED BY <1>6, <1>7 DEF IInv

-----------------------------------------------------------------------------
(* The invariant and what follows from it                                   *)

LEMMA InitHolds == Init => IInv
<1> SUFFICES ASSUME Init PROVE IInv
  OBVIOUS
<1>1. Original \in Contents /\ Idle \in JobType /\ NoCheckpoint \in CheckpointType
  BY NoCheckpointType DEF Idle, JobType, Places, Kinds, Contents, Original
<1>2. TypeOK
  BY <1>1 DEF Init, TypeOK
<1>3. ASSUME NEW j \in Jobs PROVE Local(j)
  <2>1. /\ kind(j) = "none" /\ pc(j) = "idle" /\ job[j].next = "finish" /\ job[j].written = {}
        /\ checkpoint[j].state = "none"
    BY DEF Init, Idle, NoCheckpoint, pc, kind
  <2>2. Unwritten(j) /\ Unsaved(j)
    BY WorkspaceAssumption DEF Init, Idle, NoCheckpoint, Original, Unwritten, Unsaved
  <2> QED BY <2>1, <2>2
          DEF Local, Placed, LockHeld, Inside, Fresh, NoTrace, Writing, Covered, Before, Mutations, Single, Endings
<1> QED BY <1>2, <1>3 DEF IInv

LEMMA StutterKeeps ==
    ASSUME IInv, UNCHANGED vars
    PROVE  IInv'
<1>1. file' = file /\ threads' = threads /\ flock' = flock /\ job' = job /\ checkpoint' = checkpoint
  BY DEF vars, locks
<1>2. TypeOK'
  BY <1>1 DEF IInv, TypeOK
<1>3. ASSUME NEW j \in Jobs PROVE Local(j)'
  BY <1>1 DEF IInv, Local, Placed, LockHeld, Inside, Fresh, NoTrace, Writing, Covered, Before, Refusing,
              Unwritten, Unsaved, pc, kind
<1> QED BY <1>2, <1>3 DEF IInv

LEMMA NextKeeps == IInv /\ [Next]_vars => IInv'
<1> SUFFICES ASSUME IInv, [Next]_vars PROVE IInv'
  OBVIOUS
<1>1. ASSUME NEW j \in Jobs, Proceed(j) PROVE IInv'
  BY <1>1, TakeThreadKeeps, TakeFlockKeeps, PlanKeeps, SaveBlobsKeeps, WriteManifestKeeps, CheckPreimageKeeps,
     CommittedKeeps, ReleaseKeeps, LoadKeeps, RestoredKeeps, SelectDoomedKeeps, RemoveFailsKeeps, FinishKeeps,
     CommitKeeps, RestoreFileKeeps, RemoveDirectoryKeeps DEF Proceed
<1>2. CASE UNCHANGED vars
  BY <1>2, StutterKeeps
<1>3. CASE Next
  BY <1>1, <1>2, <1>3, StartKeeps, CancelKeeps, SaveFailsKeeps, CommitFailsKeeps, RestoreFailsKeeps,
     EditKeeps, CrashKeeps DEF Next, AllEnded
<1> QED BY <1>2, <1>3

\* The locks, the jobs and the checkpoints have the types that they are given.
THEOREM TypeCorrect == Spec => []TypeOK
<1>1. IInv => TypeOK
  BY DEF IInv
<1> QED BY <1>1, InitHolds, NextKeeps, PTL DEF Spec

\* Whatever fails, dies or is edited in between, a mutation that ends as refused has
\* left nothing of it in any file (RefusedLeavesNothing).
THEOREM RefusedIsClean == Spec => []RefusedLeavesNothing
<1>1. IInv => RefusedLeavesNothing
  BY DEF IInv, Local, NoTrace, Refusing, Unwritten, RefusedLeavesNothing
<1> QED BY <1>1, InitHolds, NextKeeps, PTL DEF Spec

\* The steps that change a file.
LEMMA WhoWrites ==
    ASSUME [Next]_vars
    PROVE  \/ file' = file
           \/ \E j \in Jobs, f \in Files : Commit(j, f) \/ RestoreFile(j, f)
           \/ \E f \in Files : Edit(f)
<1>1. CASE UNCHANGED vars
  BY <1>1 DEF vars
<1>2. CASE Next
  <2>1. ASSUME NEW j \in Jobs, Proceed(j)
        PROVE  file' = file \/ \E f \in Files : Commit(j, f) \/ RestoreFile(j, f)
    BY <2>1 DEF Proceed, TakeThread, TakeFlock, Plan, SaveBlobs, WriteManifest, CheckPreimage, Committed, Release,
                Load, Restored, SelectDoomed, RemoveFails, Finish, RemoveDirectory
  <2>2. ASSUME NEW j \in Jobs,
               Start(j) \/ Cancel(j) \/ SaveFails(j) \/ CommitFails(j) \/ RestoreFails(j)
        PROVE  file' = file
    BY <2>2 DEF Start, Cancel, SaveFails, CommitFails, RestoreFails
  <2>3. ASSUME NEW p \in Processes, Crash(p) PROVE file' = file
    BY <2>3 DEF Crash
  <2>4. AllEnded => file' = file
    BY DEF AllEnded, vars
  <2> QED BY <1>2, <2>1, <2>2, <2>3, <2>4 DEF Next
<1> QED BY <1>1, <1>2

\* A tool replaces what it has read, or what an editor wrote since, and never the work
\* of another tool (NoLostUpdate): from the check of the pre-image on, the lock file
\* keeps every other job away, in this process and in the others.
THEOREM UpdatesKept == Spec => NoLostUpdate
<1> DEFINE Kept(j, f) == file'[f] # file[f] /\ file'[f].by = j /\ pc(j) = "commit"
                            => file[f] = job[j].expected[f] \/ file[f].by = "editor"
<1>1. ASSUME IInv, [Next]_vars, NEW j \in Jobs, NEW f \in Files PROVE Kept(j, f)
  <2> SUFFICES ASSUME file'[f] # file[f], file'[f].by = j, pc(j) = "commit"
               PROVE  file[f] = job[j].expected[f] \/ file[f].by = "editor"
    OBVIOUS
  <2>1. TypeOK /\ Fresh(j) /\ flock = j /\ j # "editor"
    BY <1>1, Own, WorkspaceAssumption DEF Local, LockHeld, Inside
  <2>2. ASSUME NEW k \in Jobs, NEW g \in Files, Commit(k, g)
        PROVE  file[f] = job[j].expected[f] \/ file[f].by = "editor"
    <3>1. f = g /\ k = j
      BY <2>1, <2>2 DEF Commit, TypeOK
    <3> QED BY <2>1, <2>2, <3>1 DEF Commit, Fresh
  <2>3. ASSUME NEW k \in Jobs, NEW g \in Files, RestoreFile(k, g) PROVE FALSE
    <3>1. pc(k) = "restore" /\ Local(k)
      BY <1>1, <2>3, Own DEF RestoreFile
    <3>2. flock = k
      BY <3>1 DEF Local, LockHeld, Inside
    <3> QED BY <2>1, <3>1, <3>2
  <2>4. ASSUME NEW g \in Files, Edit(g) PROVE FALSE
    BY <2>1, <2>4 DEF Edit, TypeOK
  <2> QED BY <1>1, <2>2, <2>3, <2>4, WhoWrites
<1>2. IInv /\ [Next]_vars => \A j \in Jobs, f \in Files : Kept(j, f)
  BY <1>1
<1> QED BY <1>2, InitHolds, NextKeeps, PTL DEF Spec, NoLostUpdate

-----------------------------------------------------------------------------
(* Recovery.  While a mutation is at work, and for as long as a torn patch  *)
(* is left in the files, its checkpoint is there, whoever prunes: the       *)
(* newest record is spared, and one with the active marker is no record.    *)

\* The checkpoint of a job that goes on is the newest, and nobody is to remove it; nor
\* one that carries the marker.
Newest(j) == pc(j) \notin Endings => \A c \in Jobs : j \notin checkpoint[c].older
NotDoomed(j) == pc(j) \notin Endings \/ checkpoint[j].active => \A k \in Jobs : j \notin job[k].doomed

\* What it has to hold for.
SavedRight(j) ==
    \A f \in job[j].targets :
        checkpoint[j].saved[f] = job[j].expected[f] \/ checkpoint[j].saved[f].by = "editor"
Marked(j) == kind(j) = "patch" => checkpoint[j].active
Kept(j) == Complete(j) /\ Marked(j) /\ SavedRight(j)

\* Where a mutation may have to go back.
Ready(j) ==
    \/ pc(j) \in {"check", "commit", "load", "restore"}
    \/ pc(j) \in {"prune", "remove"} /\ job[j].next = "check"
Needed(j) == kind(j) \in Mutations /\ Ready(j) => Kept(j)

Saving(j) ==
    /\ kind(j) \notin Mutations => checkpoint[j].state = "none"
    /\ pc(j) = "save" => \A f \in Files : file[f] = job[j].expected[f] \/ file[f].by = "editor"
    /\ pc(j) = "manifest" => Marked(j) /\ SavedRight(j)

\* A patch that goes on after its release has written everything, or has left nothing;
\* and so it is for one that is torn or has died, unless it can be put back.
Wrote(j) ==
    /\ kind(j) = "patch"
    /\ pc(j) = "finish" \/ (pc(j) \in {"release", "prune", "remove"} /\ job[j].next = "finish")
    => job[j].written = job[j].targets
Left(j) ==
    kind(j) = "patch" /\ pc(j) \in {"torn", "crashed"} =>
        (Unwritten(j) /\ Unsaved(j)) \/ job[j].written = job[j].targets \/ Kept(j)

Safe(j) == Needed(j) /\ Saving(j) /\ Wrote(j) /\ Left(j)

RInv == IInv /\ \A j \in Jobs : Newest(j) /\ NotDoomed(j) /\ Safe(j)

-----------------------------------------------------------------------------
(* A step of a job, as the others see it                                    *)

Trace(j) ==
    /\ \A k \in Jobs \ {j} :
        \/ checkpoint'[k] = checkpoint[k]
        \/ /\ k \in job[j].doomed
           /\ checkpoint'[k].state = "none" /\ checkpoint'[k].active = checkpoint[k].active
    /\ \A x \in Jobs, c \in Jobs :
        x \in checkpoint'[c].older =>
            x \in checkpoint[c].older \/ (flock = j /\ x # j /\ Complete(x))
    /\ \A x \in Jobs :
        x \in job'[j].doomed =>
            \/ x \in job[j].doomed
            \/ ~checkpoint[x].active /\ \E d \in Jobs : x \in checkpoint[d].older

LEMMA Whole ==
    ASSUME RInv, NEW k \in Jobs
    PROVE  /\ IInv /\ TypeOK /\ Local(k) /\ job[k] \in JobType /\ checkpoint[k] \in CheckpointType
           /\ Newest(k) /\ NotDoomed(k) /\ Safe(k)
BY Own DEF RInv

\* Who has a complete checkpoint, and is at work, has the lock file.
LEMMA Locked ==
    ASSUME RInv, NEW k \in Jobs, Complete(k), pc(k) \notin Endings
    PROVE  flock = k
<1>1. Local(k) /\ Safe(k) /\ job[k] \in JobType
  BY Whole
<1>2. kind(k) \in Mutations /\ pc(k) \notin {"idle", "thread", "flock", "plan", "save", "manifest"}
  BY <1>1 DEF Local, Covered, Safe, Saving, Complete
<1>3. Inside(k)
  BY <1>1, <1>2 DEF Inside, JobType, Places, pc, Mutations, Single
<1> QED BY <1>1, <1>3 DEF Local, LockHeld

LEMMA OthersSafe ==
    ASSUME RInv, NEW j \in Jobs, Frame(j), Trace(j), NEW k \in Jobs \ {j}
    PROVE  (Newest(k) /\ NotDoomed(k) /\ Safe(k))'
<1>1. IInv /\ Local(k) /\ Newest(k) /\ NotDoomed(k) /\ Safe(k) /\ k \in Jobs /\ k # j
  BY Whole
<1>2. job'[k] = job[k] /\ pc(k)' = pc(k) /\ kind(k)' = kind(k)
  BY DEF Frame, pc, kind
<1>3. \/ checkpoint'[k] = checkpoint[k]
      \/ /\ k \in job[j].doomed
         /\ checkpoint'[k].state = "none" /\ checkpoint'[k].active = checkpoint[k].active
  BY DEF Trace
<1>4. Newest(k)'
  <2> SUFFICES ASSUME pc(k) \notin Endings, NEW c \in Jobs, k \in checkpoint'[c].older PROVE FALSE
    BY <1>2 DEF Newest
  <2>1. flock = j /\ Complete(k)
    BY <1>1 DEF Trace, Newest
  <2> QED BY <1>1, <2>1, Locked
<1>5. NotDoomed(k)'
  <2> SUFFICES ASSUME pc(k) \notin Endings \/ checkpoint[k].active, NEW i \in Jobs, k \in job'[i].doomed
               PROVE  FALSE
    BY <1>2, <1>3 DEF NotDoomed
  <2>1. k \notin job[i].doomed /\ i = j
    BY <1>1 DEF NotDoomed, Frame
  <2>2. ~checkpoint[k].active /\ \E d \in Jobs : k \in checkpoint[d].older
    BY <2>1 DEF Trace
  <2> QED BY <1>1, <2>2 DEF Newest
<1>6. pc(k) \notin Endings \/ checkpoint[k].active => checkpoint'[k] = checkpoint[k]
  BY <1>1, <1>3 DEF NotDoomed
<1>7. Needed(k)'
  <2> SUFFICES ASSUME kind(k) \in Mutations, Ready(k) PROVE Kept(k)'
    BY <1>2 DEF Needed, Ready
  <2>1. Kept(k) /\ pc(k) \notin Endings
    BY <1>1 DEF Safe, Needed, Ready, Endings
  <2> QED BY <1>2, <1>6, <2>1 DEF Kept, Complete, Marked, SavedRight
<1>8. Saving(k)'
  <2>1. kind(k) \notin Mutations => checkpoint'[k].state = "none"
    BY <1>1, <1>3 DEF Safe, Saving
  <2>2. pc(k) = "save" => \A f \in Files : file'[f] = file[f]
    BY <1>1 DEF Frame, Local, LockHeld, Inside
  <2>3. pc(k) = "manifest" => (Marked(k) /\ SavedRight(k))'
    BY <1>1, <1>2, <1>6 DEF Safe, Saving, Marked, SavedRight, Endings
  <2> QED BY <1>1, <1>2, <2>1, <2>2, <2>3 DEF Safe, Saving
<1>9. Wrote(k)'
  BY <1>1, <1>2 DEF Safe, Wrote
<1>10. Left(k)'
  <2> SUFFICES ASSUME kind(k) = "patch", pc(k) \in {"torn", "crashed"}
               PROVE  (Unwritten(k) /\ Unsaved(k))' \/ job[k].written = job[k].targets \/ Kept(k)'
    BY <1>2 DEF Left
  <2>1. CASE Unwritten(k) /\ Unsaved(k)
    BY <1>1, <2>1, StaysClean
  <2>2. CASE Kept(k)
    BY <1>2, <1>6, <2>2 DEF Kept, Complete, Marked, SavedRight
  <2> QED BY <1>1, <2>1, <2>2 DEF Safe, Left
<1> QED BY <1>4, <1>5, <1>7, <1>8, <1>9, <1>10 DEF Safe

LEMMA StepSafe ==
    ASSUME RInv, NEW j \in Jobs, IInv', Frame(j), Trace(j), pc(j) \notin Endings, Safe(j)'
    PROVE  RInv'
<1>1. Newest(j) /\ NotDoomed(j)
  BY Whole
<1>2. Newest(j)'
  BY <1>1 DEF Newest, Trace
<1>3. NotDoomed(j)'
  <2> SUFFICES ASSUME NEW i \in Jobs PROVE j \notin job'[i].doomed
    BY DEF NotDoomed
  <2>1. i # j => job'[i].doomed = job[i].doomed
    BY DEF Frame
  <2> QED BY <1>1, <2>1 DEF NotDoomed, Newest, Trace
<1>4. \A k \in Jobs : (Newest(k) /\ NotDoomed(k) /\ Safe(k))'
  BY <1>2, <1>3, OthersSafe
<1> QED BY <1>4 DEF RInv

-----------------------------------------------------------------------------
(* A job ends, or goes on with what it has                                  *)

LEMMA EndSafe ==
    ASSUME RInv, NEW j \in Jobs, NEW outcome \in Endings \ {"crashed"}, End(j, outcome), IInv' /\ Frame(j),
           pc(j) \notin Endings,
           checkpoint' = checkpoint \/ checkpoint' = [checkpoint EXCEPT ![j] = NoCheckpoint],
           outcome = "torn" /\ kind(j) = "patch" => Kept(j) /\ checkpoint' = checkpoint
    PROVE  RInv'
<1>1. TypeOK /\ Safe(j) /\ job[j] \in JobType
  BY Whole
<1> DEFINE r == Gone(j, outcome)
<1>2. r \in JobType /\ r.pc = outcome /\ r.kind = kind(j)
  BY <1>1, GoneType
<1>3. r.doomed \subseteq job[j].doomed /\ (outcome = "torn" => r = [job[j] EXCEPT !.pc = "torn"])
  <2>1. CASE outcome = "torn"
    BY <1>1, <2>1 DEF Gone, JobType
  <2>2. CASE outcome # "torn"
    BY <2>2 DEF Gone, Idle
  <2> QED BY <2>1, <2>2
<1>4. job' = [job EXCEPT ![j] = r]
  BY DEF End
<1> HIDE DEF r
<1>5. job'[j] = r
  BY <1>1, <1>2, <1>4, Moved
<1>6. /\ \A c \in Jobs \ {j} : checkpoint'[c] = checkpoint[c]
      /\ \A c \in Jobs : checkpoint'[c].older \subseteq checkpoint[c].older
      /\ checkpoint'[j].state # "none" => checkpoint[j].state # "none"
  BY <1>1 DEF TypeOK, NoCheckpoint
<1>7. Trace(j)
  BY <1>3, <1>5, <1>6 DEF Trace
<1>8. Needed(j)' /\ Saving(j)' /\ Wrote(j)'
  BY <1>1, <1>2, <1>5, <1>6 DEF Needed, Ready, Saving, Wrote, Safe, pc, kind, Endings
<1>9. Left(j)'
  <2> SUFFICES ASSUME kind(j) = "patch", outcome = "torn" PROVE Kept(j)'
    BY <1>2, <1>5 DEF Left, pc, kind
  <2>1. r.kind = job[j].kind /\ r.expected = job[j].expected /\ r.targets = job[j].targets
    BY <1>1, <1>3 DEF JobType
  <2> QED BY <1>5, <2>1 DEF Kept, Complete, Marked, SavedRight, kind
<1> QED BY <1>7, <1>8, <1>9, StepSafe DEF Safe

\* Nothing but the place changes, and where the job goes on from there.
GoesOn(j, p, n) ==
    Steps(j, p, n) /\ job'[j].expected = job[j].expected /\ job'[j].doomed = job[j].doomed

LEMMA WentOn ==
    ASSUME TypeOK, NEW j \in Jobs, NEW p \in Places
    PROVE  /\ Goto(j, p) => GoesOn(j, p, job[j].next)
           /\ \A n \in {"finish", "check", "refuse"} :
                job' = [job EXCEPT ![j].pc = p, ![j].next = n] => GoesOn(j, p, n)
<1>1. job[j] \in JobType
  BY DEF TypeOK
<1>2. ASSUME Goto(j, p)
      PROVE  GoesOn(j, p, job[j].next)
  <2>1. job'[j] = [job[j] EXCEPT !.pc = p]
    BY <1>2 DEF Goto, TypeOK
  <2>2. job'[j].expected = job[j].expected /\ job'[j].doomed = job[j].doomed
    BY <1>1, <2>1 DEF JobType
  <2> QED BY <1>2, <2>2, Went DEF GoesOn
<1>3. ASSUME NEW n \in {"finish", "check", "refuse"}, job' = [job EXCEPT ![j].pc = p, ![j].next = n]
      PROVE  GoesOn(j, p, n)
  <2>1. job'[j] = [job[j] EXCEPT !.pc = p, !.next = n]
    BY <1>3 DEF TypeOK
  <2>2. job'[j].expected = job[j].expected /\ job'[j].doomed = job[j].doomed
    BY <1>1, <2>1 DEF JobType
  <2> QED BY <1>3, <2>2, Went DEF GoesOn
<1> QED BY <1>2, <1>3

LEMMA WalkSafe ==
    ASSUME RInv, NEW j \in Jobs, NEW p \in Places \ (Endings \cup {"save", "manifest"}), NEW n,
           GoesOn(j, p, n), IInv' /\ Frame(j), pc(j) \notin Endings, checkpoint' = checkpoint,
           kind(j) \in Mutations /\ (p \in {"check", "commit", "load", "restore"}
                                     \/ (p \in {"prune", "remove"} /\ n = "check")) => Kept(j),
           kind(j) = "patch" /\ (p = "finish" \/ (p \in {"release", "prune", "remove"} /\ n = "finish"))
                => job[j].written = job[j].targets
    PROVE  RInv'
<1>1. Safe(j)
  BY Whole
<1>2. Trace(j)
  BY DEF Trace, GoesOn
<1>3. Kept(j) => Kept(j)'
  BY DEF Kept, Complete, Marked, SavedRight, GoesOn, Steps, kind
<1>4. Needed(j)' /\ Wrote(j)' /\ Left(j)'
  BY <1>3 DEF Needed, Ready, Wrote, Left, GoesOn, Steps, pc, kind, Endings
<1>5. Saving(j)'
  BY <1>1 DEF Safe, Saving, GoesOn, Steps, pc, kind
<1> QED BY <1>2, <1>4, <1>5, StepSafe DEF Safe

LEMMA TakeThreadSafe ==
    ASSUME RInv, NEW j \in Jobs, TakeThread(j)
    PROVE  RInv'
<1>1. IInv' /\ Frame(j) /\ TypeOK
  BY TakeThreadKeeps, Whole
<1>2. GoesOn(j, "flock", job[j].next) /\ pc(j) \notin Endings /\ checkpoint' = checkpoint
  BY <1>1, WentOn DEF TakeThread, Places, Endings
<1> QED BY <1>1, <1>2, WalkSafe DEF Places, Endings

LEMMA TakeFlockSafe ==
    ASSUME RInv, NEW j \in Jobs, TakeFlock(j)
    PROVE  RInv'
<1>1. IInv' /\ Frame(j) /\ TypeOK
  BY TakeFlockKeeps, Whole
<1>2. \E p \in {"load", "plan"} : GoesOn(j, p, job[j].next) /\ (p = "load" => kind(j) = "rollback")
  BY <1>1, WentOn DEF TakeFlock, Places
<1>3. pc(j) \notin Endings /\ checkpoint' = checkpoint
  BY DEF TakeFlock, Endings
<1> QED BY <1>1, <1>2, <1>3, WalkSafe DEF Places, Endings, Mutations, Single

LEMMA CheckPreimageSafe ==
    ASSUME RInv, NEW j \in Jobs, CheckPreimage(j)
    PROVE  RInv'
<1>1. IInv' /\ Frame(j) /\ TypeOK /\ Safe(j)
  BY CheckPreimageKeeps, Whole
<1>2. pc(j) = "check" /\ pc(j) \notin Endings /\ checkpoint' = checkpoint
  BY DEF CheckPreimage, Endings
<1>3. CASE Goto(j, "commit")
  <2>1. GoesOn(j, "commit", job[j].next)
    BY <1>1, <1>3, WentOn DEF Places
  <2>2. kind(j) \in Mutations => Kept(j)
    BY <1>1, <1>2 DEF Safe, Needed, Ready
  <2> QED BY <1>1, <1>2, <2>1, <2>2, WalkSafe DEF Places, Endings
<1>4. CASE job' = [job EXCEPT ![j].pc = "release", ![j].next = "refuse"]
  <2>1. GoesOn(j, "release", "refuse")
    BY <1>1, <1>4, WentOn DEF Places
  <2> QED BY <1>1, <1>2, <2>1, WalkSafe DEF Places, Endings
<1>5. CASE End(j, "refused")
  BY <1>1, <1>2, <1>5, EndSafe DEF Endings
<1> QED BY <1>3, <1>4, <1>5 DEF CheckPreimage

LEMMA CommitFailsSafe ==
    ASSUME RInv, NEW j \in Jobs, CommitFails(j)
    PROVE  RInv'
<1>1. IInv' /\ Frame(j) /\ TypeOK /\ Safe(j)
  BY CommitFailsKeeps, Whole
<1>2. pc(j) = "commit" /\ pc(j) \notin Endings /\ checkpoint' = checkpoint
  BY DEF CommitFails, Endings
<1>3. CASE Goto(j, "load")
  <2>1. GoesOn(j, "load", job[j].next)
    BY <1>1, <1>3, WentOn DEF Places
  <2>2. kind(j) \in Mutations => Kept(j)
    BY <1>1, <1>2 DEF Safe, Needed, Ready
  <2> QED BY <1>1, <1>2, <2>1, <2>2, WalkSafe DEF Places, Endings
<1>4. CASE End(j, "refused")
  BY <1>1, <1>2, <1>4, EndSafe DEF Endings
<1> QED BY <1>3, <1>4 DEF CommitFails

LEMMA CommittedSafe ==
    ASSUME RInv, NEW j \in Jobs, Committed(j)
    PROVE  RInv'
<1>1. IInv' /\ Frame(j) /\ TypeOK
  BY CommittedKeeps, Whole
<1>2. job[j].written = job[j].targets /\ pc(j) \notin Endings /\ checkpoint' = checkpoint
  BY DEF Committed, Endings
<1>3. CASE job' = [job EXCEPT ![j].pc = "release", ![j].next = "finish"]
  <2>1. GoesOn(j, "release", "finish")
    BY <1>1, <1>3, WentOn DEF Places
  <2> QED BY <1>1, <1>2, <2>1, WalkSafe DEF Places, Endings
<1>4. CASE End(j, "done")
  BY <1>1, <1>2, <1>4, EndSafe DEF Endings
<1> QED BY <1>3, <1>4 DEF Committed

LEMMA RestoredSafe ==
    ASSUME RInv, NEW j \in Jobs, Restored(j)
    PROVE  RInv'
<1>1. IInv' /\ Frame(j) /\ TypeOK
  BY RestoredKeeps, Whole
<1>2. pc(j) \notin Endings /\ checkpoint' = checkpoint
  BY DEF Restored, Endings
<1>3. CASE job' = [job EXCEPT ![j].pc = "release", ![j].next = "refuse"]
  <2>1. GoesOn(j, "release", "refuse")
    BY <1>1, <1>3, WentOn DEF Places
  <2> QED BY <1>1, <1>2, <2>1, WalkSafe DEF Places, Endings
<1>4. CASE End(j, "done")
  BY <1>1, <1>2, <1>4, EndSafe DEF Endings
<1> QED BY <1>3, <1>4 DEF Restored

LEMMA RestoreFailsSafe ==
    ASSUME RInv, NEW j \in Jobs, RestoreFails(j)
    PROVE  RInv'
<1>1. IInv' /\ Frame(j) /\ Safe(j)
  BY RestoreFailsKeeps, Whole
<1>2. kind(j) = "patch" => Kept(j)
  BY <1>1 DEF RestoreFails, Safe, Needed, Ready, Mutations
<1>3. End(j, "torn") /\ pc(j) \notin Endings /\ checkpoint' = checkpoint
  BY DEF RestoreFails, Endings
<1> QED BY <1>1, <1>2, <1>3, EndSafe DEF Endings

LEMMA CancelSafe ==
    ASSUME RInv, NEW j \in Jobs, Cancel(j)
    PROVE  RInv'
<1>1. IInv' /\ Frame(j)
  BY CancelKeeps, Whole
<1> QED BY <1>1, EndSafe DEF Cancel, Endings

LEMMA SaveFailsSafe ==
    ASSUME RInv, NEW j \in Jobs, SaveFails(j)
    PROVE  RInv'
<1>1. IInv' /\ Frame(j)
  BY SaveFailsKeeps, Whole
<1> QED BY <1>1, EndSafe DEF SaveFails, Endings

LEMMA FinishSafe ==
    ASSUME RInv, NEW j \in Jobs, Finish(j)
    PROVE  RInv'
<1>1. IInv' /\ Frame(j)
  BY FinishKeeps, Whole
<1>2. \E outcome \in {"done", "refused"} : End(j, outcome)
  BY DEF Finish
<1> QED BY <1>1, <1>2, EndSafe DEF Finish, Endings

LEMMA RemoveFailsSafe ==
    ASSUME RInv, NEW j \in Jobs, RemoveFails(j)
    PROVE  RInv'
<1>1. IInv' /\ Frame(j)
  BY RemoveFailsKeeps, Whole
<1>2. \E outcome \in {"late", "refused"} : End(j, outcome)
  BY DEF RemoveFails
<1> QED BY <1>1, <1>2, EndSafe DEF RemoveFails, Endings

-----------------------------------------------------------------------------
(* The steps that change what a job, a checkpoint or a file holds           *)

LEMMA StartSafe ==
    ASSUME RInv, NEW j \in Jobs, Start(j)
    PROVE  RInv'
<1>1. IInv' /\ Frame(j) /\ TypeOK /\ Local(j) /\ pc(j) = "idle" /\ checkpoint' = checkpoint
  BY StartKeeps, Whole DEF Start
<1>2. PICK call \in CallsOf[j] :
        job' = [job EXCEPT ![j] = [Idle EXCEPT
            !.pc = IF call.kind = "maintenance" THEN "prune" ELSE "thread",
            !.kind = call.kind, !.targets = call.targets, !.expected = file]]
  BY DEF Start
<1>3. /\ job'[j].pc = (IF call.kind = "maintenance" THEN "prune" ELSE "thread")
      /\ job'[j].kind = call.kind /\ job'[j].doomed = {} /\ job'[j].next = "finish"
  BY <1>1, <1>2 DEF TypeOK, Idle
<1>4. Trace(j)
  BY <1>1, <1>3 DEF Trace
<1>5. checkpoint[j].state = "none"
  BY <1>1 DEF Local, Covered
<1>6. Safe(j)'
  BY <1>1, <1>3, <1>5 DEF Safe, Needed, Ready, Saving, Wrote, Left, Mutations, Single, pc, kind
<1> QED BY <1>1, <1>4, <1>6, StepSafe DEF Endings

LEMMA PlanSafe ==
    ASSUME RInv, NEW j \in Jobs, Plan(j)
    PROVE  RInv'
<1>1. IInv' /\ Frame(j) /\ TypeOK /\ Safe(j) /\ job[j] \in JobType
  BY PlanKeeps, Whole
<1>2. pc(j) \notin Endings /\ checkpoint' = checkpoint /\ file' = file
  BY DEF Plan, Endings
<1>3. CASE End(j, "refused")
  BY <1>1, <1>2, <1>3, EndSafe DEF Endings
<1>4. CASE job' = [job EXCEPT ![j].expected = file, ![j].pc = "save"]
  <2>1. job'[j] = [job[j] EXCEPT !.expected = file, !.pc = "save"]
    BY <1>1, <1>4 DEF TypeOK
  <2>2. /\ job'[j].pc = "save" /\ job'[j].kind = kind(j)
        /\ job'[j].doomed = job[j].doomed /\ job'[j].expected = file
    BY <1>1, <2>1 DEF JobType, kind
  <2>3. Trace(j)
    BY <1>2, <2>2 DEF Trace
  <2>4. Safe(j)'
    BY <1>1, <1>2, <2>2 DEF Safe, Needed, Ready, Saving, Wrote, Left, pc, kind
  <2> QED BY <1>1, <1>2, <2>3, <2>4, StepSafe
<1> QED BY <1>3, <1>4 DEF Plan

LEMMA SaveBlobsSafe ==
    ASSUME RInv, NEW j \in Jobs, SaveBlobs(j)
    PROVE  RInv'
<1>1. IInv' /\ Frame(j) /\ TypeOK /\ Safe(j) /\ Local(j) /\ job[j] \in JobType /\ pc(j) = "save"
  BY SaveBlobsKeeps, Whole DEF SaveBlobs
<1> DEFINE r == [state |-> "partial", active |-> kind(j) = "patch", of |-> job[j].targets,
                 saved |-> [f \in Files |-> IF f \in job[j].targets THEN file[f] ELSE Original],
                 older |-> {}]
<1>2. checkpoint' = [checkpoint EXCEPT ![j] = r]
  BY DEF SaveBlobs
<1>3. GoesOn(j, "manifest", job[j].next)
  BY <1>1, WentOn DEF SaveBlobs, Places
<1>4. r.older = {} /\ (kind(j) = "patch" => r.active) /\ \A f \in job[j].targets \cap Files : r.saved[f] = file[f]
  OBVIOUS
<1> HIDE DEF r
<1>5. checkpoint'[j] = r /\ \A c \in Jobs \ {j} : checkpoint'[c] = checkpoint[c]
  BY <1>1, <1>2 DEF TypeOK
<1>6. Trace(j)
  BY <1>3, <1>4, <1>5 DEF Trace, GoesOn
<1>7. job[j].targets \subseteq Files /\ kind(j) \in Mutations
  BY <1>1 DEF JobType, Local, Placed, Kinds, Endings, kind
<1>8. (Marked(j) /\ SavedRight(j))'
  BY <1>1, <1>3, <1>4, <1>5, <1>7 DEF Marked, SavedRight, Safe, Saving, GoesOn, Steps, kind
<1>9. Safe(j)'
  BY <1>3, <1>7, <1>8 DEF Safe, Needed, Ready, Saving, Wrote, Left, GoesOn, Steps, pc, kind
<1> QED BY <1>1, <1>6, <1>9, StepSafe DEF Endings

LEMMA WriteManifestSafe ==
    ASSUME RInv, NEW j \in Jobs, WriteManifest(j)
    PROVE  RInv'
<1>1. /\ IInv' /\ Frame(j) /\ TypeOK /\ Safe(j) /\ Local(j) /\ job[j] \in JobType
      /\ checkpoint[j] \in CheckpointType /\ pc(j) = "manifest"
  BY WriteManifestKeeps, Whole DEF WriteManifest
<1>2. flock = j /\ ~Complete(j) /\ kind(j) \in Mutations
  BY <1>1 DEF Local, LockHeld, Inside, Covered, Complete, Placed, JobType, Kinds, Endings, kind
<1>3. GoesOn(j, "prune", "check")
  BY <1>1, WentOn DEF WriteManifest, Places
<1> DEFINE O == {c \in Jobs : Complete(c)}
<1>4. checkpoint' = [checkpoint EXCEPT ![j].state = "complete", ![j].older = O]
  BY DEF WriteManifest
<1>5. \A x \in O : x # j /\ Complete(x)
  BY <1>2
<1> HIDE DEF O
<1>6. \A c \in Jobs \ {j} : checkpoint'[c] = checkpoint[c]
  BY <1>1, <1>4 DEF TypeOK
<1>7. /\ checkpoint'[j].state = "complete" /\ checkpoint'[j].older = O
      /\ checkpoint'[j].active = checkpoint[j].active /\ checkpoint'[j].saved = checkpoint[j].saved
  BY <1>1, <1>4 DEF TypeOK, CheckpointType
<1>8. Trace(j)
  BY <1>2, <1>3, <1>5, <1>6, <1>7 DEF Trace, GoesOn
<1>9. Kept(j)'
  BY <1>1, <1>3, <1>7 DEF Safe, Saving, Kept, Complete, Marked, SavedRight, GoesOn, Steps, kind
<1>10. Safe(j)'
  BY <1>2, <1>3, <1>9 DEF Safe, Needed, Saving, Wrote, Left, GoesOn, Steps, pc, kind
<1> QED BY <1>1, <1>8, <1>10, StepSafe DEF Endings

LEMMA ReleaseSafe ==
    ASSUME RInv, NEW j \in Jobs, Release(j)
    PROVE  RInv'
<1>1. /\ IInv' /\ Frame(j) /\ TypeOK /\ Safe(j) /\ Local(j) /\ job[j] \in JobType
      /\ checkpoint[j] \in CheckpointType /\ pc(j) = "release"
  BY ReleaseKeeps, Whole DEF Release
<1>2. GoesOn(j, "prune", job[j].next) /\ job[j].next # "check"
  BY <1>1, WentOn DEF Release, Places, Local, Placed
<1>3. checkpoint' = [checkpoint EXCEPT ![j].active = FALSE]
  BY DEF Release
<1>4. \A c \in Jobs \ {j} : checkpoint'[c] = checkpoint[c]
  BY <1>1, <1>3 DEF TypeOK
<1>5. checkpoint'[j].state = checkpoint[j].state /\ checkpoint'[j].older = checkpoint[j].older
  BY <1>1, <1>3 DEF TypeOK, CheckpointType
<1>6. Trace(j)
  BY <1>2, <1>4, <1>5 DEF Trace, GoesOn
<1>7. Safe(j)'
  BY <1>1, <1>2, <1>5 DEF Safe, Needed, Ready, Saving, Wrote, Left, GoesOn, Steps, pc, kind
<1> QED BY <1>1, <1>6, <1>7, StepSafe DEF Endings

LEMMA LoadSafe ==
    ASSUME RInv, NEW j \in Jobs, Load(j)
    PROVE  RInv'
<1>1. IInv' /\ Frame(j) /\ TypeOK /\ Safe(j) /\ Local(j) /\ job[j] \in JobType /\ pc(j) = "load"
  BY LoadKeeps, Whole DEF Load
<1>2. pc(j) \notin Endings /\ checkpoint' = checkpoint
  BY <1>1 DEF Load, Endings
<1>3. kind(j) = "patch" => Kept(j)
  BY <1>1 DEF Safe, Needed, Ready, Mutations
<1>4. CASE \E outcome \in {"refused", "torn"} : End(j, outcome)
  BY <1>1, <1>2, <1>3, <1>4, EndSafe DEF Endings
<1>5. ASSUME NEW c \in IF kind(j) = "patch" THEN {j} ELSE Jobs,
             job' = [job EXCEPT ![j].source = checkpoint[c].saved, ![j].targets = checkpoint[c].of,
                                ![j].written = {}, ![j].pc = "restore"]
      PROVE  RInv'
  <2>1. job'[j] = [job[j] EXCEPT !.source = checkpoint[c].saved, !.targets = checkpoint[c].of,
                                 !.written = {}, !.pc = "restore"]
    BY <1>1, <1>5 DEF TypeOK
  <2>2. /\ job'[j].pc = "restore" /\ job'[j].kind = kind(j) /\ job'[j].targets = checkpoint[c].of
        /\ job'[j].expected = job[j].expected /\ job'[j].doomed = job[j].doomed
    BY <1>1, <2>1 DEF JobType, kind
  <2>3. Trace(j)
    BY <1>2, <2>2 DEF Trace
  <2>4. kind(j) \in Mutations => Kept(j)'
    <3> SUFFICES ASSUME kind(j) \in Mutations PROVE Kept(j)'
      OBVIOUS
    <3>1. kind(j) = "patch" /\ c = j /\ Kept(j)
      BY <1>1, <1>3, <1>5 DEF Local, Placed, Mutations, Endings
    <3>2. checkpoint[c].of = job[j].targets
      BY <1>1, <3>1 DEF Local, Covered, Kept, Complete
    <3> QED BY <1>2, <2>2, <3>1, <3>2 DEF Kept, Complete, Marked, SavedRight, kind
  <2>5. Safe(j)'
    BY <1>1, <1>2, <2>2, <2>4 DEF Safe, Needed, Saving, Wrote, Left, pc, kind
  <2> QED BY <1>1, <1>2, <2>3, <2>5, StepSafe
<1> QED BY <1>4, <1>5 DEF Load

LEMMA PruningSafe ==
    ASSUME RInv, NEW j \in Jobs, pc(j) \in {"prune", "remove"}, NEW p \in {"remove", job[j].next},
           Steps(j, p, job[j].next), job'[j].expected = job[j].expected, IInv' /\ Frame(j), Trace(j),
           checkpoint'[j] = checkpoint[j]
    PROVE  RInv'
<1>1. Safe(j) /\ job[j] \in JobType
  BY Whole
<1>2. job[j].next \in {"finish", "check", "refuse"}
  BY <1>1 DEF JobType
<1>3. Needed(j)'
  <2> SUFFICES ASSUME kind(j) \in Mutations, Ready(j)' PROVE Kept(j)'
    BY DEF Needed, Steps, kind
  <2>1. Kept(j)
    BY <1>1, <1>2 DEF Safe, Needed, Ready, Steps, pc
  <2> QED BY <2>1 DEF Kept, Complete, Marked, SavedRight, Steps, kind
<1>4. Saving(j)' /\ Left(j)'
  BY <1>1, <1>2 DEF Safe, Saving, Left, Steps, pc, kind
<1>5. Wrote(j)'
  BY <1>1, <1>2 DEF Safe, Wrote, Steps, pc, kind
<1> QED BY <1>3, <1>4, <1>5, StepSafe DEF Safe, Endings

LEMMA SelectDoomedSafe ==
    ASSUME RInv, NEW j \in Jobs, SelectDoomed(j)
    PROVE  RInv'
<1>1. /\ IInv' /\ Frame(j) /\ TypeOK /\ job[j] \in JobType /\ pc(j) = "prune"
      /\ checkpoint' = checkpoint
  BY SelectDoomedKeeps, Whole DEF SelectDoomed
<1>2. PICK D \in SUBSET Records :
        /\ \A c \in D, d \in Records \ D : c \in checkpoint[d].older
        /\ Spares(D)
        /\ job' = [job EXCEPT ![j].doomed = D, ![j].pc = IF D = {} THEN job[j].next ELSE "remove"]
  BY DEF SelectDoomed
<1>3. \A x \in D : ~checkpoint[x].active /\ \E d \in Jobs : x \in checkpoint[d].older
  BY <1>2 DEF Spares, Records
<1> DEFINE p == IF D = {} THEN job[j].next ELSE "remove"
<1>4. p \in {"remove", job[j].next} /\ p \in Places
  BY <1>1 DEF JobType, Places
<1>5. job'[j] = [job[j] EXCEPT !.doomed = D, !.pc = p]
  BY <1>1, <1>2 DEF TypeOK
<1> HIDE DEF p
<1>6. /\ job'[j].pc = p /\ job'[j].next = job[j].next /\ job'[j].kind = job[j].kind
      /\ job'[j].targets = job[j].targets /\ job'[j].written = job[j].written
      /\ job'[j].source = job[j].source /\ job'[j].expected = job[j].expected /\ job'[j].doomed = D
  BY <1>1, <1>5 DEF JobType
<1>7. Steps(j, p, job[j].next)
  BY <1>1, <1>6 DEF Steps, Frame, IInv, TypeOK
<1>8. Trace(j)
  BY <1>1, <1>3, <1>6 DEF Trace
<1> QED BY <1>1, <1>4, <1>6, <1>7, <1>8, PruningSafe

LEMMA RemoveDirectorySafe ==
    ASSUME RInv, NEW j \in Jobs, NEW c \in Jobs, RemoveDirectory(j, c)
    PROVE  RInv'
<1>1. IInv' /\ Frame(j) /\ TypeOK /\ job[j] \in JobType /\ NotDoomed(j) /\ pc(j) = "remove"
  BY RemoveDirectoryKeeps, Whole DEF RemoveDirectory
<1>2. c \in job[j].doomed /\ c # j
  BY <1>1 DEF RemoveDirectory, NotDoomed, Endings
<1> DEFINE p == IF job[j].doomed = {c} THEN job[j].next ELSE "remove"
<1>3. p \in {"remove", job[j].next} /\ p \in Places
  BY <1>1 DEF JobType, Places
<1>4. job'[j] = [job[j] EXCEPT !.doomed = @ \ {c}, !.pc = p]
  BY <1>1 DEF RemoveDirectory, TypeOK
<1> HIDE DEF p
<1>5. /\ job'[j].pc = p /\ job'[j].next = job[j].next /\ job'[j].kind = job[j].kind
      /\ job'[j].targets = job[j].targets /\ job'[j].written = job[j].written
      /\ job'[j].source = job[j].source /\ job'[j].expected = job[j].expected
      /\ job'[j].doomed = job[j].doomed \ {c}
  BY <1>1, <1>4 DEF JobType
<1>6. Steps(j, p, job[j].next)
  BY <1>1, <1>5 DEF Steps, Frame, IInv, TypeOK
<1> DEFINE gone == [NoCheckpoint EXCEPT !.active = checkpoint[c].active]
<1>7. gone.state = "none" /\ gone.active = checkpoint[c].active /\ gone.older = {}
  BY DEF NoCheckpoint
<1>8. checkpoint' = [checkpoint EXCEPT ![c] = gone]
  BY DEF RemoveDirectory
<1> HIDE DEF gone
<1>9. checkpoint'[c] = gone /\ \A d \in Jobs \ {c} : checkpoint'[d] = checkpoint[d]
  BY <1>1, <1>8 DEF TypeOK
<1>10. Trace(j)
  BY <1>2, <1>5, <1>7, <1>9 DEF Trace
<1> QED BY <1>1, <1>2, <1>3, <1>5, <1>6, <1>9, <1>10, PruningSafe

\* Writing, and writing back.
LEMMA WriteSafe ==
    ASSUME RInv, NEW j \in Jobs, NEW f \in Files, Commit(j, f) \/ RestoreFile(j, f), IInv' /\ Frame(j)
    PROVE  RInv'
<1>1. TypeOK /\ Safe(j) /\ job[j] \in JobType /\ pc(j) \in {"commit", "restore"} /\ checkpoint' = checkpoint
  BY Whole DEF Commit, RestoreFile
<1>2. job'[j] = [job[j] EXCEPT !.written = @ \cup {f}]
  BY <1>1 DEF Commit, RestoreFile, TypeOK
<1>3. /\ job'[j].pc = pc(j) /\ job'[j].kind = kind(j) /\ job'[j].targets = job[j].targets
      /\ job'[j].expected = job[j].expected /\ job'[j].doomed = job[j].doomed
  BY <1>1, <1>2 DEF JobType, pc, kind
<1>4. Trace(j)
  BY <1>1, <1>3 DEF Trace
<1>5. Kept(j) => Kept(j)'
  BY <1>1, <1>3 DEF Kept, Complete, Marked, SavedRight, kind
<1>6. Safe(j)'
  BY <1>1, <1>3, <1>5 DEF Safe, Needed, Ready, Saving, Wrote, Left, pc, kind
<1> QED BY <1>1, <1>4, <1>6, StepSafe DEF Endings

-----------------------------------------------------------------------------
(* The world around                                                         *)

LEMMA EditSafe ==
    ASSUME RInv, NEW f \in Files, Edit(f)
    PROVE  RInv'
<1>1. IInv' /\ TypeOK /\ job' = job /\ checkpoint' = checkpoint
  BY EditKeeps DEF RInv, IInv, Edit
<1>2. \A g \in Files : file'[g] = file[g] \/ file'[g].by = "editor"
  BY <1>1 DEF Edit, TypeOK
<1>3. ASSUME NEW j \in Jobs PROVE (Newest(j) /\ NotDoomed(j) /\ Safe(j))'
  <2>1. Newest(j) /\ NotDoomed(j) /\ Safe(j) /\ j # "editor"
    BY Whole, WorkspaceAssumption
  <2>2. Newest(j)' /\ NotDoomed(j)' /\ Wrote(j)' /\ (Kept(j) => Kept(j)')
    BY <1>1, <2>1
       DEF Newest, NotDoomed, Safe, Wrote, Kept, Complete, Marked, SavedRight, pc, kind
  <2>3. Needed(j)'
    BY <1>1, <2>1, <2>2 DEF Safe, Needed, Ready, pc, kind
  <2>4. Saving(j)'
    BY <1>1, <1>2, <2>1 DEF Safe, Saving, Marked, SavedRight, pc, kind
  <2>5. Unwritten(j) /\ Unsaved(j) => Unwritten(j)' /\ Unsaved(j)'
    BY <1>1, <1>2, <2>1 DEF Unwritten, Unsaved
  <2>6. Left(j)'
    BY <1>1, <2>1, <2>2, <2>5 DEF Safe, Left, pc, kind
  <2> QED BY <2>2, <2>3, <2>4, <2>6 DEF Safe
<1> QED BY <1>1, <1>3 DEF RInv

\* Wherever a patch dies, it has left nothing, or everything, or can be put back.
LEMMA Dying ==
    ASSUME RInv, NEW j \in Jobs, kind(j) = "patch", Running(j)
    PROVE  (Unwritten(j) /\ Unsaved(j)) \/ job[j].written = job[j].targets \/ Kept(j)
<1>1. /\ Local(j) /\ Safe(j) /\ kind(j) \in Mutations
      /\ pc(j) \in Places \ Endings /\ pc(j) # "idle"
      /\ job[j].next \in {"finish", "check", "refuse"}
      /\ pc(j) = "release" => job[j].next # "check"
  BY Whole DEF JobType, Running, Ended, Mutations, pc, Local, Placed
<1>2. CASE Before(j) \/ Refusing(j)
  BY <1>1, <1>2 DEF Local, NoTrace
<1>3. CASE Ready(j)
  BY <1>1, <1>3 DEF Safe, Needed
<1>4. CASE pc(j) = "finish" \/ (pc(j) \in {"release", "prune", "remove"} /\ job[j].next = "finish")
  BY <1>1, <1>4 DEF Safe, Wrote
<1>5. \/ Before(j) \/ Refusing(j) \/ Ready(j)
      \/ pc(j) = "finish" \/ (pc(j) \in {"release", "prune", "remove"} /\ job[j].next = "finish")
  BY <1>1 DEF Before, Refusing, Ready, Places
<1> QED BY <1>2, <1>3, <1>4, <1>5

LEMMA CrashSafe ==
    ASSUME RInv, NEW p \in Processes, Crash(p)
    PROVE  RInv'
<1> DEFINE Dies(j) == ProcessOf[j] = p /\ Running(j)
<1>1. IInv' /\ TypeOK /\ file' = file /\ checkpoint' = checkpoint
  BY CrashKeeps DEF RInv, IInv, Crash
<1>2. job' = [j \in Jobs |-> IF Dies(j) THEN [job[j] EXCEPT !.pc = "crashed"] ELSE job[j]]
  BY DEF Crash, Gone
<1>3. ASSUME NEW j \in Jobs
      PROVE  /\ job'[j].doomed = job[j].doomed /\ job'[j].source = job[j].source
             /\ job'[j].targets = job[j].targets /\ job'[j].written = job[j].written
             /\ job'[j].expected = job[j].expected /\ job'[j].kind = kind(j)
             /\ \/ job'[j] = job[j]
                \/ job'[j].pc = "crashed" /\ Running(j)
  <2>1. job[j] \in JobType
    BY <1>1 DEF TypeOK
  <2> HIDE DEF Dies
  <2>2. CASE Dies(j)
    <3>1. job'[j] = [job[j] EXCEPT !.pc = "crashed"]
      BY <1>2, <2>2
    <3>2. Running(j)
      BY <2>2 DEF Dies
    <3> QED BY <2>1, <3>1, <3>2 DEF JobType, kind
  <2>3. CASE ~Dies(j)
    BY <1>2, <2>1, <2>3 DEF kind
  <2> QED BY <2>2, <2>3
<1> HIDE DEF Dies
<1>4. ASSUME NEW j \in Jobs PROVE (Newest(j) /\ NotDoomed(j) /\ Safe(j))'
  <2>1. Newest(j) /\ NotDoomed(j) /\ Safe(j)
    BY Whole
  <2>2. (Unwritten(j) <=> Unwritten(j)') /\ (Unsaved(j) <=> Unsaved(j)')
    BY <1>1, <1>3 DEF Unwritten, Unsaved
  <2>3. Kept(j) => Kept(j)'
    BY <1>1, <1>3 DEF Kept, Complete, Marked, SavedRight, kind
  <2>4. CASE job'[j] = job[j]
    <3>1. Newest(j)' /\ NotDoomed(j)' /\ Wrote(j)' /\ Saving(j)'
      BY <1>1, <1>3, <2>1, <2>4 DEF Newest, NotDoomed, Safe, Wrote, Saving, Marked, SavedRight, pc, kind
    <3>2. Needed(j)' /\ Left(j)'
      BY <2>1, <2>2, <2>3, <2>4 DEF Safe, Needed, Ready, Left, pc, kind
    <3> QED BY <3>1, <3>2 DEF Safe
  <2>5. CASE job'[j].pc = "crashed" /\ Running(j)
    <3>1. pc(j) \notin Endings
      BY <2>5 DEF Running, Ended
    <3>2. Newest(j)' /\ NotDoomed(j)' /\ Wrote(j)' /\ Saving(j)' /\ Needed(j)'
      BY <1>1, <1>3, <2>1, <2>5, <3>1
         DEF Newest, NotDoomed, Safe, Wrote, Saving, Needed, Ready, pc, kind, Endings
    <3>3. Left(j)'
      BY <1>3, <2>2, <2>3, <2>5, Dying DEF Left, kind
    <3> QED BY <3>2, <3>3 DEF Safe
  <2> QED BY <1>3, <2>4, <2>5
<1> QED BY <1>1, <1>4 DEF RInv

-----------------------------------------------------------------------------
(* The invariant and what follows from it                                   *)

LEMMA InitSafe == Init => RInv
<1> SUFFICES ASSUME Init PROVE RInv
  OBVIOUS
<1>1. IInv
  BY InitHolds
<1>2. ASSUME NEW j \in Jobs PROVE Newest(j) /\ NotDoomed(j) /\ Safe(j)
  <2>1. /\ kind(j) = "none" /\ pc(j) = "idle" /\ checkpoint[j].state = "none"
        /\ \A c \in Jobs : checkpoint[c].older = {} /\ job[c].doomed = {}
    BY DEF Init, Idle, NoCheckpoint, pc, kind
  <2> QED BY <2>1 DEF Newest, NotDoomed, Safe, Needed, Saving, Wrote, Left, Mutations, Single
<1> QED BY <1>1, <1>2 DEF RInv

LEMMA StutterSafe ==
    ASSUME RInv, UNCHANGED vars
    PROVE  RInv'
<1>1. IInv'
  BY StutterKeeps DEF RInv
<1>2. file' = file /\ job' = job /\ checkpoint' = checkpoint
  BY DEF vars
<1>3. ASSUME NEW j \in Jobs PROVE (Newest(j) /\ NotDoomed(j) /\ Safe(j))'
  BY <1>2, Whole
     DEF Newest, NotDoomed, Safe, Needed, Ready, Saving, Wrote, Left, Kept, Complete, Marked, SavedRight,
         Unwritten, Unsaved, pc, kind
<1> QED BY <1>1, <1>3 DEF RInv

LEMMA NextSafe == RInv /\ [Next]_vars => RInv'
<1> SUFFICES ASSUME RInv, [Next]_vars PROVE RInv'
  OBVIOUS
<1>1. IInv
  BY DEF RInv
<1>2. ASSUME NEW j \in Jobs, NEW f \in Files, Commit(j, f) \/ RestoreFile(j, f) PROVE RInv'
  BY <1>1, <1>2, CommitKeeps, RestoreFileKeeps, WriteSafe
<1>3. ASSUME NEW j \in Jobs, Proceed(j) PROVE RInv'
  BY <1>2, <1>3, TakeThreadSafe, TakeFlockSafe, PlanSafe, SaveBlobsSafe, WriteManifestSafe, CheckPreimageSafe,
     CommittedSafe, ReleaseSafe, LoadSafe, RestoredSafe, SelectDoomedSafe, RemoveFailsSafe, FinishSafe,
     RemoveDirectorySafe DEF Proceed
<1>4. CASE UNCHANGED vars
  BY <1>4, StutterSafe
<1>5. CASE Next
  BY <1>3, <1>4, <1>5, StartSafe, CancelSafe, SaveFailsSafe, CommitFailsSafe, RestoreFailsSafe,
     EditSafe, CrashSafe DEF Next, AllEnded
<1> QED BY <1>4, <1>5

\* Whatever a job has written can be put back, while it works, and after it was torn
\* or its process died, however many other processes prune meanwhile (Recoverable).
THEOREM PreimagesStay == Spec => []Recoverable
<1>1. ASSUME RInv, NEW j \in Jobs,
             \/ pc(j) = "commit"
             \/ /\ pc(j) \in {"load", "restore", "torn", "crashed"} /\ kind(j) = "patch"
                /\ job[j].written # job[j].targets /\ \E f \in Files : file[f].by = j
      PROVE  Kept(j)
  <2>1. Local(j) /\ Safe(j) /\ job[j] \in JobType
    BY <1>1, Whole
  <2>2. CASE pc(j) \in {"commit", "load", "restore"}
    <3>1. kind(j) \in Mutations
      BY <1>1, <2>1, <2>2 DEF Local, Placed, JobType, Kinds, Endings, kind, Mutations
    <3> QED BY <2>1, <2>2, <3>1 DEF Safe, Needed, Ready
  <2>3. CASE pc(j) \in {"torn", "crashed"}
    BY <1>1, <2>1, <2>3 DEF Safe, Left, Unwritten
  <2> QED BY <1>1, <2>2, <2>3
<1>2. RInv => Recoverable
  BY <1>1 DEF Recoverable, Kept, SavedRight
<1> QED BY <1>2, InitSafe, NextSafe, PTL DEF Spec
=============================================================================
