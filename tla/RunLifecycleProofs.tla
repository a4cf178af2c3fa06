------------------------- MODULE RunLifecycleProofs -------------------------
(***************************************************************************)
(* What RunLifecycle promises, whatever the limits, the batches and the      *)
(* order of the stops: the result that was published is the one the caller  *)
(* gets, a run that ends its turn reports on the workspace as it is, and    *)
(* every prompt is kept in its order.                                       *)
(***************************************************************************)
EXTENDS RunLifecycle, SequenceTheorems, TLAPS

Alive == Executing \cup {"close", "exit", "output", "last", "idle", "complete"}
Unstarted == {"none", "new", "load", "never"}

\* A change that nothing but a verification clears: a file is known to have changed, or
\* more is uncertain than the end of a process.
Tainted(c) == (c.files /\ c.roots) \/ (~c.complete /\ ~c.lifecycleOnly)

\* What holds of the locals of the worker at each point, and of fresh.
Locals(w, f) ==
    /\ w.verified <= w.revision
    /\ w.mutated \/ w.nested => w.pc = "batch"
    /\ w.hand # <<>> => w.pc \in {"drain", "last"}
    /\ w.pc = "drain" => w.after \in {"incomplete", "answer", "batch"}
    /\ w.pc = "drain" /\ w.after = "answer" => w.job = "none"
    /\ w.pc = "verify" => Uncertain(w.context)
    /\ w.pc = "last" => w.reason = "max_turns"
    /\ w.pc \in Unstarted => w.verified < w.revision /\ ~f /\ w.report = NoReport /\ w.job = "none"

\* A report exists only of a workspace that changed.
Reported(w) ==
    w.pc \in Executing \cup {"close", "exit", "output"} /\ w.report # NoReport => Uncertain(w.context)

\* Until it is verified, a change is known, and the run has counted it, or will: at the
\* end of the batch or with the notice of the job.
Counts(w) == w.verified # w.revision \/ w.mutated \/ w.nested \/ w.job # "none"
Dirty(w, f) == w.pc \in Executing /\ f => Tainted(w.context) /\ Counts(w)

\* The end of a turn has been earned, and stays so up to its publication.
Earned(w, f) ==
    /\ w.pc \in {"close", "exit", "output"} /\ w.reason = "end_turn" =>
          ~f /\ (w.safe => w.report # NoReport /\ w.report.checks /\ w.verified = w.revision)
    /\ w.pc \in {"idle", "complete"} /\ w.reason = "end_turn" =>
          ~f /\ (w.after # "failed" /\ w.report # NoReport /\ ~w.report.checks => w.text = "summary")

Sound(w, f) ==
    w \in Works /\ f \in BOOLEAN /\ Locals(w, f) /\ Reported(w) /\ Dirty(w, f) /\ Earned(w, f)

\* Where the task, the worker and the publication can be together.
Phases ==
    /\ task.pc \in {"idle", "lease"} => work.pc = "none" /\ published = <<>>
    /\ task.pc \in {"join", "reap"} => work.pc # "none" /\ (published # <<>> <=> work.pc = "done")
    /\ task.pc \in {"release", "released"} =>
          \/ task.outcome = "result" /\ work.pc \in {"done", "never"} /\ published # <<>>
          \/ task.outcome # "result" /\ work.pc \in {"none", "failed"} /\ published = <<>>
    /\ Len(published) <= 1
    /\ accepting => task.pc \in {"join", "reap", "release"}
    /\ task.prompt # 0 => task.pc = "lease" \/ (task.pc \in {"join", "reap"} /\ work.pc \in {"new", "load", "never"})

IInv == TypeOK /\ Sound(work, fresh) /\ Phases /\ SuccessIsEarned

-----------------------------------------------------------------------------
(* Contexts and reports                                                     *)

LEMMA ContextTypes ==
    ASSUME NEW c \in Contexts, NEW l \in BOOLEAN, NEW scan \in Scans
    PROVE  /\ Clean \in Contexts /\ Edited(c) \in Contexts /\ MarkIncomplete(c, l) \in Contexts
           /\ Scanned(c, scan) \in Contexts
BY DEF Contexts, Clean, Edited, MarkIncomplete, Scanned, Scans

LEMMA ReportTypes ==
    ASSUME NEW c \in Contexts, NEW verdicts \in [1 .. Roots -> Verdicts]
    PROVE  /\ NoReport \in Reports /\ Unchanged(c) \in Reports /\ Interrupted(c) \in Reports
           /\ Stale(c) \in Reports /\ Missing(c) \in Reports
           /\ Afterwards(c, verdicts) \in Contexts /\ Verified(c, verdicts) \in Reports
<1>1. Clean \in Contexts /\ MarkIncomplete(c, FALSE) \in Contexts BY ContextTypes DEF Scans
<1>2. Afterwards(c, verdicts) \in Contexts BY <1>1 DEF Afterwards
<1>3. \A d \in Contexts, x \in BOOLEAN, y \in BOOLEAN,
         why \in {"none", "ran", "unchanged", "interrupted", "stale", "missing"} : Report(x, y, d, why) \in Reports
  BY DEF Report, Reports, Contexts
<1>4. /\ NoReport \in Reports /\ Unchanged(c) \in Reports /\ Interrupted(c) \in Reports
      /\ Stale(c) \in Reports /\ Missing(c) \in Reports
  BY <1>1, <1>3 DEF NoReport, Unchanged, Interrupted, Stale, Missing
<1>5. Verified(c, verdicts) \in Reports BY <1>2, <1>3, <1>4 DEF Verified
<1> QED BY <1>2, <1>4, <1>5

\* What is tainted or uncertain stays so.
LEMMA Stays ==
    ASSUME NEW c \in Contexts, NEW l \in BOOLEAN, NEW scan \in Scans
    PROVE  /\ Tainted(c) => Uncertain(c) /\ ~OnlyLifecycle(c)
           /\ Tainted(Edited(c)) /\ Uncertain(Edited(c)) /\ Tainted(MarkIncomplete(c, FALSE)) /\ Uncertain(MarkIncomplete(c, l))
           /\ Tainted(c) => Tainted(MarkIncomplete(c, l)) /\ Tainted(Scanned(c, scan))
           /\ Uncertain(c) => Uncertain(Scanned(c, scan))
           /\ scan # "same" => Tainted(Scanned(c, scan))
BY DEF Contexts, Tainted, Uncertain, OnlyLifecycle, Edited, MarkIncomplete, Scanned, Scans

\* What a tool did is known.
LEMMA EffectsKnown ==
    ASSUME NEW c \in Contexts, NEW tool \in Tools, NEW e \in Effects(tool, c)
    PROVE  /\ e.context \in Contexts /\ e.mutated \in BOOLEAN /\ e.nested \in BOOLEAN /\ e.wrote \in BOOLEAN
           /\ e.wrote => Tainted(e.context)
           /\ Tainted(c) => Tainted(e.context)
           /\ Uncertain(c) => Uncertain(e.context)
<1>1. CASE tool # "shell"
  <2>1. /\ Edited(c) \in Contexts /\ Tainted(Edited(c)) /\ Uncertain(Edited(c))
    BY ContextTypes, Stays DEF Scans
  <2>2. /\ tool = "read" => Effects(tool, c) = {Effect(c, FALSE, FALSE, FALSE)}
        /\ tool = "edit" =>
              Effects(tool, c) = {Effect(c, FALSE, FALSE, FALSE), Effect(Edited(c), FALSE, FALSE, FALSE),
                                  Effect(Edited(c), FALSE, FALSE, TRUE), Effect(Edited(c), TRUE, FALSE, TRUE)}
        /\ tool = "spawn" => Effects(tool, c) = {Effect(c, TRUE, FALSE, FALSE)}
        /\ tool = "delegate" => Effects(tool, c) = {Effect(c, FALSE, FALSE, FALSE), Effect(Edited(c), FALSE, TRUE, TRUE)}
    BY DEF Effects
  <2>3. \/ e = Effect(c, FALSE, FALSE, FALSE) \/ e = Effect(c, TRUE, FALSE, FALSE)
        \/ e = Effect(Edited(c), TRUE, FALSE, TRUE) \/ e = Effect(Edited(c), FALSE, TRUE, TRUE)
        \/ e = Effect(Edited(c), FALSE, FALSE, FALSE) \/ e = Effect(Edited(c), FALSE, FALSE, TRUE)
    BY <1>1, <2>2 DEF Tools
  <2>4. CASE e = Effect(c, FALSE, FALSE, FALSE) BY <2>4 DEF Effect
  <2>5. CASE e = Effect(c, TRUE, FALSE, FALSE) BY <2>5 DEF Effect
  <2>6. CASE e = Effect(Edited(c), TRUE, FALSE, TRUE) BY <2>1, <2>6 DEF Effect
  <2>7. CASE e = Effect(Edited(c), FALSE, TRUE, TRUE) BY <2>1, <2>7 DEF Effect
  <2>8. CASE e = Effect(Edited(c), FALSE, FALSE, FALSE) BY <2>1, <2>8 DEF Effect
  <2>9. CASE e = Effect(Edited(c), FALSE, FALSE, TRUE) BY <2>1, <2>9 DEF Effect
  <2> QED BY <2>3, <2>4, <2>5, <2>6, <2>7, <2>8, <2>9
<1>2. CASE tool = "shell"
  <2>0. Effects(tool, c) = Command(c) BY <1>2 DEF Effects
  <2>1. PICK scan \in Scans, alive \in BOOLEAN, ok \in BOOLEAN :
           e = Effect(IF alive THEN MarkIncomplete(Scanned(c, scan), scan # "changed") ELSE Scanned(c, scan),
                      ok \/ alive \/ scan # "same", FALSE, scan # "same")
    BY <2>0 DEF Command, Effect
  <2>2. Scanned(c, scan) \in Contexts BY ContextTypes
  <2>3. MarkIncomplete(Scanned(c, scan), scan # "changed") \in Contexts BY <2>2, ContextTypes
  <2>4. e.context \in Contexts /\ e.mutated \in BOOLEAN /\ e.nested \in BOOLEAN /\ e.wrote \in BOOLEAN
    BY <2>1, <2>2, <2>3 DEF Effect
  <2>5. e.wrote = (scan # "same") /\ e.mutated = (ok \/ alive \/ scan # "same") BY <2>1 DEF Effect
  <2>6. e.context = (IF alive THEN MarkIncomplete(Scanned(c, scan), scan # "changed") ELSE Scanned(c, scan))
    BY <2>1 DEF Effect
  <2>7. /\ Tainted(Scanned(c, scan)) => Tainted(e.context)
        /\ Uncertain(Scanned(c, scan)) => Uncertain(e.context)
    BY <2>2, <2>6, Stays
  <2> QED BY <2>4, <2>5, <2>7, Stays
<1> QED BY <1>1, <1>2

LEMMA CutShortKnown ==
    ASSUME NEW c \in Contexts, NEW tool \in Tools, NEW e \in CutShort(tool, c)
    PROVE  /\ e.context \in Contexts /\ e.nested \in BOOLEAN /\ e.wrote \in BOOLEAN
           /\ Uncertain(c) => Uncertain(e.context)
<1>1. /\ Edited(c) \in Contexts /\ Uncertain(Edited(c)) /\ MarkIncomplete(c, FALSE) \in Contexts
      /\ Uncertain(MarkIncomplete(c, FALSE))
  BY ContextTypes, Stays DEF Scans
<1>2. \/ e = Effect(c, FALSE, FALSE, FALSE) \/ e = Effect(MarkIncomplete(c, FALSE), FALSE, FALSE, tool # "read")
      \/ e = Effect(Edited(c), FALSE, tool = "delegate", TRUE)
  BY DEF CutShort, Effect
<1>3. CASE e = Effect(c, FALSE, FALSE, FALSE) BY <1>3 DEF Effect
<1>4. CASE e = Effect(MarkIncomplete(c, FALSE), FALSE, FALSE, tool # "read") BY <1>1, <1>4 DEF Effect
<1>5. CASE e = Effect(Edited(c), FALSE, tool = "delegate", TRUE) BY <1>1, <1>5 DEF Effect
<1> QED BY <1>2, <1>3, <1>4, <1>5

\* A verification.
LEMMA CheckIs ==
    ASSUME NEW w \in Works, NEW verdicts \in [1 .. Roots -> Verdicts]
    PROVE  /\ Check(w, verdicts) \in Works
           /\ Check(w, verdicts).verified = w.revision /\ Check(w, verdicts).revision = w.revision
           /\ Uncertain(w.context) => Uncertain(Check(w, verdicts).context)
           /\ \A x \in {"pc", "hand", "job", "mutated", "nested", "reason", "after", "turn", "repairs", "text"} :
                 Check(w, verdicts)[x] = w[x]
<1>1. w.context \in Contexts BY DEF Works
<1>2. Afterwards(w.context, verdicts) \in Contexts /\ Verified(w.context, verdicts) \in Reports
  BY <1>1, ReportTypes
<1>3. Uncertain(w.context) => Uncertain(Afterwards(w.context, verdicts))
  BY <1>1, Stays DEF Afterwards, Scans
<1>4. Check(w, verdicts) = [w EXCEPT !.context = Afterwards(w.context, verdicts),
          !.report = Verified(w.context, verdicts), !.verified = w.revision]
  BY DEF Check, Works
<1>5. Check(w, verdicts) \in Works BY <1>2, <1>4, ZenonT(60) DEF Works
<1>6. /\ Check(w, verdicts).context = Afterwards(w.context, verdicts)
      /\ Check(w, verdicts).verified = w.revision /\ Check(w, verdicts).revision = w.revision
  BY <1>4 DEF Works
<1>7. \A x \in {"pc", "hand", "job", "mutated", "nested", "reason", "after", "turn", "repairs", "text"} :
         Check(w, verdicts)[x] = w[x]
  BY <1>4 DEF Works
<1> QED BY <1>3, <1>5, <1>6, <1>7

-----------------------------------------------------------------------------
(* The locals of the worker                                                 *)

LEMMA NoWorkIs ==
    /\ NoWork \in Works /\ NoWork.pc = "none" /\ NoWork.hand = <<>> /\ NoWork.report = NoReport
    /\ NoWork.revision = 1 /\ NoWork.verified = 0 /\ ~NoWork.mutated /\ ~NoWork.nested /\ NoWork.job = "none"
<1>1. Clean \in Contexts /\ NoReport \in Reports BY DEF Clean, Contexts, NoReport, Report, Reports
<1> QED BY <1>1 DEF NoWork, Works, Pcs, Texts, Answers, Reasons, Executing, Ended

LEMMA EndingIs ==
    ASSUME NEW w \in Works, NEW reason \in Reasons
    PROVE  LET e == Ending(w, reason) IN
           /\ e \in Works /\ e.pc = "close" /\ e.reason = reason /\ e.hand = <<>> /\ e.job = "none"
           /\ e.context = w.context /\ e.report = w.report /\ e.safe = w.safe /\ e.text = w.text
           /\ ~e.mutated /\ ~e.nested /\ e.verified <= e.revision
           /\ e.verified = e.revision <=> w.verified = w.revision
<1> DEFINE v == IF w.verified = w.revision THEN 1 ELSE 0
           e == [NoWork EXCEPT !.pc = "close", !.reason = reason, !.context = w.context, !.report = w.report,
                   !.text = w.text, !.safe = w.safe, !.verified = v]
<1>1. Ending(w, reason) = e BY NoWorkIs DEF Ending, Current, Works
<1>2. e \in Works BY NoWorkIs, ZenonT(60) DEF Works, Pcs
<1>3. /\ e.pc = "close" /\ e.reason = reason /\ e.context = w.context /\ e.report = w.report /\ e.safe = w.safe
      /\ e.text = w.text /\ e.verified = v
      /\ e.hand = <<>> /\ e.job = "none" /\ ~e.mutated /\ ~e.nested /\ e.revision = 1
  BY NoWorkIs DEF Works
<1>4. v <= 1 /\ (v = 1 <=> w.verified = w.revision) OBVIOUS
<1> HIDE DEF e, v
<1> QED BY <1>1, <1>2, <1>3, <1>4

LEMMA CountedIs ==
    ASSUME NEW w \in Works, NEW b \in BOOLEAN
    PROVE  LET e == Counted(w, b) IN
           /\ e \in Works /\ e.pc = w.pc /\ e.hand = w.hand /\ e.job = w.job /\ e.context = w.context
           /\ e.report = w.report /\ e.after = w.after /\ e.reason = w.reason /\ e.verified = w.verified
           /\ e.mutated = w.mutated /\ e.nested = w.nested
           /\ e.revision = IF b THEN w.revision + 1 ELSE w.revision
<1>1. CASE b
  <2> DEFINE r == w.revision + 1
             e == [w EXCEPT !.revision = r, !.finalizing = FALSE, !.safe = FALSE, !.awaiting = FALSE]
  <2>1. Counted(w, b) = e /\ r \in Nat BY <1>1 DEF Counted, Works
  <2> HIDE DEF r
  <2>2. e \in Works BY <2>1 DEF Works
  <2>3. /\ e.pc = w.pc /\ e.hand = w.hand /\ e.job = w.job /\ e.context = w.context
        /\ e.report = w.report /\ e.after = w.after /\ e.reason = w.reason /\ e.verified = w.verified
        /\ e.mutated = w.mutated /\ e.nested = w.nested /\ e.revision = r
    BY <2>1 DEF Works
  <2> HIDE DEF e
  <2> QED BY <1>1, <2>1, <2>2, <2>3 DEF r
<1>2. CASE ~b
  <2>1. Counted(w, b) = w BY <1>2 DEF Counted
  <2> QED BY <1>2, <2>1
<1> QED BY <1>1, <1>2

\* Whatever raises, the terminal result finds what it needs.
LEMMA RaisedSound ==
    ASSUME NEW w \in Works, NEW reason \in Reasons \ {"end_turn"}, NEW f \in BOOLEAN,
           w.report # NoReport => Uncertain(w.context)
    PROVE  LET e == Raised(w, reason) IN Sound(e, f) /\ e.pc = "close" /\ e.hand = <<>>
<1> DEFINE c == Counted(w, w.nested)
           e == Ending(c, reason)
<1>1. /\ c \in Works /\ c.context = w.context /\ c.report = w.report
  <2>1. w.nested \in BOOLEAN BY DEF Works
  <2> QED BY <2>1, CountedIs
<1> HIDE DEF c
<1>2. /\ e \in Works /\ e.pc = "close" /\ e.reason = reason /\ e.hand = <<>> /\ e.job = "none"
      /\ e.context = c.context /\ e.report = c.report /\ ~e.mutated /\ ~e.nested /\ e.verified <= e.revision
  BY <1>1, EndingIs
<1> HIDE DEF e
<1>3. Locals(e, f) BY <1>2 DEF Locals, Unstarted
<1>4. Reported(e) /\ Dirty(e, f) /\ Earned(e, f)
  BY <1>1, <1>2 DEF Reported, Dirty, Earned, Executing
<1>5. Raised(w, reason) = e BY DEF Raised, e, c
<1> QED BY <1>2, <1>3, <1>4, <1>5 DEF Sound

LEMMA NotifiedIs ==
    ASSUME NEW w \in Works
    PROVE  LET e == Notified(w) IN
           /\ e \in Works /\ e.pc = w.pc /\ e.hand = w.hand /\ e.context = w.context
           /\ e.report = w.report /\ e.after = w.after /\ e.reason = w.reason /\ e.verified = w.verified
           /\ e.mutated = w.mutated /\ e.nested = w.nested /\ e.turn = w.turn
           /\ e.revision = (IF w.job = "done" THEN w.revision + 1 ELSE w.revision)
           /\ e.job = (IF w.job = "done" THEN "none" ELSE w.job)
<1>1. Notified(w) = [w EXCEPT !.revision = IF w.job = "done" THEN w.revision + 1 ELSE w.revision,
                              !.job = IF w.job = "done" THEN "none" ELSE w.job]
  BY DEF Notified, Works
<1> DEFINE r == IF w.job = "done" THEN w.revision + 1 ELSE w.revision
           j == IF w.job = "done" THEN "none" ELSE w.job
           e == [w EXCEPT !.revision = r, !.job = j]
<1>2. r \in Nat /\ j \in {"none", "running", "done"} BY DEF Works
<1> HIDE DEF r, j
<1>3. e \in Works BY <1>2 DEF Works
<1>4. /\ e.pc = w.pc /\ e.hand = w.hand /\ e.context = w.context
      /\ e.report = w.report /\ e.after = w.after /\ e.reason = w.reason /\ e.verified = w.verified
      /\ e.mutated = w.mutated /\ e.nested = w.nested /\ e.turn = w.turn /\ e.revision = r /\ e.job = j
  BY <1>2 DEF Works
<1> QED BY <1>1, <1>3, <1>4 DEF r, j

-----------------------------------------------------------------------------
(* The execution                                                            *)

\* A step of a worker that is under way, of its locals only.
LEMMA QuietStep ==
    ASSUME IInv, work.pc \in Alive, Private, Quiet \/ silent' \in BOOLEAN,
           Sound(work', fresh'), work'.pc \in Alive,
           work.pc = "load" => work'.pc = "load"
    PROVE  IInv'
<1>0. silent' \in BOOLEAN BY DEF IInv, TypeOK, Quiet
<1>1. TypeOK' BY <1>0 DEF IInv, TypeOK, Sound, Private, input
<1>2. task.pc \in {"join", "reap"}
  BY DEF IInv, TypeOK, Phases, Alive, Executing, Tasks
<1>3. published = <<>> /\ "done" \notin Alive BY <1>2 DEF IInv, Phases, Alive, Executing
<1>4. Phases' BY <1>2, <1>3 DEF IInv, Phases, Private, input, Alive, Executing
<1>5. SuccessIsEarned' BY DEF IInv, SuccessIsEarned, Private
<1> QED BY <1>1, <1>4, <1>5 DEF IInv

LEMMA RaiseStep ==
    ASSUME IInv, Quiet, work.pc \in Executing \ {"load"}, NEW w \in Works, NEW reason \in Reasons \ {"end_turn"},
           w.report # NoReport => Uncertain(w.context), work' = Raised(w, reason)
    PROVE  IInv'
<1>0. fresh' \in BOOLEAN BY DEF IInv, TypeOK, Quiet
<1>1. Sound(work', fresh') /\ work'.pc = "close" BY <1>0, RaisedSound
<1> QED BY <1>1, QuietStep DEF Alive, Executing, Quiet

\* What Sound says of the worker where it executes.
LEMMA AtWork ==
    ASSUME IInv, work.pc \in Executing
    PROVE  /\ work \in Works /\ fresh \in BOOLEAN /\ work.verified <= work.revision
           /\ work.verified \in Nat /\ work.revision \in Nat
           /\ work.context \in Contexts
           /\ work.report # NoReport => Uncertain(work.context)
           /\ fresh => Tainted(work.context) /\ Counts(work)
           /\ work.pc # "batch" => ~work.mutated /\ ~work.nested
           /\ work.pc # "drain" => work.hand = <<>>
           /\ work.pc = "verify" => Uncertain(work.context)
BY DEF IInv, Sound, Locals, Reported, Dirty, Works, Executing

\* The execution is stopped, in the middle of a call or between two steps.
LEMMA StoppedSound ==
    ASSUME IInv, work.pc \in Executing, NEW reason \in Reasons \ {"end_turn"}, Stopped(reason)
    PROVE  Sound(work', fresh') /\ work'.pc = "close" /\ work'.hand = <<>>
<1>0. /\ work \in Works /\ fresh \in BOOLEAN /\ work.context \in Contexts
      /\ work.report # NoReport => Uncertain(work.context)
  BY AtWork
<1>2. PICK e \in IF work.pc = "batch" /\ work.done < Len(work.batch)
                 THEN CutShort(work.batch[work.done + 1], work.context)
                 ELSE {Effect(work.context, FALSE, FALSE, FALSE)} :
        /\ work' = Raised([work EXCEPT !.context = e.context, !.nested = @ \/ e.nested], reason)
        /\ fresh' = (fresh \/ e.wrote)
  BY DEF Stopped
<1>3. /\ e.context \in Contexts /\ e.nested \in BOOLEAN /\ e.wrote \in BOOLEAN
      /\ Uncertain(work.context) => Uncertain(e.context)
  <2>1. CASE work.pc = "batch" /\ work.done < Len(work.batch)
    <3>1. work.batch[work.done + 1] \in Tools BY <1>0, <2>1 DEF Works
    <3>2. e \in CutShort(work.batch[work.done + 1], work.context) BY <1>2, <2>1
    <3> QED BY <1>0, <3>1, <3>2, CutShortKnown
  <2>2. CASE ~(work.pc = "batch" /\ work.done < Len(work.batch))
    <3>1. e = [context |-> work.context, mutated |-> FALSE, nested |-> FALSE, wrote |-> FALSE]
      BY <1>2, <2>2 DEF Effect
    <3> QED BY <1>0, <3>1
  <2> QED BY <2>1, <2>2
<1> DEFINE n == work.nested \/ e.nested
           w == [work EXCEPT !.context = e.context, !.nested = n]
<1>4. work' = Raised(w, reason) BY <1>0, <1>2 DEF Works
<1>5. n \in BOOLEAN BY <1>0, <1>3 DEF Works
<1> HIDE DEF n
<1>6. w \in Works /\ w.context = e.context /\ w.report = work.report BY <1>0, <1>3, <1>5 DEF Works
<1> HIDE DEF w
<1>7. w.report # NoReport => Uncertain(w.context) BY <1>0, <1>3, <1>6
<1>8. fresh' \in BOOLEAN BY <1>0, <1>2, <1>3
<1> QED BY <1>4, <1>6, <1>7, <1>8, RaisedSound

LEMMA SeeStopStep == ASSUME IInv, SeeStop PROVE IInv'
<1>0. silent' \in BOOLEAN BY DEF SeeStop, Stopped, IInv, TypeOK
<1>1. /\ work.pc \in Executing \ {"load"} /\ Private /\ Stopped("cancelled")
      /\ "cancelled" \in Reasons \ {"end_turn"}
  BY DEF SeeStop, Executing, Reasons
<1>2. Sound(work', fresh') /\ work'.pc = "close" BY <1>1, StoppedSound
<1> QED BY <1>0, <1>1, <1>2, QuietStep DEF Alive

LEMMA StartTurnStep == ASSUME IInv, StartTurn PROVE IInv'
<1>1. work.pc = "turn" /\ work.pc \in Executing \ {"load"} /\ Quiet /\ Private /\ fresh' = fresh
  BY DEF StartTurn, Runs, At, Quiet, Executing
<1>2. /\ work \in Works /\ fresh \in BOOLEAN
      /\ work.report # NoReport => Uncertain(work.context)
  BY <1>1, AtWork
<1>3. CASE Last(work)
  <2>1. work' = Raised(work, "max_turns") /\ "max_turns" \in Reasons \ {"end_turn"}
    BY <1>3 DEF StartTurn, Raise, Reasons
  <2> QED BY <1>1, <1>2, <2>1, RaiseStep
<1>4. CASE ~Last(work)
  <2> DEFINE n == Notified(work)
             t == n.turn + 1
             e == [n EXCEPT !.pc = "ask", !.turn = t]
  <2>1. /\ n \in Works /\ n.pc = work.pc /\ n.hand = work.hand /\ n.context = work.context
        /\ n.report = work.report /\ n.after = work.after /\ n.reason = work.reason /\ n.verified = work.verified
        /\ n.mutated = work.mutated /\ n.nested = work.nested
        /\ n.revision = (IF work.job = "done" THEN work.revision + 1 ELSE work.revision)
        /\ n.job = (IF work.job = "done" THEN "none" ELSE work.job)
    BY <1>2, NotifiedIs
  <2> HIDE DEF n
  <2>2. work' = e BY <1>4, <2>1 DEF StartTurn, n, Works
  <2>3. t \in Nat BY <2>1 DEF Works
  <2> HIDE DEF t
  <2>4. /\ e \in Works /\ e.pc = "ask" /\ e.hand = n.hand /\ e.context = n.context /\ e.report = n.report
        /\ e.after = n.after /\ e.reason = n.reason /\ e.verified = n.verified /\ e.mutated = n.mutated
        /\ e.nested = n.nested /\ e.revision = n.revision /\ e.job = n.job
    BY <2>1, <2>3 DEF Works, Pcs, Executing
  <2> HIDE DEF e
  <2>5. Locals(e, fresh) BY <1>1, <2>1, <2>4, AtWork DEF Locals, Unstarted
  <2>6. Reported(e) /\ Dirty(e, fresh)
    BY <1>1, <2>1, <2>4, AtWork DEF Reported, Dirty, Counts
  <2>7. Earned(e, fresh) BY <2>4 DEF Earned
  <2> QED BY <1>1, <1>2, <2>2, <2>4, <2>5, <2>6, <2>7, QuietStep DEF Sound, Alive, Executing
<1> QED BY <1>3, <1>4

\* A step that leaves alone what is known of the workspace and of the verification.
LEMMA CarriedStep ==
    ASSUME IInv, Quiet, work.pc \in Executing \ {"load", "batch"}, NEW w \in Works, work' = w,
           w.pc \in Executing \ {"load"}, w.hand = <<>> \/ (w.hand = work.hand /\ w.pc = "drain"),
           w.pc = "drain" => w.after \in {"incomplete", "batch"} \/ (w.after = "answer" /\ w.job = "none"),
           w.pc = "verify" => Uncertain(work.context),
           w.context = work.context, w.report = work.report, w.verified = work.verified,
           w.revision = work.revision, w.job = work.job,
           w.mutated \/ w.nested => work.mutated \/ work.nested
    PROVE  IInv'
<1>1. /\ work.verified <= work.revision /\ fresh \in BOOLEAN
      /\ work.report # NoReport => Uncertain(work.context)
      /\ fresh => Tainted(work.context) /\ Counts(work)
      /\ ~work.mutated /\ ~work.nested
  BY AtWork
<1>2. Locals(w, fresh) BY <1>1 DEF Locals, Unstarted, Executing
<1>3. Reported(w) /\ Dirty(w, fresh) BY <1>1 DEF Reported, Dirty, Counts
<1>4. Earned(w, fresh) BY DEF Earned, Executing
<1> QED BY <1>1, <1>2, <1>3, <1>4, QuietStep DEF Sound, Quiet, Alive

\* What _record_model_response makes of an answer it cannot use.
LEMMA RejectedStep == ASSUME IInv, work.pc = "ask", work' = Rejected, Quiet PROVE IInv'
<1>1. work \in Works /\ (work.report # NoReport => Uncertain(work.context)) BY AtWork DEF Executing
<1>2. CASE Last(work) \/ work.invalid >= 2
  <2>1. work' = Raised(work, "budget") BY <1>2 DEF Rejected
  <2> QED BY <1>1, <2>1, RaiseStep, AtWork DEF Executing, Quiet, Reasons
<1>3. CASE ~(Last(work) \/ work.invalid >= 2)
  <2> DEFINE i == work.invalid + 1
             w == [work EXCEPT !.pc = "turn", !.invalid = i]
  <2>1. i \in Nat /\ work' = w BY <1>1, <1>3 DEF Rejected, Works
  <2> HIDE DEF i
  <2>2. /\ w \in Works /\ w.pc = "turn" /\ w.hand = work.hand /\ w.context = work.context
        /\ w.report = work.report /\ w.verified = work.verified /\ w.revision = work.revision
        /\ w.job = work.job /\ w.mutated = work.mutated /\ w.nested = work.nested
    BY <1>1, <2>1 DEF Works, Pcs, Executing
  <2> HIDE DEF w
  <2> QED BY <2>1, <2>2, CarriedStep, AtWork DEF Executing
<1> QED BY <1>2, <1>3

LEMMA InvalidStep == ASSUME IInv, Invalid PROVE IInv'
BY RejectedStep DEF Invalid, Runs, At

LEMMA IncompleteStep == ASSUME IInv, Incomplete PROVE IInv'
<1>1. work.pc = "ask" /\ Quiet BY DEF Incomplete, Runs, At
<1>2. /\ work \in Works /\ work.hand = <<>> /\ fresh' \in BOOLEAN
      /\ work.report # NoReport => Uncertain(work.context)
  BY <1>1, AtWork DEF Executing, Quiet
<1>3. CASE Last(work)
  <2>1. work' = Raised(work, "max_turns") BY <1>3 DEF Incomplete
  <2> QED BY <1>1, <1>2, <2>1, RaiseStep DEF Executing, Quiet, Reasons
<1>4. CASE ~Last(work)
  <2> DEFINE w == [work EXCEPT !.pc = "drain", !.after = "incomplete", !.invalid = 1, !.text = "answer"]
  <2>1. work' = w BY <1>4 DEF Incomplete
  <2>2. /\ w \in Works /\ w.pc = "drain" /\ w.after = "incomplete" /\ w.hand = work.hand
        /\ w.context = work.context
        /\ w.report = work.report /\ w.verified = work.verified /\ w.revision = work.revision
        /\ w.job = work.job /\ w.mutated = work.mutated /\ w.nested = work.nested
    BY <1>2, ZenonT(60) DEF Works, Pcs, Executing, Texts, Answers
  <2> HIDE DEF w
  <2> QED BY <1>1, <1>2, <2>1, <2>2, CarriedStep DEF Executing
<1> QED BY <1>3, <1>4

LEMMA AnswerStep == ASSUME IInv, Answer PROVE IInv'
<1>1. work.pc = "ask" /\ Quiet BY DEF Answer, Runs, At
<1>2. work \in Works /\ work.hand = <<>> BY <1>1, AtWork DEF Executing
<1>3. PICK text \in Answers : work' = [work EXCEPT !.pc = "settle", !.text = text, !.invalid = 0] BY DEF Answer
<1> DEFINE w == [work EXCEPT !.pc = "settle", !.text = text, !.invalid = 0]
<1>4. /\ w \in Works /\ w.pc = "settle" /\ w.hand = work.hand /\ w.context = work.context
      /\ w.report = work.report /\ w.verified = work.verified /\ w.revision = work.revision
      /\ w.job = work.job /\ w.mutated = work.mutated /\ w.nested = work.nested
  BY <1>2 DEF Works, Pcs, Executing, Texts
<1>5. work' = w BY <1>3
<1> HIDE DEF w
<1> QED BY <1>1, <1>2, <1>4, <1>5, CarriedStep DEF Executing

LEMMA CallsStep == ASSUME IInv, Calls PROVE IInv'
<1>1. work.pc = "ask" /\ Quiet BY DEF Calls, Runs, At
<1>2. /\ work \in Works /\ work.hand = <<>> /\ fresh' \in BOOLEAN
      /\ work.report # NoReport => Uncertain(work.context)
  BY <1>1, AtWork DEF Executing, Quiet
<1>3. PICK batch \in Batches :
        work' = IF Last(work) THEN Raised(work, "max_turns")
                ELSE IF ToolsOff THEN Rejected ELSE Admitted(work, batch)
  BY DEF Calls
<1>4. CASE Last(work)
  <2>1. work' = Raised(work, "max_turns") BY <1>3, <1>4
  <2> QED BY <1>1, <1>2, <2>1, RaiseStep DEF Executing, Quiet, Reasons
<1>5. CASE ~Last(work) /\ ToolsOff
  <2>1. work' = Rejected BY <1>3, <1>5
  <2> QED BY <1>1, <2>1, RejectedStep
<1>6. CASE ~Last(work) /\ ~ToolsOff
  <2> DEFINE r == Repeated(work, batch)
  <2>0. work' = Admitted(work, batch) BY <1>3, <1>6
  <2>1. CASE r > MaxRepeated
    <3>1. work' = Raised(work, "stuck") BY <2>0, <2>1 DEF Admitted
    <3> QED BY <1>1, <1>2, <3>1, RaiseStep DEF Executing, Quiet, Reasons
  <2>2. CASE ~(r > MaxRepeated)
    <3> DEFINE w == [work EXCEPT !.pc = "batch", !.batch = batch, !.repeated = r, !.invalid = 0,
                   !.done = 0, !.mutated = FALSE, !.nested = FALSE]
    <3>1. r \in Nat BY <1>2 DEF Repeated, Works
    <3>2. batch \in Seq(Tools) BY LifecycleAssumption
    <3>3. work' = w BY <2>0, <2>2 DEF Admitted
    <3> HIDE DEF r
    <3>4. /\ w \in Works /\ w.pc = "batch" /\ w.hand = work.hand /\ w.context = work.context
          /\ w.report = work.report /\ w.verified = work.verified /\ w.revision = work.revision
          /\ w.job = work.job /\ ~w.mutated /\ ~w.nested
      BY <1>2, <3>1, <3>2 DEF Works, Pcs, Executing
    <3> HIDE DEF w
    <3> QED BY <1>1, <1>2, <3>3, <3>4, CarriedStep DEF Executing
  <2> QED BY <2>1, <2>2
<1> QED BY <1>4, <1>5, <1>6

LEMMA FailStep == ASSUME IInv, Fail PROVE IInv'
<1>1. PICK reason \in {"error", "budget"} : work' = Raised(work, reason) BY DEF Fail, Raise
<1>2. work.pc \in {"ask", "batch"} /\ Quiet BY DEF Fail
<1>3. /\ work \in Works /\ fresh' \in BOOLEAN
      /\ work.report # NoReport => Uncertain(work.context)
  BY <1>2, AtWork DEF Executing, Quiet
<1>4. reason \in Reasons \ {"end_turn"} BY DEF Reasons
<1> QED BY <1>1, <1>2, <1>3, <1>4, RaiseStep DEF Executing, Quiet

LEMMA SettleStep == ASSUME IInv, Settle PROVE IInv'
<1>1. work.pc = "settle" /\ Quiet /\ work.job # "running" /\ fresh' = fresh BY DEF Settle, Runs, At, Quiet
<1>2. /\ work \in Works /\ work.hand = <<>> /\ fresh \in BOOLEAN /\ ~work.mutated /\ ~work.nested
      /\ work.report # NoReport => Uncertain(work.context)
      /\ fresh => Tainted(work.context) /\ Counts(work)
      /\ work.verified \in Nat /\ work.revision \in Nat /\ work.verified <= work.revision
  BY <1>1, AtWork DEF Executing
<1> DEFINE n == Notified(work)
           back == [n EXCEPT !.pc = "turn", !.finalizing = FALSE, !.safe = FALSE]
           on == [n EXCEPT !.pc = "drain", !.after = "answer"]
<1>3. /\ n \in Works /\ n.hand = work.hand /\ n.context = work.context
      /\ n.report = work.report /\ n.verified = work.verified
      /\ n.mutated = work.mutated /\ n.nested = work.nested
      /\ n.revision = (IF work.job = "done" THEN work.revision + 1 ELSE work.revision)
      /\ n.job = (IF work.job = "done" THEN "none" ELSE work.job)
  BY <1>2, NotifiedIs
<1>4. work' = back \/ work' = on BY DEF Settle
<1> HIDE DEF n
<1> DEFINE Same(w) ==
             /\ w \in Works /\ w.hand = n.hand /\ w.context = n.context
             /\ w.report = n.report /\ w.verified = n.verified /\ w.revision = n.revision
             /\ w.job = n.job /\ w.mutated = n.mutated /\ w.nested = n.nested
<1>5. /\ Same(back) /\ back.pc = "turn"
      /\ Same(on) /\ on.pc = "drain" /\ on.after = "answer"
  BY <1>3, ZenonT(60) DEF Works, Pcs, Executing
<1> HIDE DEF back, on
<1>6. work.job \in {"none", "done"} BY <1>1, <1>2 DEF Works
<1>7. SUFFICES ASSUME NEW w, work' = w, Same(w),
                      w.pc = "turn" \/ (w.pc = "drain" /\ w.after = "answer")
               PROVE IInv'
  BY <1>4, <1>5
<1>8. w.job = "none" /\ (fresh => w.verified # w.revision) BY <1>2, <1>3, <1>6, <1>7 DEF Counts
<1>9. Locals(w, fresh) BY <1>2, <1>3, <1>7, <1>8 DEF Locals, Unstarted
<1>10. Reported(w) /\ Dirty(w, fresh) BY <1>2, <1>3, <1>7, <1>8 DEF Reported, Dirty, Counts
<1>11. Earned(w, fresh) BY <1>7 DEF Earned
<1> QED BY <1>1, <1>2, <1>7, <1>9, <1>10, <1>11, QuietStep DEF Sound, Alive, Executing, Quiet

LEMMA RunToolStep == ASSUME IInv, RunTool PROVE IInv'
<1>1. work.pc = "batch" /\ Private /\ work.done < Len(work.batch) BY DEF RunTool, At
<1>2. /\ work \in Works /\ work.hand = <<>> /\ fresh \in BOOLEAN /\ work.context \in Contexts
      /\ work.report # NoReport => Uncertain(work.context)
      /\ fresh => Tainted(work.context) /\ Counts(work)
      /\ work.verified \in Nat /\ work.revision \in Nat /\ work.verified <= work.revision
  BY <1>1, AtWork DEF Executing
<1> DEFINE tool == work.batch[work.done + 1]
<1>3. tool \in Tools BY <1>1, <1>2 DEF Works
<1>4. PICK e \in Effects(tool, work.context) :
        /\ work' = [work EXCEPT !.done = @ + 1, !.kill = FALSE, !.context = e.context,
                                !.mutated = @ \/ e.mutated, !.nested = @ \/ e.nested,
                                !.job = IF tool = "spawn" /\ @ = "none" THEN "running" ELSE @]
        /\ fresh' = (fresh \/ (e.wrote /\ (e.mutated \/ e.nested)))
        /\ silent' = (silent \/ (e.wrote /\ ~e.mutated /\ ~e.nested))
  BY DEF RunTool
<1>5. /\ e.context \in Contexts /\ e.mutated \in BOOLEAN /\ e.nested \in BOOLEAN /\ e.wrote \in BOOLEAN
      /\ e.wrote => Tainted(e.context)
      /\ Tainted(work.context) => Tainted(e.context)
      /\ Uncertain(work.context) => Uncertain(e.context)
  BY <1>2, <1>3, EffectsKnown
<1> DEFINE d == work.done + 1
           m == work.mutated \/ e.mutated
           n == work.nested \/ e.nested
           j == IF tool = "spawn" /\ work.job = "none" THEN "running" ELSE work.job
           c == e.context
           w == [work EXCEPT !.done = d, !.kill = FALSE, !.context = c, !.mutated = m, !.nested = n, !.job = j]
<1>6. work' = w BY <1>2, <1>4 DEF Works
<1>7. c = e.context /\ c \in Contexts /\ d \in Nat /\ m \in BOOLEAN /\ n \in BOOLEAN /\ j \in {"none", "running", "done"}
  BY <1>2, <1>5 DEF Works
<1>8. /\ work.mutated => m
      /\ work.nested => n
      /\ e.mutated \/ e.nested => m \/ n
      /\ work.job # "none" => j # "none"
  BY <1>2, <1>5 DEF Works
<1> HIDE DEF c, d, m, n, j, tool
<1>a. w \in Works
  <2> DEFINE x == [work EXCEPT !.done = d, !.kill = FALSE, !.context = c]
  <2>1. work \in Works BY <1>2
  <2>2. x \in Works BY <1>7, <2>1 DEF Works
  <2>3. w = [x EXCEPT !.mutated = m, !.nested = n, !.job = j] BY <2>1 DEF Works
  <2> HIDE DEF x
  <2> QED BY <1>7, <2>2, <2>3, ZenonT(60) DEF Works
<1>b. /\ w.pc = work.pc /\ w.hand = work.hand /\ w.context = c /\ w.report = work.report
      /\ w.verified = work.verified /\ w.revision = work.revision
  BY <1>2 DEF Works
<1>c. w.job = j /\ (w.mutated <=> m) /\ (w.nested <=> n) BY <1>2 DEF Works
<1>9. /\ w \in Works /\ w.pc = "batch" /\ w.hand = work.hand /\ w.context = c /\ w.report = work.report
      /\ w.verified = work.verified /\ w.revision = work.revision /\ w.job = j
      /\ w.mutated <=> m
      /\ w.nested <=> n
  BY <1>1, <1>a, <1>b, <1>c
<1> HIDE DEF w
<1>10. Counts(work) => Counts(w) BY <1>8, <1>9 DEF Counts
<1>11. Dirty(w, fresh')
  <2>1. CASE fresh BY <1>2, <1>5, <1>7, <1>9, <1>10, <2>1 DEF Dirty
  <2>2. CASE ~fresh /\ e.wrote /\ (e.mutated \/ e.nested) BY <1>5, <1>7, <1>8, <1>9, <2>2 DEF Dirty, Counts
  <2>3. CASE ~fresh /\ ~(e.wrote /\ (e.mutated \/ e.nested)) BY <1>4, <2>3 DEF Dirty
  <2> QED BY <2>1, <2>2, <2>3
<1>12. fresh' \in BOOLEAN /\ silent' \in BOOLEAN BY <1>2, <1>4, <1>5 DEF IInv, TypeOK
<1>13. Locals(w, fresh') BY <1>2, <1>9 DEF Locals, Unstarted
<1>14. Reported(w) BY <1>2, <1>5, <1>7, <1>9 DEF Reported
<1>15. Earned(w, fresh') BY <1>9 DEF Earned
<1> QED BY <1>1, <1>6, <1>9, <1>11, <1>12, <1>13, <1>14, <1>15, QuietStep DEF Sound, Alive, Executing

LEMMA BatchEndsStep == ASSUME IInv, BatchEnds PROVE IInv'
<1>1. work.pc = "batch" /\ Quiet /\ Private /\ fresh' = fresh BY DEF BatchEnds, Runs, At, Quiet
<1>2. /\ work \in Works /\ work.hand = <<>> /\ fresh \in BOOLEAN
      /\ work.report # NoReport => Uncertain(work.context)
      /\ fresh => Tainted(work.context) /\ Counts(work)
      /\ work.verified \in Nat /\ work.revision \in Nat /\ work.verified <= work.revision
  BY <1>1, AtWork DEF Executing
<1> DEFINE b == work.mutated \/ work.nested
           c == Counted(work, b)
           w == [c EXCEPT !.pc = "drain", !.after = "batch", !.done = 0, !.mutated = FALSE, !.nested = FALSE]
<1>3. b \in BOOLEAN BY <1>2 DEF Works
<1>4. work' = w BY DEF BatchEnds
<1>5. b <=> work.mutated \/ work.nested OBVIOUS
<1> HIDE DEF b
<1>6. /\ c \in Works /\ c.hand = work.hand /\ c.job = work.job /\ c.context = work.context
      /\ c.report = work.report /\ c.verified = work.verified
      /\ c.revision = IF b THEN work.revision + 1 ELSE work.revision
  BY <1>2, <1>3, CountedIs
<1> HIDE DEF c
<1>7. /\ w \in Works /\ w.pc = "drain" /\ w.after = "batch" /\ w.hand = c.hand /\ w.context = c.context
      /\ w.report = c.report /\ w.verified = c.verified /\ w.revision = c.revision /\ w.job = c.job
      /\ ~w.mutated /\ ~w.nested
  BY <1>6 DEF Works, Pcs, Executing
<1> HIDE DEF w
<1>8. Counts(work) => Counts(w) BY <1>2, <1>5, <1>6, <1>7 DEF Counts
<1>9. Locals(w, fresh') BY <1>2, <1>6, <1>7 DEF Locals, Unstarted
<1>10. Reported(w) /\ Dirty(w, fresh') BY <1>1, <1>2, <1>6, <1>7, <1>8 DEF Reported, Dirty
<1>11. Earned(w, fresh') BY <1>7 DEF Earned
<1> QED BY <1>1, <1>2, <1>4, <1>7, <1>9, <1>10, <1>11, QuietStep DEF Sound, Alive, Executing

LEMMA JobWritesStep == ASSUME IInv, JobWrites PROVE IInv'
<1>1. work.pc \in Executing /\ work.job = "running" /\ Private /\ fresh' = TRUE /\ silent' \in BOOLEAN
  BY DEF JobWrites, IInv, TypeOK
<1>2. /\ work \in Works /\ work.context \in Contexts
      /\ work.pc # "batch" => ~work.mutated /\ ~work.nested
      /\ work.pc # "drain" => work.hand = <<>>
      /\ work.verified \in Nat /\ work.revision \in Nat /\ work.verified <= work.revision
  BY <1>1, AtWork
<1>3. /\ work.pc # "load"
      /\ work.pc = "drain" => work.after \in {"incomplete", "batch"}
  BY <1>1 DEF IInv, Sound, Locals, Unstarted
<1> DEFINE w == [work EXCEPT !.context = Edited(work.context)]
<1>4. work' = w BY <1>2 DEF JobWrites, Works
<1>5. Edited(work.context) \in Contexts /\ Tainted(Edited(work.context)) /\ Uncertain(Edited(work.context))
  BY <1>2, ContextTypes, Stays DEF Scans
<1>6. /\ w \in Works /\ w.context = Edited(work.context) /\ w.job = "running"
      /\ w.pc = work.pc /\ w.hand = work.hand /\ w.after = work.after /\ w.mutated = work.mutated
      /\ w.nested = work.nested /\ w.verified = work.verified /\ w.revision = work.revision
  BY <1>1, <1>2, <1>5 DEF Works
<1> HIDE DEF w
<1>7. Locals(w, fresh') BY <1>1, <1>2, <1>3, <1>5, <1>6 DEF Locals, Unstarted, Executing
<1>8. Reported(w) /\ Dirty(w, fresh') BY <1>5, <1>6 DEF Reported, Dirty, Counts
<1>9. Earned(w, fresh') BY <1>1, <1>6 DEF Earned, Executing
<1> QED BY <1>1, <1>3, <1>4, <1>6, <1>7, <1>8, <1>9, QuietStep DEF Sound, Alive

LEMMA JobEndsStep == ASSUME IInv, JobEnds PROVE IInv'
<1>1. work.pc \in Executing /\ work.job = "running" /\ Quiet /\ Private /\ fresh' = fresh BY DEF JobEnds, Quiet
<1>2. /\ work \in Works /\ fresh \in BOOLEAN
      /\ work.pc # "batch" => ~work.mutated /\ ~work.nested
      /\ work.pc # "drain" => work.hand = <<>>
      /\ work.pc = "verify" => Uncertain(work.context)
      /\ work.report # NoReport => Uncertain(work.context)
      /\ fresh => Tainted(work.context)
      /\ work.verified \in Nat /\ work.revision \in Nat /\ work.verified <= work.revision
  BY <1>1, AtWork
<1>3. /\ work.pc # "load"
      /\ work.pc = "drain" => work.after \in {"incomplete", "batch"}
  BY <1>1 DEF IInv, Sound, Locals, Unstarted
<1> DEFINE w == [work EXCEPT !.job = "done"]
<1>4. work' = w BY DEF JobEnds
<1>5. /\ w \in Works /\ w.context = work.context /\ w.job = "done" /\ w.report = work.report
      /\ w.pc = work.pc /\ w.hand = work.hand /\ w.after = work.after /\ w.mutated = work.mutated
      /\ w.nested = work.nested /\ w.verified = work.verified /\ w.revision = work.revision
  BY <1>1, <1>2 DEF Works
<1> HIDE DEF w
<1>7. Locals(w, fresh') BY <1>1, <1>2, <1>3, <1>5 DEF Locals, Unstarted, Executing
<1>8. Reported(w) /\ Dirty(w, fresh') BY <1>1, <1>2, <1>5 DEF Reported, Dirty, Counts
<1>9. Earned(w, fresh') BY <1>1, <1>5 DEF Earned, Executing
<1> QED BY <1>1, <1>2, <1>3, <1>4, <1>5, <1>7, <1>8, <1>9, QuietStep DEF Sound, Alive

\* An execution that ends.
LEMMA EndedSound ==
    ASSUME NEW w \in Works, NEW reason \in Reasons, NEW f \in BOOLEAN,
           w.report # NoReport => Uncertain(w.context),
           reason = "end_turn" =>
              ~f /\ (w.safe => w.report # NoReport /\ w.report.checks /\ w.verified = w.revision)
    PROVE  Sound(Ending(w, reason), f) /\ Ending(w, reason).pc = "close"
<1> DEFINE e == Ending(w, reason)
<1>1. /\ e \in Works /\ e.pc = "close" /\ e.reason = reason /\ e.hand = <<>> /\ e.job = "none"
      /\ e.context = w.context /\ e.report = w.report /\ e.safe = w.safe
      /\ ~e.mutated /\ ~e.nested /\ e.verified <= e.revision
      /\ e.verified = e.revision <=> w.verified = w.revision
  BY EndingIs
<1> HIDE DEF e
<1>2. Locals(e, f) BY <1>1 DEF Locals, Unstarted
<1>3. Reported(e) /\ Dirty(e, f) /\ Earned(e, f) BY <1>1 DEF Reported, Dirty, Earned, Executing
<1> QED BY <1>1, <1>2, <1>3 DEF Sound, e

LEMMA AnsweredIs ==
    ASSUME NEW w \in Works
    PROVE  LET e == Answered(w) IN
           /\ e \in Works /\ e.context = w.context /\ e.report = w.report
           /\ e.verified = w.verified /\ e.revision = w.revision
           /\ e.safe => e.report # NoReport /\ e.report.checks
<1> DEFINE safe == MayStand(w.text, w.report)
           text == VerifiedFinalAnswer(w.text, w.report)
           e == [w EXCEPT !.safe = safe, !.text = text]
<1>1. w.report \in Reports /\ NoReport.checks = FALSE BY DEF Works, NoReport, Report
<1>2. safe \in BOOLEAN /\ text \in Texts BY <1>1 DEF MayStand, VerifiedFinalAnswer, Texts, Reports
<1>3. safe => w.report # NoReport /\ w.report.checks BY <1>1 DEF MayStand
<1> HIDE DEF safe, text
<1>4. /\ e \in Works /\ e.context = w.context /\ e.report = w.report
      /\ e.verified = w.verified /\ e.revision = w.revision /\ e.safe = safe
  BY <1>2 DEF Works
<1>5. Answered(w) = e BY DEF Answered, safe, text
<1> HIDE DEF e
<1> QED BY <1>3, <1>4, <1>5

\* A drain that took nothing ends the turn, or goes on to the verification.
LEMMA DrainedStep == ASSUME IInv, Drained PROVE IInv'
<1>1. work.pc = "drain" /\ work.hand = <<>> /\ Quiet /\ Private /\ fresh' = fresh BY DEF Drained, Runs, At, Quiet
<1>2. /\ work \in Works /\ fresh \in BOOLEAN /\ work.context \in Contexts
      /\ work.report # NoReport => Uncertain(work.context)
      /\ fresh => Tainted(work.context) /\ Counts(work)
      /\ ~work.mutated /\ ~work.nested
  BY <1>1, AtWork DEF Executing
<1>3. work.after \in {"incomplete", "answer", "batch"} /\ (work.after = "answer" => work.job = "none")
  BY <1>1 DEF IInv, Sound, Locals
<1> DEFINE w == [work EXCEPT !.pc = "turn", !.steered = FALSE]
           Same(x) == /\ x \in Works /\ x.hand = <<>> /\ x.context = work.context /\ x.report = work.report
                      /\ x.verified = work.verified /\ x.revision = work.revision /\ x.job = work.job
                      /\ x.mutated = work.mutated /\ x.nested = work.nested
<1>4. Same(w) /\ w.pc = "turn" BY <1>1, <1>2 DEF Works, Pcs, Executing
<1>5. /\ work.after = "incomplete" => work' = [w EXCEPT !.invalid = IF work.steered THEN 0 ELSE 1]
      /\ work.after = "answer" /\ work.steered => work' = [w EXCEPT !.finalizing = FALSE, !.safe = FALSE]
      /\ work.after = "answer" /\ ~work.steered => work' = Considered(w)
      /\ work.after = "batch" => work' = w
  BY DEF Drained
<1> HIDE DEF w
<1>6. ASSUME NEW x, Same(x), x.pc \in {"turn", "verify"}, x.pc = "verify" => Uncertain(x.context), work' = x
      PROVE  IInv'
  BY <1>1, <1>6, CarriedStep DEF Executing
<1>7. CASE work.after = "incomplete"
  <2> DEFINE i == IF work.steered THEN 0 ELSE 1
             x == [w EXCEPT !.invalid = i]
  <2>1. i \in Nat /\ work' = x BY <1>5, <1>7
  <2> HIDE DEF i
  <2>2. Same(x) /\ x.pc = "turn" BY <1>4, <2>1 DEF Works
  <2> QED BY <1>6, <2>1, <2>2
<1>8. CASE work.after = "answer" /\ work.steered
  <2> DEFINE x == [w EXCEPT !.finalizing = FALSE, !.safe = FALSE]
  <2>1. Same(x) /\ x.pc = "turn" BY <1>4 DEF Works
  <2>2. work' = x BY <1>5, <1>8
  <2> QED BY <1>6, <2>1, <2>2
<1>9. CASE work.after = "batch" BY <1>4, <1>5, <1>6, <1>9
<1>10. CASE work.after = "answer" /\ ~work.steered
  <2>1. work' = Considered(w) BY <1>5, <1>10
  <2>2. CASE Needed(w)
    <3> DEFINE x == [w EXCEPT !.pc = "verify"]
    <3>1. Same(x) /\ x.pc = "verify" BY <1>4 DEF Works, Pcs, Executing
    <3>2. work' = x BY <2>1, <2>2 DEF Considered
    <3>3. Uncertain(x.context) BY <2>2, <1>4, <3>1 DEF Needed
    <3> QED BY <1>6, <3>1, <3>2, <3>3
  <2>3. CASE ~Needed(w)
    <3> DEFINE x == IF w.awaiting \/ w.finalizing THEN Answered(w) ELSE [w EXCEPT !.safe = FALSE]
    <3>1. work' = Ending(x, "end_turn") BY <2>1, <2>3 DEF Considered
    <3>2. ~Uncertain(w.context) \/ w.verified = w.revision BY <2>3 DEF Needed, Current
    <3>3. ~fresh
      <4>1. ASSUME fresh PROVE FALSE
        <5>1. Tainted(w.context) /\ w.verified # w.revision BY <1>2, <1>3, <1>4, <1>10, <4>1 DEF Counts
        <5>2. Uncertain(w.context) BY <1>2, <1>4, <5>1, Stays DEF Scans
        <5> QED BY <3>2, <5>1, <5>2
      <4> QED BY <4>1, <1>2
    <3>4. /\ x \in Works /\ x.context = w.context /\ x.report = w.report
          /\ x.verified = w.verified /\ x.revision = w.revision
          /\ x.safe => x.report # NoReport /\ x.report.checks
      <4>1. CASE w.awaiting \/ w.finalizing BY <1>4, <4>1, AnsweredIs
      <4>2. CASE ~(w.awaiting \/ w.finalizing) BY <1>4, <4>2 DEF Works
      <4> QED BY <4>1, <4>2
    <3> HIDE DEF x
    <3>5. x.safe => x.verified = x.revision BY <1>2, <1>4, <3>2, <3>4
    <3>6. Sound(Ending(x, "end_turn"), fresh) /\ Ending(x, "end_turn").pc = "close"
      BY <1>2, <1>4, <3>3, <3>4, <3>5, EndedSound DEF Reasons
    <3> QED BY <1>1, <3>1, <3>6, QuietStep DEF Alive, Executing
  <2> QED BY <2>2, <2>3
<1> QED BY <1>3, <1>7, <1>8, <1>9, <1>10

\* The verification clears what is fresh: nothing tainted is of the lifecycle only.
LEMMA VerifyStep == ASSUME IInv, Verify PROVE IInv'
<1>1. /\ work.pc = "verify" /\ Private /\ fresh' = (fresh /\ OnlyLifecycle(work.context))
      /\ silent' \in BOOLEAN
  BY DEF Verify, Cleared, Runs, At, IInv, TypeOK
<1>2. /\ work \in Works /\ fresh \in BOOLEAN /\ work.context \in Contexts /\ work.hand = <<>>
      /\ Uncertain(work.context) /\ ~work.mutated /\ ~work.nested
      /\ fresh => Tainted(work.context)
  BY <1>1, AtWork DEF Executing
<1>3. fresh' = FALSE BY <1>1, <1>2, Stays DEF Scans
<1>4. PICK verdicts \in [1 .. Roots -> Verdicts] : work' = Concluded(Check(work, verdicts)) BY DEF Verify
<1> DEFINE y == Check(work, verdicts)
<1>5. /\ y \in Works /\ y.verified = y.revision /\ Uncertain(y.context) /\ y.hand = <<>>
      /\ ~y.mutated /\ ~y.nested
  BY <1>2, CheckIs
<1>6. work' = Concluded(y) BY <1>4
<1> HIDE DEF y
<1> DEFINE repair == ~y.report.checks /\ ~Last(y) /\ y.repairs < MaxRepairs
           final == y.report.checks /\ ~Last(y)
           told == [y EXCEPT !.text = "summary", !.safe = FALSE]
<1>7. CASE OnlyLifecycle(y.context)
  <2>1. work' = Ending(Answered(y), "end_turn") BY <1>6, <1>7 DEF Concluded
  <2>2. Sound(Ending(Answered(y), "end_turn"), FALSE) /\ Ending(Answered(y), "end_turn").pc = "close"
    BY <1>5, AnsweredIs, EndedSound DEF Reasons
  <2> QED BY <1>1, <1>3, <2>1, <2>2, QuietStep DEF Alive, Executing
<1>8. CASE ~OnlyLifecycle(y.context) /\ (repair \/ final)
  <2> DEFINE n == IF repair THEN y.repairs + 1 ELSE y.repairs
             p == repair
             q == final
             x == [told EXCEPT !.pc = "turn", !.repairs = n, !.awaiting = p, !.finalizing = q]
  <2>0. /\ told \in Works /\ told.repairs = y.repairs /\ told.context = y.context /\ told.verified = y.verified
        /\ told.revision = y.revision /\ told.hand = y.hand /\ told.mutated = y.mutated /\ told.nested = y.nested
    BY <1>5 DEF Works, Texts
  <2>1. work' = x BY <1>6, <1>8, <2>0 DEF Concluded
  <2>2. n \in Nat /\ p \in BOOLEAN /\ q \in BOOLEAN BY <1>5 DEF Works, Reports
  <2> HIDE DEF n, p, q, told
  <2>3. /\ x \in Works /\ x.pc = "turn" /\ x.context = y.context /\ x.verified = y.verified
        /\ x.revision = y.revision /\ x.hand = y.hand /\ x.mutated = y.mutated /\ x.nested = y.nested
    BY <2>0, <2>2, ZenonT(60) DEF Works, Pcs, Executing
  <2> HIDE DEF x
  <2>4. Locals(x, FALSE) BY <1>5, <2>3 DEF Locals, Unstarted, Works
  <2>5. Reported(x) /\ Dirty(x, FALSE) /\ Earned(x, FALSE) BY <1>5, <2>3 DEF Reported, Dirty, Earned
  <2> QED BY <1>1, <1>3, <2>1, <2>3, <2>4, <2>5, QuietStep DEF Sound, Alive, Executing
<1>9. CASE ~OnlyLifecycle(y.context) /\ ~(repair \/ final)
  <2> DEFINE reason == IF Last(y) THEN "max_turns" ELSE "end_turn"
  <2>1. work' = Ending(told, reason) BY <1>6, <1>9 DEF Concluded
  <2>2. told \in Works /\ ~told.safe /\ told.context = y.context BY <1>5 DEF Works, Texts
  <2>3. reason \in Reasons BY DEF Reasons
  <2> HIDE DEF told, reason
  <2>4. Sound(Ending(told, reason), FALSE) /\ Ending(told, reason).pc = "close"
    BY <1>5, <2>2, <2>3, EndedSound
  <2> QED BY <1>1, <1>3, <2>1, <2>4, QuietStep DEF Alive, Executing
<1> QED BY <1>7, <1>8, <1>9

-----------------------------------------------------------------------------
(* The execution and what it shares                                         *)

\* A step of a worker that is under way, which moves prompts or drops what it shares.
LEMMA AliveStep ==
    ASSUME IInv, TypeOK', work.pc \in Alive, Sound(work', fresh'), work'.pc \in Alive,
           task'.pc = task.pc, published' = published, accepting' => accepting,
           task'.prompt # 0 => task.prompt # 0 /\ work'.pc = work.pc
    PROVE  IInv'
<1>1. task.pc \in {"join", "reap"}
  BY DEF IInv, TypeOK, Phases, Alive, Executing, Tasks
<1>2. published = <<>> /\ "done" \notin Alive BY <1>1 DEF IInv, Phases, Alive, Executing
<1>3. task'.prompt # 0 => work.pc = "load" BY <1>1 DEF IInv, Phases, Alive, Executing
<1>4. Phases' BY <1>1, <1>2, <1>3 DEF IInv, Phases, Alive, Executing
<1>5. SuccessIsEarned' BY DEF IInv, SuccessIsEarned
<1> QED BY <1>4, <1>5 DEF IInv

LEMMA Prompted ==
    ASSUME TypeOK
    PROVE  /\ Held \in Seq(Nat) /\ Missed \subseteq Nat
           /\ [task EXCEPT !.prompt = 0] \in Tasks /\ [task EXCEPT !.prompt = 0].pc = task.pc
           /\ [task EXCEPT !.prompt = 0].prompt = 0
<1>1. task \in Tasks /\ work.hand \in Seq(Nat) /\ task.prompt \in Nat BY DEF TypeOK, Tasks, Works
<1>2. <<task.prompt>> \in Seq(Nat) /\ <<>> \in Seq(Nat) BY <1>1
<1>3. Held \in Seq(Nat) BY <1>1, <1>2 DEF Held
<1>4. Missed \subseteq Nat BY <1>3 DEF Missed
<1> QED BY <1>1, <1>3, <1>4 DEF Tasks

LEMMA InterruptStep == ASSUME IInv, Interrupt PROVE IInv'
<1>1. /\ work.pc \in Executing /\ Stopped(Why(task)) /\ task' = [task EXCEPT !.prompt = 0]
      /\ log' = log \o Held \/ log' = log
      /\ lost' = lost \/ lost' = lost \cup Missed
      /\ UNCHANGED <<client, closing, input, waiting, stop, published, mishaps>>
  BY DEF Interrupt
<1>2. Why(task) \in Reasons \ {"end_turn"} BY DEF Why, Reasons
<1>3. Sound(work', fresh') /\ work'.pc = "close" BY <1>1, <1>2, StoppedSound
<1>4. TypeOK BY DEF IInv
<1>5. log' \in Seq(Nat) /\ lost' \subseteq Nat
  <2>1. log \in Seq(Nat) /\ lost \subseteq Nat /\ Held \in Seq(Nat) /\ Missed \subseteq Nat BY <1>4, Prompted DEF TypeOK
  <2>2. log \o Held \in Seq(Nat) BY <2>1
  <2> QED BY <1>1, <2>1, <2>2
<1>6. task' \in Tasks /\ task'.pc = task.pc /\ task'.prompt = 0 BY <1>1, <1>4, Prompted
<1>7. silent' \in BOOLEAN BY <1>1, <1>4 DEF Stopped, TypeOK
<1>8. TypeOK' BY <1>1, <1>3, <1>4, <1>5, <1>6, <1>7 DEF TypeOK, Sound, input
<1> QED BY <1>1, <1>3, <1>6, <1>8, AliveStep DEF Alive, input

LEMMA LoadStep == ASSUME IInv, Load PROVE IInv'
<1>1. /\ work.pc = "load" /\ log' = Append(log, task.prompt) /\ task' = [task EXCEPT !.prompt = 0]
      /\ queue' = queue \o pending /\ pending' = <<>>
      /\ UNCHANGED <<client, closing, typed, accepting, waiting, stop, lost, published, mishaps>>
  BY DEF Load, Runs, At, Steer
<1>2. PICK c \in Recovered : work' = [work EXCEPT !.pc = "turn", !.context = c] /\ fresh' = (c # Clean)
  BY DEF Load
<1>3. /\ c \in Contexts
      /\ c # Clean => Tainted(c)
  <2>1. Clean \in Contexts BY DEF Clean, Contexts
  <2>2. /\ Edited(Clean) \in Contexts /\ MarkIncomplete(Clean, FALSE) \in Contexts
        /\ Tainted(Edited(Clean)) /\ Tainted(MarkIncomplete(Clean, FALSE))
    BY <2>1, ContextTypes, Stays DEF Scans
  <2> QED BY <2>1, <2>2 DEF Recovered
<1>4. /\ work \in Works /\ work.verified < work.revision /\ work.report = NoReport /\ work.job = "none"
      /\ work.hand = <<>> /\ ~work.mutated /\ ~work.nested /\ work.verified \in Nat /\ work.revision \in Nat
  BY <1>1, AtWork DEF IInv, Sound, Locals, Unstarted, Executing
<1> DEFINE w == [work EXCEPT !.pc = "turn", !.context = c]
<1>5. /\ w \in Works /\ w.pc = "turn" /\ w.context = c /\ w.report = work.report /\ w.verified = work.verified
      /\ w.revision = work.revision /\ w.hand = work.hand /\ w.mutated = work.mutated /\ w.nested = work.nested
  BY <1>3, <1>4 DEF Works, Pcs, Executing
<1>6. work' = w BY <1>2
<1> HIDE DEF w
<1>7. Locals(w, fresh') BY <1>4, <1>5 DEF Locals, Unstarted
<1>8. Reported(w) BY <1>4, <1>5 DEF Reported
<1>d. w.verified # w.revision BY <1>4, <1>5
<1>e. Dirty(w, fresh') BY <1>2, <1>3, <1>5, <1>d DEF Dirty, Counts
<1>9. Earned(w, fresh') BY <1>5 DEF Earned
<1>10. fresh' \in BOOLEAN BY <1>2
<1>11. Sound(work', fresh') BY <1>5, <1>6, <1>7, <1>8, <1>e, <1>9, <1>10 DEF Sound
<1>12. TypeOK /\ task' \in Tasks /\ task'.pc = task.pc /\ task'.prompt = 0 BY <1>1, Prompted DEF IInv
<1>13. log' \in Seq(Nat) /\ queue' \in Seq(Nat) /\ pending' \in Seq(Nat) BY <1>1, <1>12 DEF TypeOK, Tasks
<1>a. silent' = silent BY DEF Load
<1>14. TypeOK' BY <1>1, <1>10, <1>5, <1>6, <1>12, <1>13, <1>a DEF TypeOK
<1> QED BY <1>1, <1>5, <1>6, <1>11, <1>12, <1>14, AliveStep DEF Alive, Executing

\* What _drain_steering does to the locals: neither the execution nor the result cares.
LEMMA HandSound ==
    ASSUME IInv, Draining, NEW hand \in Seq(Nat), NEW steered \in BOOLEAN
    PROVE  LET w == [work EXCEPT !.hand = hand, !.steered = steered]
           IN  Sound(w, fresh) /\ w.pc = work.pc /\ w.pc \in Alive
<1> DEFINE w == [work EXCEPT !.hand = hand, !.steered = steered]
<1>1. work.pc \in {"drain", "last"} /\ work \in Works /\ fresh \in BOOLEAN
  BY DEF Draining, Runs, At, IInv, Sound
<1>2. /\ w \in Works /\ w.pc = work.pc /\ w.context = work.context /\ w.report = work.report
      /\ w.verified = work.verified /\ w.revision = work.revision /\ w.mutated = work.mutated
      /\ w.nested = work.nested /\ w.job = work.job /\ w.after = work.after /\ w.reason = work.reason
  BY <1>1 DEF Works
<1> HIDE DEF w
<1>3. Locals(w, fresh) BY <1>1, <1>2 DEF IInv, Sound, Locals, Unstarted
<1>4. Reported(w) /\ Dirty(w, fresh) BY <1>1, <1>2 DEF IInv, Sound, Reported, Dirty, Counts
<1>5. Earned(w, fresh) BY <1>1, <1>2 DEF Earned
<1> QED BY <1>1, <1>2, <1>3, <1>4, <1>5 DEF Sound, w, Alive, Executing

LEMMA TakePromptStep == ASSUME IInv, TakePrompt PROVE IInv'
<1>1. /\ Draining /\ queue # <<>> /\ queue' = Tail(queue) /\ work' = [work EXCEPT !.hand = <<Head(queue)>>]
      /\ UNCHANGED <<client, closing, typed, pending, accepting, waiting, task, stop, log, lost, fresh, silent, published, mishaps>>
  BY DEF TakePrompt
<1>2. TypeOK /\ queue \in Seq(Nat) BY DEF IInv, TypeOK
<1>3. queue' \in Seq(Nat) /\ <<Head(queue)>> \in Seq(Nat) BY <1>1, <1>2
<1>4. work \in Works /\ work.steered \in BOOLEAN BY <1>2 DEF TypeOK, Works
<1>5. work' = [work EXCEPT !.hand = <<Head(queue)>>, !.steered = work.steered] BY <1>1, <1>4 DEF Works
<1>6. Sound(work', fresh') /\ work'.pc = work.pc /\ work'.pc \in Alive BY <1>1, <1>3, <1>4, <1>5, HandSound
<1>7. TypeOK' BY <1>1, <1>2, <1>3, <1>6 DEF TypeOK, Sound
<1> QED BY <1>1, <1>6, <1>7, AliveStep

LEMMA StorePromptStep == ASSUME IInv, StorePrompt PROVE IInv'
<1>1. /\ Draining /\ work' = [work EXCEPT !.hand = <<>>, !.steered = TRUE] /\ log' = log \o work.hand
      /\ UNCHANGED <<client, closing, input, waiting, task, stop, lost, fresh, silent, published, mishaps>>
  BY DEF StorePrompt
<1>2. TypeOK /\ work.hand \in Seq(Nat) BY DEF IInv, TypeOK, Works
<1>3. log' \in Seq(Nat) BY <1>1, <1>2 DEF TypeOK
<1>4. Sound(work', fresh') /\ work'.pc = work.pc /\ work'.pc \in Alive
  <2>1. <<>> \in Seq(Nat) /\ TRUE \in BOOLEAN OBVIOUS
  <2> QED BY <1>1, <2>1, HandSound
<1>5. TypeOK' BY <1>1, <1>2, <1>3, <1>4 DEF TypeOK, Sound, input
<1> QED BY <1>1, <1>4, <1>5, AliveStep DEF input

-----------------------------------------------------------------------------
(* The terminal result                                                      *)

\* What Sound says of the worker that owns the terminal result.
LEMMA AtExit ==
    ASSUME IInv, work.pc \in {"close", "exit", "output"}
    PROVE  /\ work \in Works /\ fresh \in BOOLEAN /\ work.verified <= work.revision
           /\ work.context \in Contexts /\ work.hand = <<>> /\ ~work.mutated /\ ~work.nested
           /\ work.report # NoReport => Uncertain(work.context)
           /\ work.reason = "end_turn" =>
                ~fresh /\ (work.safe => work.report # NoReport /\ work.report.checks /\ work.verified = work.revision)
BY DEF IInv, Sound, Locals, Reported, Earned, Works, Executing

LEMMA CloseStep == ASSUME IInv, Close PROVE IInv'
<1>1. work.pc = "close" /\ Quiet /\ Private /\ fresh' = fresh /\ work' = [work EXCEPT !.pc = "exit"]
  BY DEF Close, At, Quiet
<1> DEFINE w == [work EXCEPT !.pc = "exit"]
<1>2. /\ w \in Works /\ w.pc = "exit" /\ w.context = work.context /\ w.report = work.report
      /\ w.verified = work.verified /\ w.revision = work.revision /\ w.mutated = work.mutated
      /\ w.nested = work.nested /\ w.safe = work.safe /\ w.hand = work.hand /\ w.reason = work.reason
  BY <1>1, AtExit DEF Works, Pcs
<1>3. work' = w BY <1>1
<1> HIDE DEF w
<1>4. Locals(w, fresh) BY <1>1, <1>2, AtExit DEF Locals, Unstarted
<1>5. Reported(w) /\ Dirty(w, fresh) /\ Earned(w, fresh)
  BY <1>1, <1>2, AtExit DEF Reported, Dirty, Earned, Executing
<1> QED BY <1>1, <1>2, <1>3, <1>4, <1>5, AtExit, QuietStep DEF Sound, Alive

\* Only a run that spent its turns is verified here.
LEMMA VerifyExitStep == ASSUME IInv, VerifyExit PROVE IInv'
<1>1. work.pc = "exit" /\ Private /\ silent' \in BOOLEAN BY DEF VerifyExit, Cleared, At, IInv, TypeOK
<1>2. /\ work \in Works /\ fresh \in BOOLEAN /\ work.verified <= work.revision
      /\ work.context \in Contexts /\ work.hand = <<>> /\ ~work.mutated /\ ~work.nested
      /\ work.report # NoReport => Uncertain(work.context)
      /\ work.reason = "end_turn" =>
           ~fresh /\ (work.safe => work.report # NoReport /\ work.report.checks /\ work.verified = work.revision)
  BY <1>1, AtExit
<1>3. SUFFICES ASSUME NEW w \in Works, work' = w, w.pc = "output", fresh' \in BOOLEAN, w.hand = <<>>,
                      ~w.mutated, ~w.nested, w.verified <= w.revision, w.reason = work.reason,
                      w.report # NoReport => Uncertain(w.context),
                      \/ /\ fresh' = fresh /\ w.safe = work.safe /\ w.report = work.report
                         /\ w.verified = work.verified /\ w.revision = work.revision
                      \/ w.reason = "max_turns"
               PROVE  IInv'
  <2>1. CASE ~Unverified
    <3> DEFINE w == [work EXCEPT !.pc = "output"]
    <3>1. work' = w /\ fresh' = fresh BY <2>1 DEF VerifyExit
    <3>2. /\ w \in Works /\ w.pc = "output" /\ w.hand = work.hand /\ w.mutated = work.mutated
          /\ w.nested = work.nested /\ w.safe = work.safe /\ w.report = work.report /\ w.context = work.context
          /\ w.verified = work.verified /\ w.revision = work.revision /\ w.reason = work.reason
      BY <1>2 DEF Works, Pcs
    <3> HIDE DEF w
    <3> QED BY <1>2, <1>3, <3>1, <3>2
  <2>2. CASE Unverified /\ stop # "set"
    <3>1. PICK verdicts \in [1 .. Roots -> Verdicts] : work' = [Check(work, verdicts) EXCEPT !.pc = "output"]
      BY <2>2 DEF VerifyExit
    <3> DEFINE y == Check(work, verdicts)
               w == [y EXCEPT !.pc = "output"]
    <3>2. /\ y \in Works /\ y.verified = y.revision /\ Uncertain(y.context) /\ y.hand = work.hand
          /\ y.mutated = work.mutated /\ y.nested = work.nested /\ y.reason = work.reason
      BY <1>2, <2>2, CheckIs DEF Unverified
    <3> HIDE DEF y
    <3>3. /\ w \in Works /\ w.pc = "output" /\ w.verified = y.verified /\ w.revision = y.revision
          /\ w.context = y.context /\ w.hand = y.hand /\ w.mutated = y.mutated /\ w.nested = y.nested
          /\ w.reason = y.reason
      BY <3>2 DEF Works, Pcs
    <3>4. work' = w BY <3>1 DEF y
    <3> HIDE DEF w
    <3>5. fresh' \in BOOLEAN BY <2>2, <1>2 DEF VerifyExit, Cleared
    <3>6. w.reason = "max_turns" BY <2>2, <3>2, <3>3 DEF Unverified
    <3>7. w.verified <= w.revision BY <3>2, <3>3 DEF Works
    <3> QED BY <1>2, <1>3, <3>2, <3>3, <3>4, <3>5, <3>6, <3>7
  <2>3. CASE Unverified /\ stop = "set"
    <3> DEFINE v == work.revision
               report == Interrupted(work.context)
               w == [work EXCEPT !.pc = "output", !.verified = v, !.report = report]
    <3>1. work' = w /\ fresh' = fresh BY <2>3 DEF VerifyExit
    <3>2. v \in Nat /\ report \in Reports /\ Uncertain(work.context)
      BY <1>2, <2>3 DEF Works, Unverified, Interrupted, Report, Reports, Contexts
    <3> HIDE DEF v, report
    <3>3. /\ w \in Works /\ w.pc = "output" /\ w.hand = work.hand /\ w.mutated = work.mutated
          /\ w.nested = work.nested /\ w.context = work.context
          /\ w.verified = v /\ w.revision = work.revision /\ w.reason = work.reason
      BY <1>2, <3>2 DEF Works, Pcs
    <3> HIDE DEF w
    <3>4. w.reason = "max_turns" BY <2>3, <3>3 DEF Unverified
    <3>5. w.verified <= w.revision BY <3>2, <3>3 DEF v
    <3> QED BY <1>2, <1>3, <3>1, <3>2, <3>3, <3>4, <3>5
  <2> QED BY <2>1, <2>2, <2>3
<1>4. Locals(w, fresh') BY <1>3 DEF Locals, Unstarted
<1>5. Reported(w) /\ Dirty(w, fresh') BY <1>3 DEF Reported, Dirty, Executing
<1>6. Earned(w, fresh') BY <1>2, <1>3 DEF Earned
<1> QED BY <1>1, <1>3, <1>4, <1>5, <1>6, QuietStep DEF Sound, Alive

LEMMA FinalTypes ==
    ASSUME NEW c \in Contexts, NEW r \in Reports, NEW text \in Texts, NEW safe \in BOOLEAN,
           NEW current \in BOOLEAN, NEW ended \in BOOLEAN
    PROVE  LET report == FinalReport(c, r, current, TRUE)
           IN  report \in Reports /\ FinalText(c, report, text, safe, ended) \in Texts
<1> DEFINE report == FinalReport(c, r, current, TRUE)
<1>1. /\ NoReport \in Reports /\ Unchanged(c) \in Reports /\ Stale(c) \in Reports /\ Missing(c) \in Reports
  BY DEF Report, Reports, Contexts, Clean, NoReport, Unchanged, Stale, Missing
<1>2. report \in Reports BY <1>1 DEF FinalReport
<1> HIDE DEF report
<1>3. FinalText(c, report, text, safe, ended) \in Texts BY DEF FinalText, Texts, VerifiedFinalAnswer
<1> QED BY <1>2, <1>3 DEF report

\* A result that ends its turn with a failed verification has the summary for a text.
LEMMA FinalSummary ==
    ASSUME NEW w \in Works, NEW report, report = FinalReport(w.context, w.report, Current(w), TRUE),
           w.report # NoReport => Uncertain(w.context),
           w.safe => w.report # NoReport /\ w.report.checks /\ w.verified = w.revision,
           report # NoReport, ~report.checks
    PROVE  FinalText(w.context, report, w.text, w.safe, TRUE) = "summary"
<1> DEFINE c == w.context
           r == w.report
           known == IF r = NoReport /\ OnlyLifecycle(c) THEN Unchanged(c) ELSE r
<1>1. Unchanged(c).checks = TRUE BY DEF Report, Unchanged
<1>2. \/ report = Stale(c) /\ r # NoReport /\ w.verified # w.revision
      \/ report = Missing(c) /\ Uncertain(c) /\ known = NoReport
      \/ report = known /\ (r = NoReport \/ w.verified = w.revision)
  BY DEF FinalReport, Uncertain, Current
<1>3. ~w.safe
  <2>1. ASSUME w.safe PROVE known = r /\ r # NoReport /\ r.checks /\ w.verified = w.revision BY <2>1
  <2>2. ASSUME w.safe PROVE report = r BY <1>2, <2>1, <2>2
  <2> QED BY <2>1, <2>2
<1>4. Uncertain(c)
  <2>1. report = known => report = r BY <1>1
  <2> QED BY <1>2, <2>1
<1>5. ~Guaranteed(report) BY DEF Guaranteed
<1> QED BY <1>3, <1>4, <1>5 DEF FinalText, MayStand

LEMMA OutputStep == ASSUME IInv, Output PROVE IInv'
<1>1. work.pc = "output" /\ Quiet /\ Private /\ fresh' = fresh BY DEF Output, At, Quiet
<1>2. /\ work \in Works /\ fresh \in BOOLEAN /\ work.verified <= work.revision
      /\ work.context \in Contexts /\ work.hand = <<>> /\ ~work.mutated /\ ~work.nested
      /\ work.report # NoReport => Uncertain(work.context)
      /\ work.reason = "end_turn" =>
           ~fresh /\ (work.safe => work.report # NoReport /\ work.report.checks /\ work.verified = work.revision)
  BY <1>1, AtExit
<1> DEFINE current == Current(work)
           ended == work.reason = "end_turn"
           report == FinalReport(work.context, work.report, current, TRUE)
           text == FinalText(work.context, report, work.text, work.safe, ended)
           p == IF work.reason = "max_turns" THEN "last" ELSE "idle"
           w == [work EXCEPT !.pc = p, !.report = report, !.text = text]
<1>3. work' = w BY <1>2 DEF Output, Works
<1>4. /\ report \in Reports /\ text \in Texts
      /\ ended /\ report # NoReport /\ ~report.checks => text = "summary"
  <2>1. current \in BOOLEAN /\ ended \in BOOLEAN /\ (current <=> work.verified = work.revision) BY DEF Current
  <2>2. work.report \in Reports /\ work.text \in Texts /\ work.safe \in BOOLEAN BY <1>2 DEF Works
  <2> HIDE DEF current, ended
  <2>4. report \in Reports BY <1>2, <2>1, <2>2, FinalTypes
  <2>5. text \in Texts BY <1>2, <2>1, <2>2, FinalTypes
  <2>6. ASSUME ended, report # NoReport, ~report.checks PROVE text = "summary"
    <3>1. ended = TRUE BY <2>1, <2>6
    <3>2. text = FinalText(work.context, report, work.text, work.safe, TRUE) BY <3>1
    <3>3. report = FinalReport(work.context, work.report, Current(work), TRUE) BY DEF current
    <3>4. report # NoReport /\ ~report.checks BY <2>6
    <3>5. work.safe => work.report # NoReport /\ work.report.checks /\ work.verified = work.revision
      BY <1>2, <2>6 DEF ended
    <3> HIDE DEF report
    <3> QED BY <1>2, <3>2, <3>3, <3>4, <3>5, FinalSummary
  <2> QED BY <2>4, <2>5, <2>6
<1>5. p \in {"last", "idle"} /\ (p = "last" => work.reason = "max_turns") OBVIOUS
<1>6. p \in Pcs BY DEF Pcs
<1> HIDE DEF report, text, p
<1>7. /\ w \in Works /\ w.pc = p /\ w.report = report /\ w.text = text /\ w.verified = work.verified
      /\ w.revision = work.revision /\ w.hand = work.hand /\ w.mutated = work.mutated /\ w.nested = work.nested
      /\ w.reason = work.reason
  BY <1>2, <1>4, <1>6 DEF Works
<1> HIDE DEF w
<1>8. Locals(w, fresh) BY <1>2, <1>5, <1>7 DEF Locals, Unstarted
<1>9. Reported(w) /\ Dirty(w, fresh) BY <1>5, <1>7 DEF Reported, Dirty, Executing
<1>10. Earned(w, fresh) BY <1>2, <1>4, <1>5, <1>7 DEF Earned
<1> QED BY <1>1, <1>2, <1>3, <1>5, <1>7, <1>8, <1>9, <1>10, QuietStep DEF Sound, Alive

\* In the last steps of the terminal result only the end of the turn matters.
LEMMA LateSound ==
    ASSUME NEW w \in Works, NEW f \in BOOLEAN, w.pc \in {"last", "idle", "complete", "done", "failed"},
           ~w.mutated /\ ~w.nested /\ w.verified <= w.revision,
           w.hand # <<>> => w.pc = "last",
           w.pc = "last" => w.reason = "max_turns",
           w.reason = "end_turn" =>
              ~f /\ (w.after # "failed" /\ w.report # NoReport /\ ~w.report.checks => w.text = "summary")
    PROVE  Sound(w, f)
BY DEF Sound, Locals, Unstarted, Reported, Dirty, Earned, Executing

LEMMA AtLast ==
    ASSUME IInv, work.pc \in {"last", "idle", "complete"}
    PROVE  /\ work \in Works /\ fresh \in BOOLEAN /\ work.verified <= work.revision
           /\ ~work.mutated /\ ~work.nested
           /\ work.hand # <<>> => work.pc = "last"
           /\ work.pc = "last" => work.reason = "max_turns"
           /\ work.reason = "end_turn" =>
                ~fresh /\ (work.after # "failed" /\ work.report # NoReport /\ ~work.report.checks =>
                             work.text = "summary")
BY DEF IInv, Sound, Locals, Earned

LEMMA LastDrainedStep == ASSUME IInv, LastDrained PROVE IInv'
<1>1. /\ work.pc = "last" /\ work.hand = <<>> /\ work' = [work EXCEPT !.pc = "idle"] /\ accepting' = FALSE
      /\ UNCHANGED <<client, closing, typed, pending, queue, waiting, task, stop, log, lost, fresh, silent, published, mishaps>>
  BY DEF LastDrained, At
<1> DEFINE w == [work EXCEPT !.pc = "idle"]
<1>2. /\ w \in Works /\ w.pc = "idle" /\ w.verified = work.verified /\ w.revision = work.revision
      /\ w.mutated = work.mutated /\ w.nested = work.nested /\ w.hand = work.hand /\ w.reason = work.reason
  BY <1>1, AtLast DEF Works, Pcs
<1>3. work' = w BY <1>1
<1> HIDE DEF w
<1>4. w.reason = "max_turns" BY <1>1, <1>2, AtLast
<1>5. Sound(w, fresh) BY <1>1, <1>2, <1>4, AtLast, LateSound
<1>6. TypeOK' BY <1>1, <1>2, <1>3 DEF IInv, TypeOK
<1>7. task.prompt = 0 BY <1>1 DEF IInv, Phases, TypeOK, Tasks
<1> QED BY <1>1, <1>2, <1>3, <1>5, <1>6, <1>7, AliveStep DEF Alive

LEMMA IdleStep == ASSUME IInv, Idle PROVE IInv'
<1>1. /\ work.pc = "idle" /\ work' = [work EXCEPT !.pc = "complete"] /\ stop' = "none"
      /\ UNCHANGED <<client, closing, input, waiting, task, log, lost, fresh, silent, published, mishaps>>
  BY DEF Idle, At
<1> DEFINE w == [work EXCEPT !.pc = "complete"]
<1>2. /\ w \in Works /\ w.pc = "complete" /\ w.verified = work.verified /\ w.revision = work.revision
      /\ w.mutated = work.mutated /\ w.nested = work.nested /\ w.hand = work.hand /\ w.reason = work.reason
      /\ w.after = work.after /\ w.report = work.report /\ w.text = work.text
  BY <1>1, AtLast DEF Works, Pcs
<1>3. work' = w BY <1>1
<1> HIDE DEF w
<1>5. Sound(w, fresh) BY <1>1, <1>2, AtLast, LateSound
<1>6. TypeOK' BY <1>1, <1>2, <1>3 DEF IInv, TypeOK, input
<1>7. task.prompt = 0 BY <1>1 DEF IInv, Phases, TypeOK, Tasks
<1> QED BY <1>1, <1>2, <1>3, <1>5, <1>6, <1>7, AliveStep DEF Alive, input

\* The result is published by the step that makes it the outcome of the worker.
LEMMA CompleteStep == ASSUME IInv, Complete PROVE IInv'
<1>1. /\ work.pc = "complete"
      /\ UNCHANGED <<client, closing, input, waiting, task, stop, log, lost, fresh, silent, mishaps>>
  BY DEF Complete, At
<1>2. /\ work \in Works /\ fresh \in BOOLEAN /\ work.verified <= work.revision
      /\ ~work.mutated /\ ~work.nested /\ work.hand = <<>>
      /\ work.reason = "end_turn" =>
           ~fresh /\ (work.after # "failed" /\ work.report # NoReport /\ ~work.report.checks =>
                        work.text = "summary")
  BY <1>1, AtLast
<1>3. task.pc \in {"join", "reap"} /\ published = <<>> /\ task.prompt = 0
  BY <1>1 DEF IInv, TypeOK, Phases, Tasks
<1>4. ASSUME NEW pc \in {"done", "failed"}, work' = [work EXCEPT !.pc = pc]
      PROVE  Sound(work', fresh) /\ work' \in Works /\ work'.pc = pc
  <2> DEFINE w == [work EXCEPT !.pc = pc]
  <2>1. /\ w \in Works /\ w.pc = pc /\ w.verified = work.verified /\ w.revision = work.revision
        /\ w.mutated = work.mutated /\ w.nested = work.nested /\ w.hand = work.hand /\ w.reason = work.reason
        /\ w.after = work.after /\ w.report = work.report /\ w.text = work.text
    BY <1>2 DEF Works, Pcs, Ended
  <2> HIDE DEF w
  <2>2. Sound(w, fresh) BY <1>2, <2>1, LateSound
  <2> QED BY <1>4, <2>1, <2>2 DEF w
<1>5. CASE work.after = "failed"
  <2>1. work' = [work EXCEPT !.pc = "failed"] /\ published' = published BY <1>5 DEF Complete
  <2>2. Sound(work', fresh) /\ work' \in Works /\ work'.pc = "failed" BY <1>4, <2>1
  <2>3. TypeOK' BY <1>1, <2>1, <2>2 DEF IInv, TypeOK, input
  <2>4. Phases' BY <1>1, <1>3, <2>1, <2>2 DEF IInv, Phases, input
  <2>5. SuccessIsEarned' BY <2>1 DEF IInv, SuccessIsEarned
  <2> QED BY <1>1, <2>2, <2>3, <2>4, <2>5 DEF IInv
<1>6. CASE work.after # "failed"
  <2> DEFINE x == Result(work.reason, work.report, work.text)
  <2>1. work' = [work EXCEPT !.pc = "done"] /\ published' = Append(published, x) BY <1>6 DEF Complete
  <2>2. Sound(work', fresh) /\ work' \in Works /\ work'.pc = "done" BY <1>4, <2>1
  <2>3. x \in Results BY <1>2 DEF Result, Results, Works, IInv, TypeOK
  <2>4. x.reason = "end_turn" => ~x.fresh /\ (x.report # NoReport /\ ~x.report.checks => x.text = "summary")
    BY <1>2, <1>6 DEF Result
  <2> HIDE DEF x
  <2>5. published' = <<x>> /\ published' \in Seq(Results) BY <1>3, <2>1, <2>3
  <2>6. TypeOK' BY <1>1, <2>2, <2>5 DEF IInv, TypeOK, input
  <2>7. Len(published') = 1 /\ published' # <<>> BY <2>5
  <2>8. Phases' BY <1>1, <1>3, <2>2, <2>7 DEF IInv, Phases, input
  <2>9. SuccessIsEarned' BY <2>4, <2>5 DEF SuccessIsEarned
  <2> QED BY <1>1, <2>2, <2>6, <2>8, <2>9 DEF IInv
<1> QED BY <1>5, <1>6

\* A store that fails ends the execution, or takes the result from the caller.
LEMMA StoreFailsStep == ASSUME IInv, StoreFails PROVE IInv'
<1>0. /\ UNCHANGED <<client, closing, typed, pending, queue, waiting, stop, log, fresh, silent, published>>
      /\ mishaps' = mishaps + 1 /\ lost' = lost \cup Missed
  BY DEF StoreFails, Mishap
<1>1. TypeOK BY DEF IInv
<1>2. mishaps' \in Nat /\ lost' \subseteq Nat BY <1>0, <1>1, Prompted DEF TypeOK
<1>3. CASE /\ Runs("load") \/ (Runs("drain") /\ work.hand # <<>>)
           /\ Raise("error") /\ task' = [task EXCEPT !.prompt = 0] /\ UNCHANGED accepting
  <2>1. work.pc \in Executing BY <1>3 DEF Runs, At, Executing
  <2>2. work' = Raised(work, "error") /\ "error" \in Reasons \ {"end_turn"} BY <1>3 DEF Raise, Reasons
  <2>3. Sound(work', fresh) /\ work'.pc = "close" BY <2>1, <2>2, AtWork, RaisedSound
  <2>4. task' \in Tasks /\ task'.pc = task.pc /\ task'.prompt = 0 BY <1>1, <1>3, Prompted
  <2>5. TypeOK' BY <1>0, <1>1, <1>2, <1>3, <2>3, <2>4 DEF TypeOK, Sound
  <2> QED BY <1>0, <1>3, <2>1, <2>3, <2>4, <2>5, AliveStep DEF Alive
<1>4. CASE /\ At("output") \/ (At("last") /\ work.hand # <<>>)
           /\ work' = [work EXCEPT !.pc = "idle", !.after = "failed", !.hand = <<>>]
           /\ UNCHANGED task /\ accepting' = (accepting /\ work.reason # "max_turns")
  <2> DEFINE w == [work EXCEPT !.pc = "idle", !.after = "failed", !.hand = <<>>]
  <2>1. /\ work \in Works /\ fresh \in BOOLEAN /\ work.verified <= work.revision
        /\ ~work.mutated /\ ~work.nested /\ (work.reason = "end_turn" => ~fresh) /\ work.pc \in {"output", "last"}
    BY <1>4, AtExit, AtLast DEF At
  <2>2. /\ w \in Works /\ w.pc = "idle" /\ w.after = "failed" /\ w.hand = <<>> /\ w.reason = work.reason
        /\ w.verified = work.verified /\ w.revision = work.revision /\ w.mutated = work.mutated
        /\ w.nested = work.nested
    <3>1. <<>> \in Seq(Nat) /\ "idle" \in Pcs BY DEF Pcs
    <3> QED BY <2>1, <3>1 DEF Works
  <2>3. work' = w BY <1>4
  <2> HIDE DEF w
  <2>4. Sound(w, fresh) BY <2>1, <2>2, LateSound
  <2>5. accepting' \in BOOLEAN /\ (accepting' => accepting) BY <1>1, <1>4 DEF TypeOK
  <2>6. TypeOK' BY <1>0, <1>1, <1>2, <1>4, <2>2, <2>3, <2>5 DEF TypeOK
  <2>7. task.prompt = 0 BY <2>1, <1>1 DEF IInv, Phases, TypeOK, Tasks
  <2> QED BY <1>0, <1>4, <2>1, <2>2, <2>3, <2>4, <2>5, <2>6, <2>7, AliveStep DEF Alive
<1> QED BY <1>3, <1>4 DEF StoreFails

-----------------------------------------------------------------------------
(* The clients and the task                                                 *)

\* The locals of a worker that is killed, or has not loaded its session yet.
LEMMA KillSound ==
    ASSUME IInv
    PROVE  LET w == [work EXCEPT !.kill = TRUE] IN Sound(w, fresh) /\ w.pc = work.pc
<1> DEFINE w == [work EXCEPT !.kill = TRUE]
<1>1. work \in Works /\ Sound(work, fresh) BY DEF IInv, Sound
<1>2. /\ w \in Works /\ w.pc = work.pc /\ w.context = work.context /\ w.report = work.report
      /\ w.verified = work.verified /\ w.revision = work.revision /\ w.mutated = work.mutated
      /\ w.nested = work.nested /\ w.job = work.job /\ w.after = work.after /\ w.reason = work.reason
      /\ w.hand = work.hand /\ w.safe = work.safe /\ w.text = work.text
  BY <1>1 DEF Works
<1> HIDE DEF w
<1>3. Locals(w, fresh) BY <1>1, <1>2 DEF Sound, Locals
<1>4. Reported(w) /\ Dirty(w, fresh) BY <1>1, <1>2 DEF Sound, Reported, Dirty, Counts
<1>5. Earned(w, fresh) BY <1>1, <1>2 DEF Sound, Earned
<1> QED BY <1>1, <1>2, <1>3, <1>4, <1>5 DEF Sound, w

LEMMA UnstartedSound ==
    ASSUME NEW w \in Works, NEW f \in BOOLEAN, ~f, w.pc \in Unstarted, w.verified < w.revision, w.report = NoReport,
           w.job = "none", w.hand = <<>>, ~w.mutated, ~w.nested
    PROVE  Sound(w, f)
<1>1. w.verified \in Nat /\ w.revision \in Nat BY DEF Works
<1>2. Locals(w, f) BY <1>1 DEF Locals, Unstarted
<1> QED BY <1>2 DEF Sound, Reported, Dirty, Earned, Unstarted

LEMMA NewWork ==
    /\ Sound(NoWork, FALSE) /\ NoWork.pc = "none"
    /\ Sound([NoWork EXCEPT !.pc = "new"], FALSE) /\ [NoWork EXCEPT !.pc = "new"].pc = "new"
<1> DEFINE w == [NoWork EXCEPT !.pc = "new"]
<1>1. /\ w \in Works /\ w.pc = "new" /\ w.report = NoWork.report /\ w.verified = NoWork.verified
      /\ w.revision = NoWork.revision /\ w.hand = NoWork.hand /\ w.mutated = NoWork.mutated
      /\ w.nested = NoWork.nested /\ w.job = NoWork.job
  BY NoWorkIs DEF Works, Pcs
<1> HIDE DEF w
<1>a. w.verified < w.revision /\ NoWork.verified < NoWork.revision BY <1>1, NoWorkIs
<1>2. Sound(w, FALSE) BY <1>1, <1>a, NoWorkIs, UnstartedSound DEF Unstarted
<1>3. Sound(NoWork, FALSE) BY <1>a, NoWorkIs, UnstartedSound DEF Unstarted
<1> QED BY <1>1, <1>2, <1>3, NoWorkIs DEF w

LEMMA BeginStep == ASSUME IInv, Begin PROVE IInv'
<1>1. /\ work.pc = "new" /\ stop' \in {stop, "clear"}
      /\ work' = [work EXCEPT !.pc = "never"] \/ work' = [work EXCEPT !.pc = "load"]
      /\ UNCHANGED <<client, closing, input, waiting, task, log, lost, fresh, silent, published, mishaps>>
  BY DEF Begin, At
<1>2. PICK pc \in {"never", "load"} : work' = [work EXCEPT !.pc = pc] BY <1>1
<1>3. /\ work \in Works /\ work.verified < work.revision /\ ~fresh /\ work.report = NoReport /\ work.job = "none"
      /\ work.hand = <<>> /\ ~work.mutated /\ ~work.nested /\ fresh = FALSE
  BY <1>1 DEF IInv, Sound, Locals, Unstarted
<1> DEFINE w == [work EXCEPT !.pc = pc]
<1>4. /\ w \in Works /\ w.pc = pc /\ w.report = work.report /\ w.verified = work.verified
      /\ w.revision = work.revision /\ w.hand = work.hand /\ w.mutated = work.mutated
      /\ w.nested = work.nested /\ w.job = work.job
  BY <1>3 DEF Works, Pcs, Executing, Ended
<1> HIDE DEF w
<1>5. Sound(w, fresh) BY <1>3, <1>4, UnstartedSound DEF Unstarted
<1>6. work' = w BY <1>2 DEF w
<1>7. TypeOK' BY <1>1, <1>4, <1>6 DEF IInv, TypeOK, input
<1>8. Phases' BY <1>1, <1>4, <1>6 DEF IInv, Phases, TypeOK, Tasks, input
<1>9. SuccessIsEarned' BY <1>1 DEF IInv, SuccessIsEarned
<1> QED BY <1>1, <1>5, <1>6, <1>7, <1>8, <1>9 DEF IInv

\* The queues are of no concern to the invariant.
LEMMA ClientStep ==
    ASSUME IInv, TypeOK', UNCHANGED <<accepting, task, work, fresh, silent, published>>
    PROVE  IInv'
BY DEF IInv, Phases, SuccessIsEarned

LEMMA FollowUpStep == ASSUME IInv, FollowUp PROVE IInv'
<1>1. /\ typed' = typed + 1
      /\ \/ queue' = queue \o Append(pending, typed') /\ pending' = <<>>
         \/ pending' = Append(pending, typed') /\ queue' = queue
      /\ UNCHANGED <<client, closing, accepting, waiting, task, stop, work, log, lost, fresh, silent, published, mishaps>>
  BY DEF FollowUp, Steer
<1>2. TypeOK /\ typed' \in Nat BY <1>1 DEF IInv, TypeOK
<1>3. pending \in Seq(Nat) /\ queue \in Seq(Nat) BY <1>2 DEF TypeOK
<1>4. Append(pending, typed') \in Seq(Nat) BY <1>2, <1>3
<1>5. queue' \in Seq(Nat) /\ pending' \in Seq(Nat)
  <2>1. queue \o Append(pending, typed') \in Seq(Nat) /\ <<>> \in Seq(Nat) BY <1>3, <1>4
  <2> QED BY <1>1, <1>3, <1>4, <2>1
<1>6. TypeOK' BY <1>1, <1>2, <1>5 DEF TypeOK
<1> QED BY <1>1, <1>6, ClientStep

LEMMA SubmitStep == ASSUME IInv, Submit PROVE IInv'
<1>1. /\ pending # <<>> /\ pending' = Tail(pending) /\ waiting' = <<Head(pending)>>
      /\ UNCHANGED <<client, closing, typed, queue, accepting, task, stop, work, log, lost, fresh, silent, published, mishaps>>
  BY DEF Submit
<1>2. TypeOK /\ pending \in Seq(Nat) BY DEF IInv, TypeOK
<1>3. pending' \in Seq(Nat) /\ waiting' \in Seq(Nat) BY <1>1, <1>2
<1>4. TypeOK' BY <1>1, <1>2, <1>3 DEF TypeOK
<1> QED BY <1>1, <1>4, ClientStep

LEMMA AcpPromptStep == ASSUME IInv, AcpPrompt PROVE IInv'
<1>1. /\ typed' = typed + 1
      /\ UNCHANGED <<client, closing, pending, accepting, task, stop, work, log, lost, fresh, silent, published, mishaps>>
  BY DEF AcpPrompt
<1>2. TypeOK /\ typed' \in Nat BY <1>1 DEF IInv, TypeOK
<1>3. queue \in Seq(Nat) /\ waiting \in Seq(Nat) /\ <<typed'>> \in Seq(Nat) BY <1>2 DEF TypeOK
<1>4. queue' \in Seq(Nat) /\ waiting' \in Seq(Nat)
  <2>1. CASE accepting
    <3>1. queue' = queue \o <<typed'>> /\ waiting' = waiting BY <2>1 DEF AcpPrompt, Steer
    <3> QED BY <1>3, <3>1
  <2>2. CASE ~accepting
    <3>1. PICK i \in 0 .. Len(waiting) :
             waiting' = SubSeq(waiting, 1, i) \o <<typed'>> \o SubSeq(waiting, i + 1, Len(waiting))
      BY <2>2 DEF AcpPrompt
    <3>2. SubSeq(waiting, 1, i) \in Seq(Nat) /\ SubSeq(waiting, i + 1, Len(waiting)) \in Seq(Nat) BY <1>3
    <3>3. waiting' \in Seq(Nat) BY <1>3, <3>1, <3>2
    <3> QED BY <1>3, <2>2, <3>3 DEF AcpPrompt
  <2> QED BY <2>1, <2>2
<1>5. TypeOK' BY <1>1, <1>2, <1>4 DEF TypeOK
<1> QED BY <1>1, <1>5, ClientStep

LEMMA SetStopStep == ASSUME IInv, SetStop PROVE IInv'
<1>1. TypeOK' BY DEF IInv, TypeOK, SetStop, Mishap, input
<1> QED BY <1>1, ClientStep DEF SetStop, input

\* A cancellation of the tasks moves the task, or kills the worker.
LEMMA CancelTasksStep == ASSUME IInv, NEW close \in BOOLEAN, CancelTasks(close) PROVE IInv'
<1>1. /\ mishaps' = mishaps + 1 /\ closing' = close /\ task' = Cancelled(task) /\ work' = PassedOn(task, work)
      /\ lost' = lost \cup Prompts(task) \cup {waiting[i] : i \in DOMAIN waiting} /\ waiting' = <<>>
      /\ stop' \in {stop, Set(stop)}
      /\ UNCHANGED <<client, input, log, fresh, silent, published>>
  BY DEF CancelTasks, Mishap
<1>2. TypeOK /\ task \in Tasks /\ waiting \in Seq(Nat) BY DEF IInv, TypeOK
<1>3. Sound(work', fresh) /\ work'.pc = work.pc /\ work' \in Works
  <2>1. work' = work \/ work' = [work EXCEPT !.kill = TRUE] BY <1>1 DEF PassedOn
  <2> QED BY <2>1, KillSound DEF IInv, Sound
<1>4. /\ task' \in Tasks
      /\ task.pc = "lease" => task'.pc = "released" /\ task'.outcome = "cancelled" /\ task'.prompt = 0
      /\ task.pc \in {"join", "reap"} => task'.pc = "reap" /\ task'.prompt = task.prompt
      /\ task.pc \notin {"lease", "join", "reap"} => task' = task
  BY <1>1, <1>2 DEF Cancelled, Join, Tasks
<1>5. lost' \subseteq Nat
  <2>1. Prompts(task) \subseteq Nat BY <1>2 DEF Prompts, Tasks
  <2>2. {waiting[i] : i \in DOMAIN waiting} \subseteq Nat BY <1>2
  <2> QED BY <1>1, <1>2, <2>1, <2>2 DEF TypeOK
<1>6. stop' \in {"none", "clear", "set"} /\ waiting' \in Seq(Nat) /\ mishaps' \in Nat BY <1>1, <1>2 DEF TypeOK, Set
<1>7. TypeOK' BY <1>1, <1>2, <1>3, <1>4, <1>5, <1>6 DEF TypeOK, input
<1>8. Phases'
  <2>1. CASE task.pc = "lease" BY <1>1, <1>3, <1>4, <2>1 DEF IInv, Phases, input
  <2>2. CASE task.pc \in {"join", "reap"} BY <1>1, <1>3, <1>4, <2>2 DEF IInv, Phases, input
  <2>3. CASE task.pc \notin {"lease", "join", "reap"} BY <1>1, <1>3, <1>4, <2>3 DEF IInv, Phases, input
  <2> QED BY <2>1, <2>2, <2>3
<1>9. SuccessIsEarned' BY <1>1 DEF IInv, SuccessIsEarned
<1> QED BY <1>1, <1>3, <1>7, <1>8, <1>9 DEF IInv

LEMMA TakeLockStep == ASSUME IInv, TakeLock PROVE IInv'
<1>1. /\ task = NoTask /\ waiting # <<>> /\ task' = [NoTask EXCEPT !.pc = "lease", !.prompt = Head(waiting)]
      /\ waiting' = Tail(waiting)
      /\ UNCHANGED <<client, closing, input, stop, work, log, lost, fresh, silent, published, mishaps>>
  BY DEF TakeLock
<1>2. TypeOK /\ waiting \in Seq(Nat) BY DEF IInv, TypeOK
<1>3. Head(waiting) \in Nat /\ waiting' \in Seq(Nat) BY <1>1, <1>2
<1>4. task' \in Tasks /\ task'.pc = "lease" BY <1>1, <1>3 DEF NoTask, Tasks
<1>5. task.pc = "idle" BY <1>1 DEF NoTask
<1>6. TypeOK' BY <1>1, <1>2, <1>3, <1>4 DEF TypeOK, input
<1>7. Phases' BY <1>1, <1>4, <1>5 DEF IInv, Phases, input
<1>8. SuccessIsEarned' BY <1>1 DEF IInv, SuccessIsEarned
<1> QED BY <1>1, <1>6, <1>7, <1>8 DEF IInv

LEMMA TakeLeaseStep == ASSUME IInv, TakeLease PROVE IInv'
<1>1. /\ task.pc = "lease"
      /\ UNCHANGED <<client, closing, typed, pending, queue, waiting, stop, log, fresh, silent, published>>
  BY DEF TakeLease
<1>2. TypeOK /\ task \in Tasks /\ work.pc = "none" /\ published = <<>> /\ ~accepting
  BY <1>1 DEF IInv, TypeOK, Phases
<1>3. fresh = FALSE BY <1>2 DEF IInv, Sound, Locals, Unstarted, TypeOK
<1>4. SuccessIsEarned' BY <1>1 DEF IInv, SuccessIsEarned
<1>5. CASE /\ accepting' = TRUE /\ task' = [task EXCEPT !.pc = "join"]
           /\ work' = [NoWork EXCEPT !.pc = "new"] /\ UNCHANGED <<lost, mishaps>>
  <2>1. Sound(work', fresh') /\ work'.pc = "new" BY <1>1, <1>3, <1>5, NewWork
  <2>2. task' \in Tasks /\ task'.pc = "join" BY <1>2, <1>5 DEF Tasks
  <2>3. TypeOK' BY <1>1, <1>2, <1>5, <2>1, <2>2 DEF TypeOK, Sound
  <2>4. Phases' BY <1>1, <1>2, <1>5, <2>1, <2>2 DEF Phases
  <2> QED BY <1>4, <2>1, <2>3, <2>4 DEF IInv
<1>6. CASE /\ Mishap /\ task' = [task EXCEPT !.pc = "released", !.outcome = "refused", !.prompt = 0]
           /\ lost' = lost \cup {task.prompt} /\ UNCHANGED <<accepting, work>>
  <2>1. task' \in Tasks /\ task'.pc = "released" /\ task'.outcome = "refused" /\ task'.prompt = 0
    BY <1>2, <1>6 DEF Tasks
  <2>2. lost' \subseteq Nat /\ mishaps' \in Nat BY <1>2, <1>6 DEF TypeOK, Tasks, Mishap
  <2>3. TypeOK' BY <1>1, <1>2, <1>6, <2>1, <2>2 DEF TypeOK
  <2>4. Phases' BY <1>1, <1>2, <1>6, <2>1 DEF Phases
  <2> QED BY <1>1, <1>4, <1>6, <2>3, <2>4 DEF IInv
<1> QED BY <1>5, <1>6 DEF TakeLease

LEMMA DeadlineStep == ASSUME IInv, Deadline PROVE IInv'
<1>1. /\ task.pc = "join" /\ task' = [Join(task) EXCEPT !.dead = TRUE] /\ work' = PassedOn(task, work)
      /\ stop' = Set(stop)
      /\ UNCHANGED <<client, closing, input, waiting, log, lost, fresh, silent, published, mishaps>>
  BY DEF Deadline
<1>2. TypeOK /\ task \in Tasks BY DEF IInv, TypeOK
<1>3. Sound(work', fresh) /\ work'.pc = work.pc /\ work' \in Works
  <2>1. work' = work \/ work' = [work EXCEPT !.kill = TRUE] BY <1>1 DEF PassedOn
  <2> QED BY <2>1, KillSound DEF IInv, Sound
<1>4. task' \in Tasks /\ task'.pc = "reap" /\ task'.prompt = task.prompt BY <1>1, <1>2 DEF Join, Tasks
<1>5. stop' \in {"none", "clear", "set"} BY <1>1, <1>2 DEF TypeOK, Set
<1>6. TypeOK' BY <1>1, <1>2, <1>3, <1>4, <1>5 DEF TypeOK, input
<1>7. Phases' BY <1>1, <1>3, <1>4 DEF IInv, Phases, input
<1>8. SuccessIsEarned' BY <1>1 DEF IInv, SuccessIsEarned
<1> QED BY <1>1, <1>3, <1>6, <1>7, <1>8 DEF IInv

LEMMA ResumeStep == ASSUME IInv, Resume PROVE IInv'
<1>1. /\ task.pc \in {"join", "reap"} /\ work.pc \in {"done", "failed"}
      /\ task' = [task EXCEPT !.pc = "release", !.outcome = IF work.pc = "done" THEN "result" ELSE "failed"]
      /\ UNCHANGED <<client, closing, input, waiting, stop, work, log, lost, fresh, silent, published, mishaps>>
  BY DEF Resume
<1>2. TypeOK /\ task \in Tasks BY DEF IInv, TypeOK
<1>3. /\ task' \in Tasks /\ task'.pc = "release" /\ task'.prompt = task.prompt
      /\ task'.outcome = IF work.pc = "done" THEN "result" ELSE "failed"
  BY <1>1, <1>2 DEF Tasks
<1>4. TypeOK' BY <1>1, <1>2, <1>3 DEF TypeOK, input
<1>5. Phases' BY <1>1, <1>3 DEF IInv, Phases, input
<1>6. SuccessIsEarned' BY <1>1 DEF IInv, SuccessIsEarned
<1> QED BY <1>1, <1>4, <1>5, <1>6 DEF IInv

\* The task publishes for a worker that never started; nothing else has published.
LEMMA FallbackStep == ASSUME IInv, Fallback PROVE IInv'
<1> DEFINE x == Result(Why(task), Missing(MarkIncomplete(Clean, FALSE)), "summary")
<1>1. /\ task.pc = "reap" /\ work.pc = "never" /\ published' = Append(published, x) /\ stop' = "none"
      /\ task' = [task EXCEPT !.pc = "release", !.outcome = "result", !.prompt = 0]
      /\ lost' = lost \cup {task.prompt}
      /\ UNCHANGED <<client, closing, input, waiting, work, log, fresh, silent, mishaps>>
  BY DEF Fallback
<1>2. TypeOK /\ task \in Tasks /\ published = <<>> BY <1>1 DEF IInv, TypeOK, Phases
<1>3. x \in Results /\ x.reason # "end_turn"
  BY <1>2 DEF Result, Results, Why, Reasons, Missing, Report, Reports, MarkIncomplete, Clean, Texts, TypeOK
<1> HIDE DEF x
<1>4. published' = <<x>> /\ published' \in Seq(Results) /\ Len(published') = 1 /\ published' # <<>>
  BY <1>1, <1>2, <1>3
<1>5. task' \in Tasks /\ task'.pc = "release" /\ task'.outcome = "result" /\ task'.prompt = 0
  BY <1>1, <1>2 DEF Tasks
<1>6. lost' \subseteq Nat BY <1>1, <1>2 DEF TypeOK, Tasks
<1>7. TypeOK' BY <1>1, <1>2, <1>4, <1>5, <1>6 DEF TypeOK, input
<1>8. Phases' BY <1>1, <1>4, <1>5 DEF IInv, Phases, input
<1>9. SuccessIsEarned' BY <1>3, <1>4 DEF SuccessIsEarned
<1> QED BY <1>1, <1>7, <1>8, <1>9 DEF IInv

LEMMA ReleaseStep == ASSUME IInv, Release PROVE IInv'
<1>1. /\ task.pc = "release"
      /\ \/ accepting' = FALSE /\ task' = task
         \/ ~accepting /\ accepting' = accepting /\ task' = [task EXCEPT !.pc = "released"]
      /\ UNCHANGED <<client, closing, typed, pending, queue, waiting, stop, work, log, lost, fresh, silent, published, mishaps>>
  BY DEF Release
<1>2. TypeOK /\ task \in Tasks BY DEF IInv, TypeOK
<1>3. /\ task' \in Tasks /\ task'.outcome = task.outcome /\ task'.prompt = task.prompt
      /\ task'.pc \in {"release", "released"} /\ (accepting' => task'.pc = "release") /\ accepting' \in BOOLEAN
  <2>1. CASE accepting' = FALSE /\ task' = task BY <1>1, <1>2, <2>1
  <2>2. CASE ~accepting /\ accepting' = accepting /\ task' = [task EXCEPT !.pc = "released"]
    <3>1. /\ task' \in Tasks /\ task'.outcome = task.outcome /\ task'.prompt = task.prompt
          /\ task'.pc = "released"
      BY <1>2, <2>2 DEF Tasks
    <3> QED BY <1>2, <2>2, <3>1 DEF TypeOK
  <2> QED BY <1>1, <2>1, <2>2
<1>4. TypeOK' BY <1>1, <1>2, <1>3 DEF TypeOK
<1>5. Phases' BY <1>1, <1>3 DEF IInv, Phases
<1>6. SuccessIsEarned' BY <1>1 DEF IInv, SuccessIsEarned
<1> QED BY <1>1, <1>4, <1>5, <1>6 DEF IInv

LEMMA CollectStep == ASSUME IInv, Collect PROVE IInv'
<1>1. /\ task.pc = "released" /\ task' = NoTask /\ work' = NoWork /\ published' = <<>> /\ fresh' = FALSE /\ silent' = FALSE
      /\ UNCHANGED <<client, closing, typed, accepting, waiting, stop, log, lost, mishaps>>
  BY DEF Collect
<1>2. TypeOK /\ ~accepting BY <1>1 DEF IInv, Phases
<1>3. queue' \in Seq(Nat) /\ pending' \in Seq(Nat)
  <2>1. queue \in Seq(Nat) /\ pending \in Seq(Nat) BY <1>2 DEF TypeOK
  <2>2. queue \o pending \in Seq(Nat) BY <2>1
  <2>3. \/ pending' = queue \o pending /\ queue' = <<>>
        \/ pending' = pending /\ queue' = queue
    BY DEF Collect, Reclaimed
  <2>4. <<>> \in Seq(Nat) OBVIOUS
  <2> QED BY <2>1, <2>2, <2>3, <2>4
<1>4. task' \in Tasks /\ task'.pc = "idle" /\ task'.prompt = 0 BY <1>1 DEF NoTask, Tasks
<1>5. Sound(work', fresh') /\ work'.pc = "none" BY <1>1, NewWork
<1>a. published' \in Seq(Results) BY <1>1
<1>b. work' \in Works BY <1>5 DEF Sound
<1>6. TypeOK' BY <1>1, <1>2, <1>3, <1>4, <1>a, <1>b DEF TypeOK
<1>7. Phases' BY <1>1, <1>2, <1>4, <1>5 DEF Phases
<1>8. SuccessIsEarned' BY <1>1 DEF SuccessIsEarned
<1> QED BY <1>5, <1>6, <1>7, <1>8 DEF IInv

-----------------------------------------------------------------------------
(* Theorems                                                                 *)

LEMMA InitIInv == Init => IInv
<1> SUFFICES ASSUME Init PROVE IInv OBVIOUS
<1>1. /\ task = NoTask /\ work = NoWork /\ published = <<>> /\ fresh = FALSE /\ accepting = FALSE BY DEF Init
<1>2. task \in Tasks /\ task.pc = "idle" /\ task.prompt = 0 BY <1>1 DEF NoTask, Tasks
<1>3. Sound(work, fresh) /\ work.pc = "none" BY <1>1, NewWork
<1>a. <<>> \in Seq(Nat) /\ <<>> \in Seq(Results) OBVIOUS
<1>4. TypeOK BY <1>1, <1>2, <1>3, <1>a DEF Init, TypeOK, Sound
<1>5. Phases BY <1>1, <1>2, <1>3 DEF Phases
<1>6. SuccessIsEarned BY <1>1 DEF SuccessIsEarned
<1> QED BY <1>3, <1>4, <1>5, <1>6 DEF IInv

LEMMA StepIInv == IInv /\ [Next]_vars => IInv'
<1> SUFFICES ASSUME IInv, [Next]_vars PROVE IInv' OBVIOUS
<1>1. ASSUME Client PROVE IInv'
  BY <1>1, FollowUpStep, SubmitStep, AcpPromptStep, SetStopStep, CancelTasksStep DEF Client
<1>2. ASSUME Task PROVE IInv'
  BY <1>2, TakeLockStep, TakeLeaseStep, DeadlineStep, ResumeStep, FallbackStep, ReleaseStep, CollectStep DEF Task
<1>3. ASSUME Execution PROVE IInv'
  BY <1>3, BeginStep, LoadStep, InterruptStep, SeeStopStep, StartTurnStep, SettleStep, RunToolStep,
     BatchEndsStep, TakePromptStep, StorePromptStep, DrainedStep, VerifyStep DEF Execution
<1>4. ASSUME Model PROVE IInv'
  BY <1>4, InvalidStep, IncompleteStep, AnswerStep, CallsStep, FailStep DEF Model
<1>5. ASSUME Job PROVE IInv' BY <1>5, JobWritesStep, JobEndsStep DEF Job
<1>6. ASSUME Terminate PROVE IInv'
  BY <1>6, CloseStep, VerifyExitStep, OutputStep, LastDrainedStep, IdleStep, CompleteStep DEF Terminate
<1>7. ASSUME StoreFails PROVE IInv' BY <1>7, StoreFailsStep
<1>8. ASSUME UNCHANGED vars PROVE IInv'
  BY <1>8 DEF vars, input, IInv, TypeOK, Sound, Phases, SuccessIsEarned
<1> QED BY <1>1, <1>2, <1>3, <1>4, <1>5, <1>6, <1>7, <1>8 DEF Next

\* Every local of the client, the task and the worker keeps its type.
THEOREM TypeCorrect == Spec => []TypeOK
<1>1. IInv => TypeOK BY DEF IInv
<1> QED BY <1>1, InitIInv, StepIInv, PTL DEF Spec

\* The caller gets a result exactly if one was published, and it is the only one,
\* however often and wherever the caller, the task and the worker are cancelled.
THEOREM OneResult == Spec => []ResultStands
<1>1. IInv => ResultStands BY DEF IInv, Phases, ResultStands
<1> QED BY <1>1, InitIInv, StepIInv, PTL DEF Spec

\* No run ends its turn with changes that no verification has seen, or lets an answer
\* of the model stand for a verification that failed.
THEOREM SuccessEarned == Spec => []SuccessIsEarned
<1>1. IInv => SuccessIsEarned BY DEF IInv
<1> QED BY <1>1, InitIInv, StepIInv, PTL DEF Spec

-----------------------------------------------------------------------------
(* The prompts                                                              *)

Elements(s) == {s[i] : i \in DOMAIN s}

\* What the order of two prompts has to be, for a shell and for ACP; of the prompts of
\* a sequence; and of two sequences, one behind the other.
InOrder(x, y) == IF client = "shell" THEN x < y ELSE x # y
Chain(s) == \A i, k \in DOMAIN s : i < k => InOrder(s[i], s[k])
Before(A, B) == \A x \in A, y \in B : InOrder(x, y)

Ordered(a, b, c, d, e) ==
    /\ Chain(a) /\ Chain(b) /\ Chain(c) /\ Chain(d) /\ Chain(e)
    /\ Before(Elements(a), Elements(b)) /\ Before(Elements(a), Elements(c)) /\ Before(Elements(a), Elements(d))
    /\ Before(Elements(a), Elements(e)) /\ Before(Elements(b), Elements(c)) /\ Before(Elements(b), Elements(d))
    /\ Before(Elements(b), Elements(e)) /\ Before(Elements(c), Elements(d)) /\ Before(Elements(c), Elements(e))
    /\ Before(Elements(d), Elements(e))

\* Every prompt is somewhere, or lost, and those that are somewhere are in their order.
Kept ==
    /\ lost \subseteq 1 .. typed
    /\ Elements(log) \cup Elements(waiting) \cup Elements(Held) \cup Elements(queue) \cup Elements(pending)
          = (1 .. typed) \ lost
    /\ Ordered(log, waiting, Held, queue, pending)

\* Which lines are empty, which is what keeps the order when a prompt moves from one to
\* the next; and where the task still has its prompt.
Lines ==
    /\ client = "shell" /\ task.pc \in {"idle", "lease"} => queue = <<>>
    /\ client = "shell" /\ task.pc # "idle" => waiting = <<>>
    /\ client = "shell" => Len(waiting) <= 1
    /\ client = "acp" => pending = <<>>
    /\ task.pc = "lease" \/ (task.pc \in {"join", "reap"} /\ work.pc \in {"new", "load", "never"}) =>
          task.prompt # 0

KInv == IInv /\ Kept /\ Lines

LEMMA EmptyIs == Elements(<<>>) = {} /\ Chain(<<>>)
BY DEF Elements, Chain

LEMMA SingleIs == ASSUME NEW x \in Nat PROVE Elements(<<x>>) = {x} /\ Chain(<<x>>)
BY DEF Elements, Chain

LEMMA CatIs ==
    ASSUME NEW s \in Seq(Nat), NEW t \in Seq(Nat)
    PROVE  /\ s \o t \in Seq(Nat)
           /\ Elements(s \o t) = Elements(s) \cup Elements(t)
           /\ Chain(s) /\ Chain(t) /\ Before(Elements(s), Elements(t)) => Chain(s \o t)
<1> DEFINE r == s \o t
<1>1. r \in Seq(Nat) /\ Len(r) = Len(s) + Len(t) /\ Len(s) \in Nat /\ Len(t) \in Nat OBVIOUS
<1>2. \A i \in 1 .. Len(r) : r[i] = IF i <= Len(s) THEN s[i] ELSE t[i - Len(s)] OBVIOUS
<1>3. DOMAIN r = 1 .. Len(r) /\ DOMAIN s = 1 .. Len(s) /\ DOMAIN t = 1 .. Len(t) BY <1>1
<1> HIDE DEF r
<1>4. Elements(r) \subseteq Elements(s) \cup Elements(t)
  <2>1. SUFFICES ASSUME NEW i \in 1 .. Len(r) PROVE r[i] \in Elements(s) \cup Elements(t) BY <1>3 DEF Elements
  <2>2. CASE i <= Len(s)
    <3>1. i \in DOMAIN s /\ r[i] = s[i] BY <1>1, <1>2, <1>3, <2>2
    <3> QED BY <3>1 DEF Elements
  <2>3. CASE i > Len(s)
    <3>1. i - Len(s) \in DOMAIN t /\ r[i] = t[i - Len(s)] BY <1>1, <1>2, <1>3, <2>3
    <3> QED BY <3>1 DEF Elements
  <2> QED BY <1>1, <2>2, <2>3
<1>5. Elements(s) \subseteq Elements(r)
  <2>1. ASSUME NEW i \in DOMAIN s PROVE i \in DOMAIN r /\ r[i] = s[i] BY <1>1, <1>2, <1>3
  <2> QED BY <2>1 DEF Elements
<1>6. Elements(t) \subseteq Elements(r)
  <2>1. ASSUME NEW i \in 1 .. Len(t) PROVE i + Len(s) \in 1 .. Len(r) /\ r[i + Len(s)] = t[i]
    <3>1. i + Len(s) \in 1 .. Len(r) /\ ~(i + Len(s) <= Len(s)) /\ (i + Len(s)) - Len(s) = i BY <1>1
    <3> QED BY <1>2, <3>1
  <2> QED BY <1>3, <2>1 DEF Elements
<1>7. ASSUME Chain(s), Chain(t), Before(Elements(s), Elements(t)),
             NEW i \in 1 .. Len(r), NEW k \in 1 .. Len(r), i < k
      PROVE  InOrder(r[i], r[k])
  <2>1. CASE k <= Len(s)
    <3>1. i \in DOMAIN s /\ k \in DOMAIN s /\ r[i] = s[i] /\ r[k] = s[k] BY <1>1, <1>2, <1>3, <1>7, <2>1
    <3> QED BY <1>7, <3>1 DEF Chain
  <2>2. CASE i > Len(s)
    <3>1. i - Len(s) \in DOMAIN t /\ k - Len(s) \in DOMAIN t /\ i - Len(s) < k - Len(s) BY <1>1, <1>3, <1>7, <2>2
    <3>2. ~(i <= Len(s)) /\ ~(k <= Len(s)) BY <1>1, <1>7, <2>2
    <3>3. r[i] = t[i - Len(s)] /\ r[k] = t[k - Len(s)] BY <1>2, <3>2
    <3> QED BY <1>7, <3>1, <3>3 DEF Chain
  <2>3. CASE i <= Len(s) /\ k > Len(s)
    <3>1. i \in DOMAIN s /\ k - Len(s) \in DOMAIN t BY <1>1, <1>3, <1>7, <2>3
    <3>2. r[i] = s[i] /\ r[k] = t[k - Len(s)] BY <1>1, <1>2, <1>7, <2>3
    <3>3. r[i] \in Elements(s) /\ r[k] \in Elements(t) BY <3>1, <3>2 DEF Elements
    <3> QED BY <1>7, <3>3 DEF Before
  <2> QED BY <1>1, <1>7, <2>1, <2>2, <2>3
<1>8. Chain(s) /\ Chain(t) /\ Before(Elements(s), Elements(t)) => Chain(r) BY <1>3, <1>7 DEF Chain
<1> QED BY <1>1, <1>4, <1>5, <1>6, <1>8 DEF r

\* A part of a sequence, and the part behind it.
LEMMA SplitIs ==
    ASSUME NEW s \in Seq(Nat), NEW i \in 0 .. Len(s)
    PROVE  LET a == SubSeq(s, 1, i)
               b == SubSeq(s, i + 1, Len(s))
           IN  /\ a \in Seq(Nat) /\ b \in Seq(Nat) /\ Elements(s) = Elements(a) \cup Elements(b)
               /\ Chain(s) => Chain(a) /\ Chain(b) /\ Before(Elements(a), Elements(b))
<1> DEFINE a == SubSeq(s, 1, i)
           b == SubSeq(s, i + 1, Len(s))
<1>1. a \in Seq(Nat) /\ Len(a) = i /\ b \in Seq(Nat) /\ Len(b) = Len(s) - i OBVIOUS
<1>2. \A k \in 1 .. i : a[k] = s[k] OBVIOUS
<1>3. \A k \in 1 .. (Len(s) - i) : b[k] = s[i + k] OBVIOUS
<1>4. DOMAIN a = 1 .. i /\ DOMAIN b = 1 .. (Len(s) - i) /\ DOMAIN s = 1 .. Len(s) BY <1>1
<1> HIDE DEF a, b
<1>5. Elements(a) \subseteq Elements(s) BY <1>2, <1>4 DEF Elements
<1>6. Elements(b) \subseteq Elements(s)
  <2>1. ASSUME NEW k \in 1 .. (Len(s) - i) PROVE i + k \in 1 .. Len(s) /\ b[k] = s[i + k] BY <1>3
  <2> QED BY <1>4, <2>1 DEF Elements
<1>7. Elements(s) \subseteq Elements(a) \cup Elements(b)
  <2>1. SUFFICES ASSUME NEW k \in 1 .. Len(s) PROVE s[k] \in Elements(a) \cup Elements(b) BY <1>4 DEF Elements
  <2>2. CASE k <= i BY <1>2, <1>4, <2>2 DEF Elements
  <2>3. CASE k > i
    <3>1. k - i \in DOMAIN b /\ b[k - i] = s[k] BY <1>3, <1>4, <2>3
    <3> QED BY <3>1 DEF Elements
  <2> QED BY <2>2, <2>3
<1>8. ASSUME Chain(s) PROVE Chain(a) /\ Chain(b) /\ Before(Elements(a), Elements(b))
  <2>1. Chain(a) BY <1>2, <1>4, <1>8 DEF Chain
  <2>2. Chain(b)
    <3>1. ASSUME NEW k \in DOMAIN b, NEW m \in DOMAIN b, k < m PROVE InOrder(b[k], b[m])
      <4>1. i + k \in DOMAIN s /\ i + m \in DOMAIN s /\ i + k < i + m BY <1>4, <3>1
      <4>2. b[k] = s[i + k] /\ b[m] = s[i + m] BY <1>3, <1>4
      <4> QED BY <1>8, <4>1, <4>2 DEF Chain
    <3> QED BY <3>1 DEF Chain
  <2>3. Before(Elements(a), Elements(b))
    <3>1. ASSUME NEW k \in DOMAIN a, NEW m \in DOMAIN b PROVE InOrder(a[k], b[m])
      <4>1. k \in DOMAIN s /\ i + m \in DOMAIN s /\ k < i + m BY <1>4
      <4>2. a[k] = s[k] /\ b[m] = s[i + m] BY <1>2, <1>3, <1>4
      <4> QED BY <1>8, <4>1, <4>2 DEF Chain
    <3> QED BY <3>1 DEF Before, Elements
  <2> QED BY <2>1, <2>2, <2>3
<1> QED BY <1>1, <1>5, <1>6, <1>7, <1>8 DEF a, b

LEMMA HeadIs ==
    ASSUME NEW s \in Seq(Nat), s # <<>>
    PROVE  /\ Head(s) \in Nat /\ Tail(s) \in Seq(Nat)
           /\ Elements(s) = {Head(s)} \cup Elements(Tail(s))
           /\ Chain(s) => Chain(Tail(s)) /\ Before({Head(s)}, Elements(Tail(s)))
<1>1. Len(s) \in Nat /\ Len(s) # 0 /\ Head(s) = s[1] /\ Head(s) \in Nat OBVIOUS
<1>2. Tail(s) \in Seq(Nat) /\ Len(Tail(s)) = Len(s) - 1 /\ \A i \in 1 .. Len(s) - 1 : Tail(s)[i] = s[i + 1] OBVIOUS
<1>3. DOMAIN s = 1 .. Len(s) /\ DOMAIN Tail(s) = 1 .. Len(s) - 1 BY <1>1, <1>2
<1> DEFINE t == Tail(s)
<1> HIDE DEF t
<1>4. Elements(t) \subseteq Elements(s)
  <2>1. ASSUME NEW i \in DOMAIN t PROVE i + 1 \in DOMAIN s /\ t[i] = s[i + 1] BY <1>1, <1>2, <1>3 DEF t
  <2> QED BY <2>1 DEF Elements
<1>5. Elements(s) \subseteq {Head(s)} \cup Elements(t)
  <2>1. SUFFICES ASSUME NEW i \in DOMAIN s, i # 1 PROVE s[i] \in Elements(t) BY <1>1 DEF Elements
  <2>2. i - 1 \in DOMAIN t /\ t[i - 1] = s[(i - 1) + 1] /\ (i - 1) + 1 = i BY <1>1, <1>2, <1>3, <2>1 DEF t
  <2> QED BY <2>2 DEF Elements
<1>6. Head(s) \in Elements(s) BY <1>1, <1>3 DEF Elements
<1>7. ASSUME Chain(s) PROVE Chain(t) /\ Before({Head(s)}, Elements(t))
  <2>1. ASSUME NEW i \in DOMAIN t, NEW k \in DOMAIN t, i < k PROVE InOrder(t[i], t[k])
    <3>1. i + 1 \in DOMAIN s /\ k + 1 \in DOMAIN s /\ i + 1 < k + 1 BY <1>1, <1>2, <1>3, <2>1, SMTT(30) DEF t
    <3>2. t[i] = s[i + 1] /\ t[k] = s[k + 1] BY <1>2, <1>3 DEF t
    <3> QED BY <1>7, <3>1, <3>2 DEF Chain
  <2>2. ASSUME NEW k \in DOMAIN t PROVE InOrder(s[1], t[k])
    <3>1. 1 \in DOMAIN s /\ k + 1 \in DOMAIN s /\ 1 < k + 1 BY <1>1, <1>2, <1>3 DEF t
    <3>2. t[k] = s[k + 1] BY <1>2, <1>3 DEF t
    <3> QED BY <1>7, <3>1, <3>2 DEF Chain
  <2> QED BY <1>1, <2>1, <2>2 DEF Chain, Before, Elements
<1> QED BY <1>1, <1>2, <1>4, <1>5, <1>6, <1>7 DEF t

\* What has left the queue or the caller: the prompt of the task, or what is in the hand
\* of the worker.
LEMMA HeldIs ==
    ASSUME IInv
    PROVE  /\ Held \in Seq(Nat) /\ Missed = Elements(Held) /\ work.hand \in Seq(Nat) /\ task.prompt \in Nat
           /\ task.prompt # 0 => Held = <<task.prompt>> /\ work.hand = <<>> /\ task.pc # "idle"
           /\ task.prompt = 0 => Held = work.hand
           /\ work.hand # <<>> => work.pc \in {"drain", "last"}
           /\ work.pc \in {"drain", "last"} => task.pc \in {"join", "reap"} /\ task.prompt = 0
<1>1. TypeOK /\ work.hand \in Seq(Nat) /\ task.prompt \in Nat /\ task \in Tasks BY DEF IInv, TypeOK, Works, Tasks
<1>2. work.hand # <<>> => work.pc \in {"drain", "last"} BY DEF IInv, Sound, Locals
<1>3. work.pc \in {"drain", "last"} => task.pc \in {"join", "reap"} /\ task.prompt = 0
  BY <1>1 DEF IInv, Phases, Tasks
<1>4. task.prompt # 0 => work.hand = <<>> /\ task.pc # "idle" BY <1>2, <1>3 DEF IInv, Phases
<1>5. task.prompt = 0 => Held = work.hand BY <1>1 DEF Held
<1>6. task.prompt # 0 => Held = <<task.prompt>>
  <2>1. <<task.prompt>> \in Seq(Nat) BY <1>1
  <2>2. <<>> \o <<task.prompt>> = <<task.prompt>> BY <2>1, ConcatEmptySeq
  <2> QED BY <1>4, <2>2 DEF Held
<1>7. Held \in Seq(Nat) BY <1>1, Prompted
<1>8. Missed = Elements(Held) BY DEF Missed, Elements
<1> QED BY <1>1, <1>2, <1>3, <1>4, <1>5, <1>6, <1>7, <1>8

LEMMA HeldNext ==
    ASSUME IInv'
    PROVE  /\ Held' \in Seq(Nat)
           /\ task'.prompt # 0 => Held' = <<task'.prompt>> /\ work'.hand = <<>>
           /\ task'.prompt = 0 => Held' = work'.hand
<1>1. TypeOK' /\ work'.hand \in Seq(Nat) /\ task'.prompt \in Nat /\ task' \in Tasks BY DEF IInv, TypeOK, Works, Tasks
<1>2. work'.hand # <<>> => work'.pc \in {"drain", "last"} BY DEF IInv, Sound, Locals
<1>3. work'.pc \in {"drain", "last"} => task'.prompt = 0
  BY <1>1 DEF IInv, Phases, Tasks
<1>4. task'.prompt # 0 => work'.hand = <<>> /\ task'.pc # "idle" BY <1>2, <1>3 DEF IInv, Phases
<1>5. task'.prompt = 0 => Held' = work'.hand BY <1>1 DEF Held
<1>6. task'.prompt # 0 => Held' = <<task'.prompt>>
  <2>1. <<task'.prompt>> \in Seq(Nat) BY <1>1
  <2>2. <<>> \o <<task'.prompt>> = <<task'.prompt>> BY <2>1, ConcatEmptySeq
  <2> QED BY <1>4, <2>2 DEF Held
<1>7. Held' \in Seq(Nat)
  <2>1. <<task'.prompt>> \in Seq(Nat) BY <1>1
  <2> QED BY <1>1, <1>5, <1>6, <2>1
<1> QED BY <1>4, <1>5, <1>6, <1>7

\* Most steps move no prompt.
LEMMA StillStep ==
    ASSUME KInv, IInv', UNCHANGED <<client, typed, pending, queue, waiting, log, lost>>,
           work'.hand = work.hand, task'.prompt = task.prompt,
           client = "shell" => (task'.pc \in {"idle", "lease"} => queue = <<>>) /\ (task'.pc # "idle" => waiting = <<>>),
           task'.pc = "lease" \/ (task'.pc \in {"join", "reap"} /\ work'.pc \in {"new", "load", "never"}) =>
              task.prompt # 0
    PROVE  Kept' /\ Lines'
<1>1. Held' = Held BY HeldIs, HeldNext DEF KInv
<1>2. Elements(Held)' = Elements(Held) /\ Elements(log)' = Elements(log) /\ Elements(waiting)' = Elements(waiting)
      /\ Elements(queue)' = Elements(queue) /\ Elements(pending)' = Elements(pending)
  BY <1>1 DEF Elements
<1>3. Kept' BY <1>1, <1>2 DEF KInv, Kept, Ordered, Chain, Before, InOrder
<1>4. Lines' BY DEF KInv, Lines
<1> QED BY <1>3, <1>4

\* A step of the worker that leaves its hand alone, and does not go back.
LEMMA PrivateStep ==
    ASSUME KInv, IInv', UNCHANGED <<client, typed, pending, queue, waiting, task, log, lost>>,
           work'.hand = work.hand,
           work'.pc \in {"new", "load", "never"} => work.pc \in {"new", "load", "never"}
    PROVE  Kept' /\ Lines'
<1>1. client = "shell" => (task'.pc \in {"idle", "lease"} => queue = <<>>) /\ (task'.pc # "idle" => waiting = <<>>)
  BY DEF KInv, Lines
<1>2. task'.pc = "lease" \/ (task'.pc \in {"join", "reap"} /\ work'.pc \in {"new", "load", "never"}) => task.prompt # 0
  BY DEF KInv, Lines
<1> QED BY <1>1, <1>2, StillStep

LEMMA RaisedIs ==
    ASSUME NEW w \in Works, NEW reason \in Reasons
    PROVE  Raised(w, reason).pc = "close" /\ Raised(w, reason).hand = <<>>
<1>1. w.nested \in BOOLEAN BY DEF Works
<1>2. Counted(w, w.nested) \in Works BY <1>1, CountedIs
<1> QED BY <1>2, EndingIs DEF Raised

\* Of the locals of the worker, what matters to the prompts.
Moves(w) == w.hand = work.hand /\ w.pc \notin {"new", "load", "never"}

LEMMA ModelMoves == ASSUME IInv, Model PROVE Moves(work')
<1>1. work.pc \in {"ask", "batch"} BY DEF Model, Invalid, Incomplete, Answer, Calls, Fail, Runs, At
<1>2. work \in Works /\ work.hand = <<>> BY <1>1, AtWork DEF Executing
<1>3. \A reason \in Reasons : Moves(Raised(work, reason)) BY <1>2, RaisedIs DEF Moves
<1>4. "budget" \in Reasons /\ "max_turns" \in Reasons /\ "stuck" \in Reasons /\ "error" \in Reasons BY DEF Reasons
<1>5. Moves(Rejected)
  <2>1. CASE Last(work) \/ work.invalid >= 2 BY <1>3, <1>4, <2>1 DEF Rejected
  <2>2. CASE ~(Last(work) \/ work.invalid >= 2) BY <1>2, <2>2 DEF Rejected, Works, Moves
  <2> QED BY <2>1, <2>2
<1>6. CASE Invalid BY <1>5, <1>6 DEF Invalid
<1>7. CASE Incomplete
  <2>1. CASE Last(work) BY <1>3, <1>4, <1>7, <2>1 DEF Incomplete
  <2>2. CASE ~Last(work) BY <1>2, <1>7, <2>2 DEF Incomplete, Works, Moves
  <2> QED BY <2>1, <2>2
<1>8. CASE Answer BY <1>2, <1>8 DEF Answer, Works, Moves
<1>9. CASE Calls
  <2>1. PICK batch \in Batches : work' = IF Last(work) THEN Raised(work, "max_turns")
                                         ELSE IF ToolsOff THEN Rejected ELSE Admitted(work, batch)
    BY <1>9 DEF Calls
  <2>2. Moves(Admitted(work, batch))
    <3>1. CASE Repeated(work, batch) > MaxRepeated BY <1>3, <1>4, <3>1 DEF Admitted
    <3>2. CASE ~(Repeated(work, batch) > MaxRepeated) BY <1>2, <3>2 DEF Admitted, Works, Moves
    <3> QED BY <3>1, <3>2
  <2>3. CASE Last(work) BY <1>3, <1>4, <2>1, <2>3
  <2>4. CASE ~Last(work) BY <1>5, <2>1, <2>2, <2>4
  <2> QED BY <2>3, <2>4
<1>10. CASE Fail BY <1>3, <1>4, <1>10 DEF Fail, Raise
<1> QED BY <1>6, <1>7, <1>8, <1>9, <1>10 DEF Model

LEMMA ConsideredMoves == ASSUME IInv, Drained PROVE Moves(work')
<1>1. work.pc = "drain" /\ work.hand = <<>> /\ work \in Works BY AtWork DEF Drained, Runs, At, Executing
<1>2. work.after \in {"incomplete", "answer", "batch"} BY <1>1 DEF IInv, Sound, Locals
<1> DEFINE w == [work EXCEPT !.pc = "turn", !.steered = FALSE]
<1>3. w \in Works /\ w.hand = <<>> /\ w.pc = "turn" BY <1>1 DEF Works, Pcs, Executing
<1>4. /\ work.after = "incomplete" => work' = [w EXCEPT !.invalid = IF work.steered THEN 0 ELSE 1]
      /\ work.after = "answer" /\ work.steered => work' = [w EXCEPT !.finalizing = FALSE, !.safe = FALSE]
      /\ work.after = "answer" /\ ~work.steered => work' = Considered(w)
      /\ work.after = "batch" => work' = w
  BY DEF Drained
<1> HIDE DEF w
<1>5. CASE work.after = "incomplete" BY <1>1, <1>3, <1>4, <1>5 DEF Works, Moves
<1>6. CASE work.after = "answer" /\ work.steered BY <1>1, <1>3, <1>4, <1>6, ZenonT(60) DEF Works, Moves
<1>7. CASE work.after = "batch" BY <1>1, <1>3, <1>4, <1>7 DEF Moves
<1>8. CASE work.after = "answer" /\ ~work.steered
  <2>1. CASE Needed(w) BY <1>1, <1>3, <1>4, <1>8, <2>1 DEF Considered, Works, Moves
  <2>2. CASE ~Needed(w)
    <3> DEFINE x == IF w.awaiting \/ w.finalizing THEN Answered(w) ELSE [w EXCEPT !.safe = FALSE]
    <3>1. work' = Ending(x, "end_turn") BY <1>4, <1>8, <2>2 DEF Considered
    <3>2. x \in Works
      <4>1. [w EXCEPT !.safe = FALSE] \in Works BY <1>3 DEF Works
      <4> QED BY <1>3, <4>1, AnsweredIs
    <3> HIDE DEF x
    <3>3. "end_turn" \in Reasons BY DEF Reasons
    <3> QED BY <1>1, <3>1, <3>2, <3>3, EndingIs DEF Moves
  <2> QED BY <2>1, <2>2
<1> QED BY <1>2, <1>5, <1>6, <1>7, <1>8

LEMMA ConcludedMoves == ASSUME IInv, Verify PROVE Moves(work')
<1>1. work.pc = "verify" /\ work.hand = <<>> /\ work \in Works BY AtWork DEF Verify, Runs, At, Executing
<1>2. PICK verdicts \in [1 .. Roots -> Verdicts] : work' = Concluded(Check(work, verdicts)) BY DEF Verify
<1> DEFINE y == Check(work, verdicts)
           told == [y EXCEPT !.text = "summary", !.safe = FALSE]
<1>3. y \in Works /\ y.hand = <<>> BY <1>1, CheckIs
<1>4. work' = Concluded(y) BY <1>2
<1> HIDE DEF y
<1>5. told \in Works /\ told.hand = <<>> BY <1>3 DEF Works, Texts
<1>6. Answered(y) \in Works BY <1>3, AnsweredIs
<1>7. \A x \in Works, reason \in Reasons : Moves(Ending(x, reason)) BY <1>1, EndingIs DEF Moves
<1>8. "end_turn" \in Reasons /\ "max_turns" \in Reasons BY DEF Reasons
<1>9. \/ work' = Ending(Answered(y), "end_turn") \/ work' = Ending(told, "end_turn") \/ work' = Ending(told, "max_turns")
      \/ \E n, p, q : work' = [told EXCEPT !.pc = "turn", !.repairs = n, !.awaiting = p, !.finalizing = q]
  BY <1>4, <1>5 DEF Concluded
<1> HIDE DEF told
<1>10. ASSUME NEW n, NEW p, NEW q, work' = [told EXCEPT !.pc = "turn", !.repairs = n, !.awaiting = p, !.finalizing = q]
       PROVE  Moves(work')
  BY <1>1, <1>5, <1>10 DEF Works, Moves
<1> QED BY <1>5, <1>6, <1>7, <1>8, <1>9, <1>10

LEMMA ExecutionMoves ==
    ASSUME IInv, SeeStop \/ StartTurn \/ Settle \/ RunTool \/ BatchEnds
    PROVE  Moves(work')
<1>1. work.pc \in {"turn", "ask", "settle", "verify", "batch"}
  BY DEF SeeStop, StartTurn, Settle, RunTool, BatchEnds, Runs, At
<1>2. work \in Works /\ work.hand = <<>> /\ work.pc \in Executing BY <1>1, AtWork DEF Executing
<1>3. \A reason \in Reasons : Moves(Raised(work, reason)) BY <1>2, RaisedIs DEF Moves
<1>4. Notified(work) \in Works /\ Notified(work).hand = <<>> BY <1>2, NotifiedIs
<1>5. CASE SeeStop
  <2>1. Stopped("cancelled") /\ "cancelled" \in Reasons \ {"end_turn"} BY <1>5 DEF SeeStop, Reasons
  <2> QED BY <1>2, <2>1, StoppedSound DEF Moves
<1>6. CASE StartTurn
  <2>1. CASE Last(work) BY <1>3, <1>6, <2>1 DEF StartTurn, Raise, Reasons
  <2>2. CASE ~Last(work) BY <1>2, <1>4, <1>6, <2>2 DEF StartTurn, Works, Moves
  <2> QED BY <2>1, <2>2
<1>7. CASE Settle BY <1>2, <1>4, <1>7 DEF Settle, Works, Moves
<1>8. CASE RunTool
  <2>1. PICK e \in Effects(work.batch[work.done + 1], work.context) :
           work' = [work EXCEPT !.done = @ + 1, !.kill = FALSE, !.context = e.context,
                                !.mutated = @ \/ e.mutated, !.nested = @ \/ e.nested,
                                !.job = IF work.batch[work.done + 1] = "spawn" /\ @ = "none" THEN "running" ELSE @]
    BY <1>8 DEF RunTool
  <2>2. work.pc = "batch" BY <1>8 DEF RunTool, At
  <2>3. work'.hand = work.hand /\ work'.pc = work.pc BY <1>2, <2>1 DEF Works
  <2> QED BY <2>2, <2>3 DEF Moves
<1>9. CASE BatchEnds
  <2> DEFINE c == Counted(work, work.mutated \/ work.nested)
  <2>1. c \in Works /\ c.hand = <<>>
    <3>1. (work.mutated \/ work.nested) \in BOOLEAN OBVIOUS
    <3> QED BY <1>2, <3>1, CountedIs
  <2>2. work' = [c EXCEPT !.pc = "drain", !.after = "batch", !.done = 0, !.mutated = FALSE, !.nested = FALSE]
    BY <1>9 DEF BatchEnds
  <2> HIDE DEF c
  <2> QED BY <1>2, <2>1, <2>2 DEF Works, Moves
<1> QED BY <1>5, <1>6, <1>7, <1>8, <1>9

LEMMA EndMoves == ASSUME IInv, Job \/ Close \/ VerifyExit \/ Output \/ Idle \/ Complete PROVE Moves(work')
<1>0. work \in Works BY DEF IInv, Sound
<1>1. CASE Job
  <2>1. work.pc # "load" /\ work.pc \in Executing
    BY <1>1 DEF Job, JobWrites, JobEnds, IInv, Sound, Locals, Unstarted
  <2> QED BY <1>0, <1>1, <2>1 DEF Job, JobWrites, JobEnds, Works, Moves, Executing
<1>2. CASE Close BY <1>0, <1>2 DEF Close, Works, Moves
<1>3. CASE VerifyExit
  <2>1. CASE ~Unverified BY <1>0, <1>3, <2>1 DEF VerifyExit, Works, Moves
  <2>2. CASE Unverified /\ stop # "set"
    <3>1. PICK verdicts \in [1 .. Roots -> Verdicts] : work' = [Check(work, verdicts) EXCEPT !.pc = "output"]
      BY <1>3, <2>2 DEF VerifyExit
    <3>2. Check(work, verdicts) \in Works /\ Check(work, verdicts).hand = work.hand BY <1>0, CheckIs
    <3> QED BY <3>1, <3>2 DEF Works, Moves
  <2>3. CASE Unverified /\ stop = "set" BY <1>0, <1>3, <2>3 DEF VerifyExit, Works, Moves
  <2> QED BY <2>1, <2>2, <2>3
<1>4. CASE Output
  <2>1. \E p, r, t : work' = [work EXCEPT !.pc = p, !.report = r, !.text = t] /\ p \in {"last", "idle"}
    BY <1>0, <1>4 DEF Output, Works
  <2> QED BY <1>0, <2>1 DEF Works, Moves
<1>5. CASE Idle BY <1>0, <1>5 DEF Idle, Works, Moves
<1>6. CASE Complete BY <1>0, <1>6 DEF Complete, Works, Moves
<1> QED BY <1>1, <1>2, <1>3, <1>4, <1>5, <1>6

-----------------------------------------------------------------------------
(* The prompts and the steps that move them                                 *)

\* The elements of the lines, and those of the store and the lost ones.
LEMMA PromptsKnown ==
    ASSUME KInv
    PROVE  /\ log \in Seq(Nat) /\ waiting \in Seq(Nat) /\ Held \in Seq(Nat) /\ queue \in Seq(Nat)
           /\ pending \in Seq(Nat) /\ typed \in Nat /\ typed + 1 \in Nat /\ client \in {"shell", "acp"}
           /\ \A x \in Elements(log) \cup Elements(waiting) \cup Elements(Held) \cup Elements(queue) \cup Elements(pending) :
                 x \in 1 .. typed
BY HeldIs, LifecycleAssumption DEF KInv, IInv, TypeOK, Kept

\* A new prompt comes behind all the others.
LEMMA NewPrompt ==
    ASSUME NEW n \in Nat, NEW A, A \subseteq 1 .. n
    PROVE  /\ Before(A, {n + 1})
           /\ client # "shell" => Before({n + 1}, A)
           /\ n + 1 \notin A
BY DEF Before, InOrder

\* Whatever the lines become, they keep the prompts if they are in order and complete.
LEMMA KeptNext ==
    ASSUME client' = client, Ordered(log', waiting', Held', queue', pending'), lost' \subseteq 1 .. typed',
           Elements(log') \cup Elements(waiting') \cup Elements(Held') \cup Elements(queue') \cup Elements(pending')
              = (1 .. typed') \ lost'
    PROVE  Kept'
<1>1. Ordered(log, waiting, Held, queue, pending)' BY DEF Ordered, Chain, Before, InOrder, Elements
<1> QED BY <1>1 DEF Kept, Elements

LEMMA Symmetric == ASSUME client # "shell", NEW A, NEW B, Before(A, B) PROVE Before(B, A)
BY DEF Before, InOrder

LEMMA Apart == ASSUME NEW A, NEW B, A \subseteq Nat, Before(A, B) PROVE A \cap B = {}
<1> SUFFICES ASSUME NEW x \in A, x \in B PROVE FALSE OBVIOUS
<1>1. x \in Nat /\ InOrder(x, x) BY DEF Before
<1> QED BY <1>1 DEF InOrder

\* The moves of prompts from line to line: the last two are joined, at either place;
\* what is held is stored, or dropped; the line of the tasks is dropped; the first of a
\* line is taken, into the hand, by the task, or by the shell.
LEMMA OrderedMoves ==
    ASSUME NEW a \in Seq(Nat), NEW b \in Seq(Nat), NEW c \in Seq(Nat), NEW d \in Seq(Nat), NEW e \in Seq(Nat),
           Ordered(a, b, c, d, e)
    PROVE  /\ Ordered(a, b, c, d \o e, <<>>) /\ Ordered(a, b, c, <<>>, d \o e)
           /\ (client = "shell" => b = <<>>) => Ordered(a \o c, b, <<>>, d, e)
           /\ Ordered(a, b, <<>>, d, e) /\ Ordered(a, <<>>, c, d, e)
           /\ c = <<>> /\ d # <<>> => Ordered(a, b, <<Head(d)>>, Tail(d), e)
           /\ c = <<>> /\ b # <<>> /\ (client = "shell" => Tail(b) = <<>>) => Ordered(a, Tail(b), <<Head(b)>>, d, e)
           /\ b = <<>> /\ c = <<>> /\ d = <<>> /\ e # <<>> => Ordered(a, <<Head(e)>>, c, d, Tail(e))
<1> DEFINE A == Elements(a)
           B == Elements(b)
           C == Elements(c)
           D == Elements(d)
           E == Elements(e)
<1>1. /\ Chain(a) /\ Chain(b) /\ Chain(c) /\ Chain(d) /\ Chain(e)
      /\ Before(A, B) /\ Before(A, C) /\ Before(A, D) /\ Before(A, E) /\ Before(B, C) /\ Before(B, D)
      /\ Before(B, E) /\ Before(C, D) /\ Before(C, E) /\ Before(D, E)
  BY DEF Ordered
<1>2. Elements(<<>>) = {} /\ Chain(<<>>) BY EmptyIs
<1>3. d \o e \in Seq(Nat) /\ Elements(d \o e) = D \cup E /\ Chain(d \o e) BY <1>1, CatIs
<1>4. a \o c \in Seq(Nat) /\ Elements(a \o c) = A \cup C /\ Chain(a \o c) BY <1>1, CatIs
<1>5. \A s \in Seq(Nat) : s # <<>> =>
         /\ Elements(<<Head(s)>>) = {Head(s)} /\ Chain(<<Head(s)>>)
         /\ Elements(s) = {Head(s)} \cup Elements(Tail(s))
         /\ Chain(s) => Chain(Tail(s)) /\ Before({Head(s)}, Elements(Tail(s)))
  BY HeadIs, SingleIs
<1> HIDE DEF A, B, C, D, E
<1>6. Ordered(a, b, c, d \o e, <<>>) /\ Ordered(a, b, c, <<>>, d \o e)
  BY <1>1, <1>2, <1>3 DEF Ordered, Before, A, B, C
<1>7. ASSUME client = "shell" => b = <<>> PROVE Ordered(a \o c, b, <<>>, d, e)
  <2>1. Before(A \cup C, B)
    <3>1. CASE client = "shell" BY <1>2, <1>7, <3>1 DEF Before, B
    <3>2. CASE client # "shell" BY <1>1, <3>2, Symmetric DEF Before
    <3> QED BY <3>1, <3>2
  <2> QED BY <1>1, <1>2, <1>4, <2>1 DEF Ordered, Before, B, D, E
<1>8. Ordered(a, b, <<>>, d, e) /\ Ordered(a, <<>>, c, d, e)
  BY <1>1, <1>2 DEF Ordered, Before, A, B, C, D, E
<1>9. ASSUME c = <<>>, d # <<>> PROVE Ordered(a, b, <<Head(d)>>, Tail(d), e)
  <2> DEFINE h == Head(d)
             t == Tail(d)
             T == Elements(t)
  <2>1. /\ Elements(<<h>>) = {h} /\ Chain(<<h>>) /\ D = {h} \cup T /\ Chain(t) /\ Before({h}, T)
    BY <1>1, <1>5, <1>9 DEF D
  <2> HIDE DEF h, t, T
  <2>2. /\ Before(A, {h}) /\ Before(A, T) /\ Before(B, {h}) /\ Before(B, T) /\ Before({h}, E) /\ Before(T, E)
    BY <1>1, <2>1 DEF Before
  <2> QED BY <1>1, <2>1, <2>2 DEF Ordered, A, B, E, T, t, h
<1>10. ASSUME c = <<>>, b # <<>>, client = "shell" => Tail(b) = <<>> PROVE Ordered(a, Tail(b), <<Head(b)>>, d, e)
  <2> DEFINE h == Head(b)
             t == Tail(b)
             T == Elements(t)
  <2>1. /\ Elements(<<h>>) = {h} /\ Chain(<<h>>) /\ B = {h} \cup T /\ Chain(t) /\ Before({h}, T)
    BY <1>1, <1>5, <1>10 DEF B
  <2>2. Before(T, {h})
    <3>1. CASE client = "shell" BY <1>2, <1>10, <3>1 DEF Before
    <3>2. CASE client # "shell" BY <2>1, <3>2, Symmetric
    <3> QED BY <3>1, <3>2
  <2> HIDE DEF h, t, T
  <2>3. /\ Before(A, {h}) /\ Before(A, T) /\ Before({h}, D) /\ Before(T, D) /\ Before({h}, E) /\ Before(T, E)
    BY <1>1, <2>1 DEF Before
  <2> QED BY <1>1, <2>1, <2>2, <2>3 DEF Ordered, A, D, E, T, t, h
<1>11. ASSUME b = <<>>, c = <<>>, d = <<>>, e # <<>> PROVE Ordered(a, <<Head(e)>>, c, d, Tail(e))
  <2> DEFINE h == Head(e)
             t == Tail(e)
             T == Elements(t)
  <2>1. /\ Elements(<<h>>) = {h} /\ Chain(<<h>>) /\ E = {h} \cup T /\ Chain(t) /\ Before({h}, T)
    BY <1>1, <1>5, <1>11 DEF E
  <2>2. C = {} /\ D = {} BY <1>2, <1>11 DEF C, D
  <2> HIDE DEF h, t, T
  <2>3. /\ Before(A, {h}) /\ Before(A, T) /\ Before({h}, C) /\ Before({h}, D) /\ Before(C, T) /\ Before(D, T)
    BY <1>1, <2>1, <2>2 DEF Before
  <2> QED BY <1>1, <2>1, <2>3 DEF Ordered, A, C, D, T, t, h
<1> QED BY <1>6, <1>7, <1>8, <1>9, <1>10, <1>11

LEMMA FollowUpKept == ASSUME KInv, FollowUp, IInv' PROVE Kept' /\ Lines'
<1>1. /\ client = "shell" /\ typed' = typed + 1
      /\ \/ accepting /\ queue' = queue \o Append(pending, typed') /\ pending' = <<>>
         \/ pending' = Append(pending, typed') /\ queue' = queue
      /\ UNCHANGED <<client, closing, accepting, waiting, task, stop, work, log, lost, fresh, silent, published, mishaps>>
  BY DEF FollowUp, Steer
<1>2. /\ log \in Seq(Nat) /\ waiting \in Seq(Nat) /\ Held \in Seq(Nat) /\ queue \in Seq(Nat)
      /\ pending \in Seq(Nat) /\ typed \in Nat /\ typed + 1 \in Nat
      /\ \A x \in Elements(log) \cup Elements(waiting) \cup Elements(Held) \cup Elements(queue) \cup Elements(pending) :
            x \in 1 .. typed
  BY PromptsKnown
<1> DEFINE x == typed + 1
           L == Elements(log)
           W == Elements(waiting)
           H == Elements(Held)
           Q == Elements(queue)
           P == Elements(pending)
<1>3. Before(L, {x}) /\ Before(W, {x}) /\ Before(H, {x}) /\ Before(Q, {x}) /\ Before(P, {x}) BY <1>2, NewPrompt
<1>4. /\ lost \subseteq 1 .. typed /\ L \cup W \cup H \cup Q \cup P = (1 .. typed) \ lost
      /\ Ordered(log, waiting, Held, queue, pending)
  BY DEF KInv, Kept
<1>5. Held' = Held BY <1>1 DEF Held
<1> DEFINE p == Append(pending, x)
<1>6. p \in Seq(Nat) /\ Elements(p) = P \cup {x} /\ Chain(p)
  <2>1. p = pending \o <<x>> /\ <<x>> \in Seq(Nat) BY <1>2
  <2>2. Elements(<<x>>) = {x} /\ Chain(<<x>>) BY <1>2, SingleIs
  <2>3. Chain(pending) /\ Before(P, Elements(<<x>>)) BY <1>3, <1>4, <2>2 DEF Ordered
  <2> HIDE DEF p, x
  <2>4. /\ pending \o <<x>> \in Seq(Nat) /\ Elements(pending \o <<x>>) = P \cup Elements(<<x>>)
        /\ Chain(pending) /\ Chain(<<x>>) /\ Before(P, Elements(<<x>>)) => Chain(pending \o <<x>>)
    BY <1>2, <2>1, CatIs
  <2> QED BY <2>1, <2>2, <2>3, <2>4
<1> HIDE DEF p
<1>7. (1 .. typed') \ lost' = ((1 .. typed) \ lost) \cup {x} /\ lost' \subseteq 1 .. typed' BY <1>1, <1>2, <1>4
<1>8. L' = L /\ W' = W /\ H' = H BY <1>1, <1>5
<1>9. Lines' BY <1>1 DEF KInv, Lines, IInv, Phases
<1>10. ASSUME NEW q \in Seq(Nat), NEW r \in Seq(Nat), queue' = q, pending' = r,
             Elements(q) \cup Elements(r) = Q \cup P \cup {x}, Chain(q), Chain(r), Before(Elements(q), Elements(r))
       PROVE  Kept'
  <2>1. Ordered(log, waiting, Held, q, r)
    <3> HIDE DEF x, L, W, H, Q, P
    <3>1. /\ Before(L, W) /\ Before(L, H) /\ Before(W, H)
          /\ Before(L, Q) /\ Before(L, P) /\ Before(W, Q) /\ Before(W, P) /\ Before(H, Q) /\ Before(H, P)
          /\ Chain(log) /\ Chain(waiting) /\ Chain(Held)
      BY <1>4 DEF Ordered, L, W, H, Q, P
    <3>2. \A A \in {L, W, H} : Before(A, Elements(q)) /\ Before(A, Elements(r)) BY <1>3, <1>10, <3>1 DEF Before
    <3> QED BY <1>10, <3>1, <3>2 DEF Ordered, L, W, H
  <2>2. Ordered(log, waiting, Held, queue, pending)' BY <1>1, <1>5, <1>10, <2>1 DEF Ordered, Chain, Before, InOrder, Elements
  <2>3. Elements(queue)' = Elements(q) /\ Elements(pending)' = Elements(r) BY <1>10 DEF Elements
  <2> QED BY <1>4, <1>7, <1>8, <1>10, <2>2, <2>3 DEF Kept
<1>11. CASE accepting /\ queue' = queue \o Append(pending, typed') /\ pending' = <<>>
  <2>1. queue' = queue \o p BY <1>1, <1>11 DEF p
  <2>2. /\ queue \o p \in Seq(Nat) /\ Elements(queue \o p) = Q \cup Elements(p)
        /\ Chain(queue) /\ Chain(p) /\ Before(Q, Elements(p)) => Chain(queue \o p)
    BY <1>2, <1>6, CatIs
  <2>3. Chain(queue \o p) BY <1>3, <1>4, <1>6, <2>2 DEF Ordered, Before
  <2>4. <<>> \in Seq(Nat) /\ Elements(<<>>) = {} /\ Chain(<<>>) BY EmptyIs
  <2>5. Before(Elements(queue \o p), Elements(<<>>)) BY <2>4 DEF Before
  <2> QED BY <1>6, <1>9, <1>10, <1>11, <2>1, <2>2, <2>3, <2>4, <2>5
<1>12. CASE pending' = Append(pending, typed') /\ queue' = queue
  <2>1. pending' = p BY <1>1, <1>12 DEF p
  <2>2. Chain(queue) /\ Before(Q, Elements(p)) BY <1>3, <1>4, <1>6 DEF Ordered, Before
  <2> QED BY <1>2, <1>6, <1>9, <1>10, <1>12, <2>1, <2>2
<1> QED BY <1>1, <1>11, <1>12

\* The prompts of the worker and the task when nothing is held.
LEMMA Nothing == ASSUME KInv, Held = <<>> PROVE task.prompt = 0 /\ work.hand = <<>>
<1>1. <<task.prompt>> # <<>>
  <2>1. Len(<<task.prompt>>) = 1 /\ Len(<<>>) = 0 OBVIOUS
  <2> QED BY <2>1
<1> QED BY <1>1, HeldIs DEF KInv

LEMMA SubmitKept == ASSUME KInv, Submit, IInv' PROVE Kept' /\ Lines'
<1>1. /\ client = "shell" /\ pending # <<>> /\ task = NoTask /\ waiting = <<>>
      /\ pending' = Tail(pending) /\ waiting' = <<Head(pending)>>
      /\ UNCHANGED <<client, closing, typed, queue, accepting, task, stop, work, log, lost, fresh, silent, published, mishaps>>
  BY DEF Submit
<1>2. /\ log \in Seq(Nat) /\ waiting \in Seq(Nat) /\ Held \in Seq(Nat) /\ queue \in Seq(Nat) /\ pending \in Seq(Nat)
  BY PromptsKnown
<1>3. queue = <<>> /\ task.pc = "idle" BY <1>1 DEF KInv, Lines, NoTask
<1>4. Held = <<>> /\ Held' = <<>>
  <2>1. work.pc = "none" BY <1>3 DEF KInv, IInv, Phases
  <2>2. work.hand = <<>> /\ task.prompt = 0 BY <1>1, <2>1, HeldIs DEF NoTask, KInv
  <2> QED BY <1>1, <2>2, HeldIs, HeldNext DEF KInv
<1>5. Ordered(log, waiting, Held, queue, pending) /\ lost \subseteq 1 .. typed
      /\ Elements(log) \cup Elements(waiting) \cup Elements(Held) \cup Elements(queue) \cup Elements(pending)
           = (1 .. typed) \ lost
  BY DEF KInv, Kept
<1>6. Ordered(log, waiting', Held, queue, pending') BY <1>1, <1>2, <1>3, <1>4, <1>5, OrderedMoves
<1>7. Elements(pending) = Elements(waiting') \cup Elements(pending') /\ Elements(waiting) = {}
  <2>1. Head(pending) \in Nat /\ Elements(pending) = {Head(pending)} \cup Elements(Tail(pending)) BY <1>1, <1>2, HeadIs
  <2> QED BY <1>1, <2>1, SingleIs, EmptyIs
<1>8. Kept' BY <1>1, <1>4, <1>5, <1>6, <1>7, KeptNext
<1>9. Lines'
  <2>1. Len(waiting') = 1 BY <1>1
  <2> QED BY <1>1, <1>3, <2>1 DEF KInv, Lines
<1> QED BY <1>8, <1>9

LEMMA AcpPromptKept == ASSUME KInv, AcpPrompt, IInv' PROVE Kept' /\ Lines'
<1>1. /\ client = "acp" /\ typed' = typed + 1
      /\ UNCHANGED <<client, closing, pending, accepting, task, stop, work, log, lost, fresh, silent, published, mishaps>>
  BY DEF AcpPrompt
<1>2. /\ log \in Seq(Nat) /\ waiting \in Seq(Nat) /\ Held \in Seq(Nat) /\ queue \in Seq(Nat)
      /\ pending \in Seq(Nat) /\ typed \in Nat /\ typed + 1 \in Nat
      /\ \A x \in Elements(log) \cup Elements(waiting) \cup Elements(Held) \cup Elements(queue) \cup Elements(pending) :
            x \in 1 .. typed
  BY PromptsKnown
<1> DEFINE x == typed + 1
           L == Elements(log)
           W == Elements(waiting)
           H == Elements(Held)
           Q == Elements(queue)
           P == Elements(pending)
<1>3. /\ Before(L, {x}) /\ Before(W, {x}) /\ Before(H, {x}) /\ Before(Q, {x}) /\ Before(P, {x})
      /\ Before({x}, L) /\ Before({x}, W) /\ Before({x}, H) /\ Before({x}, Q) /\ Before({x}, P)
  BY <1>1, <1>2, NewPrompt
<1>4. /\ lost \subseteq 1 .. typed /\ L \cup W \cup H \cup Q \cup P = (1 .. typed) \ lost
      /\ Ordered(log, waiting, Held, queue, pending)
  BY DEF KInv, Kept
<1>5. Held' = Held BY <1>1 DEF Held
<1>6. (1 .. typed') \ lost' = ((1 .. typed) \ lost) \cup {x} /\ lost' \subseteq 1 .. typed' BY <1>1, <1>2, <1>4
<1>7. Lines' BY <1>1 DEF KInv, Lines
<1>8. <<x>> \in Seq(Nat) /\ Elements(<<x>>) = {x} /\ Chain(<<x>>) BY <1>2, SingleIs
<1>9. <<typed'>> = <<x>> BY <1>1
<1> HIDE DEF x
<1>10. CASE accepting
  <2>1. queue' = queue \o <<x>> /\ waiting' = waiting BY <1>9, <1>10 DEF AcpPrompt, Steer
  <2>2. Elements(queue') = Q \cup {x} /\ (Chain(queue) /\ Before(Q, {x}) => Chain(queue'))
    <3>1. /\ Elements(queue \o <<x>>) = Q \cup Elements(<<x>>)
          /\ Chain(queue) /\ Chain(<<x>>) /\ Before(Q, Elements(<<x>>)) => Chain(queue \o <<x>>)
      BY <1>2, <1>8, CatIs
    <3> QED BY <1>8, <2>1, <3>1
  <2> HIDE DEF L, W, H, Q, P
  <2>3. Ordered(log, waiting, Held, queue', pending)
    BY <1>3, <1>4, <2>2 DEF Ordered, Before, L, W, H, Q, P
  <2> QED BY <1>1, <1>4, <1>5, <1>6, <1>7, <2>1, <2>2, <2>3, KeptNext DEF L, W, H, P
<1>11. CASE ~accepting
  <2>1. PICK i \in 0 .. Len(waiting) :
           waiting' = SubSeq(waiting, 1, i) \o <<x>> \o SubSeq(waiting, i + 1, Len(waiting))
    BY <1>9, <1>11 DEF AcpPrompt
  <2>2. queue' = queue BY <1>11 DEF AcpPrompt
  <2> DEFINE a == SubSeq(waiting, 1, i)
             b == SubSeq(waiting, i + 1, Len(waiting))
             A == Elements(a)
             B == Elements(b)
  <2>3. /\ a \in Seq(Nat) /\ b \in Seq(Nat) /\ W = A \cup B
        /\ Chain(waiting) => Chain(a) /\ Chain(b) /\ Before(A, B)
    BY <1>2, SplitIs
  <2>4. waiting' = (a \o <<x>>) \o b BY <2>1
  <2> HIDE DEF a, b
  <2>5. /\ a \o <<x>> \in Seq(Nat) /\ Elements(a \o <<x>>) = A \cup {x}
        /\ Chain(a) /\ Before(A, {x}) => Chain(a \o <<x>>)
    BY <1>8, <2>3, CatIs, ZenonT(60)
  <2>6. /\ Elements(waiting') = A \cup {x} \cup B
        /\ Chain(a \o <<x>>) /\ Chain(b) /\ Before(A \cup {x}, B) => Chain(waiting')
    BY <2>3, <2>4, <2>5, CatIs
  <2> HIDE DEF A, B
  <2>7. Chain(waiting')
    <3>1. Chain(waiting) BY <1>4 DEF Ordered
    <3>2. Before(A, {x}) /\ Before({x}, B) BY <1>3, <2>3 DEF Before
    <3>3. Before(A \cup {x}, B) BY <2>3, <3>1, <3>2 DEF Before
    <3> QED BY <2>3, <2>5, <2>6, <3>1, <3>2, <3>3
  <2>8. Elements(waiting') = W \cup {x} BY <2>3, <2>6
  <2> HIDE DEF L, W, H, Q, P
  <2>9. Ordered(log, waiting', Held, queue, pending)
    BY <1>3, <1>4, <2>7, <2>8 DEF Ordered, Before, L, W, H, Q, P
  <2> QED BY <1>1, <1>4, <1>5, <1>6, <1>7, <2>2, <2>8, <2>9, KeptNext DEF L, H, Q, P
<1> QED BY <1>10, <1>11

\* The prompts that are in the store, with the tasks, held, queued, and kept by the shell.
LEMMA KeptNow ==
    ASSUME KInv
    PROVE  /\ Ordered(log, waiting, Held, queue, pending) /\ lost \subseteq 1 .. typed
           /\ Elements(log) \cup Elements(waiting) \cup Elements(Held) \cup Elements(queue) \cup Elements(pending)
                = (1 .. typed) \ lost
           /\ Elements(waiting) \cap Elements(log) = {} /\ Elements(waiting) \cap Elements(Held) = {}
           /\ Elements(waiting) \cap Elements(queue) = {} /\ Elements(waiting) \cap Elements(pending) = {}
           /\ Elements(Held) \cap Elements(log) = {}
           /\ Elements(Held) \cap Elements(queue) = {} /\ Elements(Held) \cap Elements(pending) = {}
           /\ Elements(Held) \subseteq 1 .. typed /\ Elements(waiting) \subseteq 1 .. typed
           /\ Elements(<<>>) = {} /\ log \in Seq(Nat) /\ waiting \in Seq(Nat) /\ Held \in Seq(Nat)
           /\ queue \in Seq(Nat) /\ pending \in Seq(Nat)
<1>1. /\ Ordered(log, waiting, Held, queue, pending) /\ lost \subseteq 1 .. typed
      /\ Elements(log) \cup Elements(waiting) \cup Elements(Held) \cup Elements(queue) \cup Elements(pending)
           = (1 .. typed) \ lost
  BY DEF KInv, Kept
<1>2. /\ log \in Seq(Nat) /\ waiting \in Seq(Nat) /\ Held \in Seq(Nat) /\ queue \in Seq(Nat) /\ pending \in Seq(Nat)
      /\ \A x \in Elements(log) \cup Elements(waiting) \cup Elements(Held) \cup Elements(queue) \cup Elements(pending) :
            x \in 1 .. typed
  BY PromptsKnown
<1>3. /\ Elements(log) \subseteq Nat /\ Elements(waiting) \subseteq Nat /\ Elements(Held) \subseteq Nat BY <1>2
<1>4. /\ Elements(log) \cap Elements(waiting) = {} /\ Elements(waiting) \cap Elements(Held) = {}
      /\ Elements(waiting) \cap Elements(queue) = {} /\ Elements(waiting) \cap Elements(pending) = {}
      /\ Elements(log) \cap Elements(Held) = {}
      /\ Elements(Held) \cap Elements(queue) = {} /\ Elements(Held) \cap Elements(pending) = {}
  BY <1>1, <1>3, Apart DEF Ordered
<1> QED BY <1>1, <1>2, <1>4, EmptyIs

\* What is held is lost.
LEMMA DropStep ==
    ASSUME KInv, UNCHANGED <<client, typed, pending, queue, waiting, log>>, Held' = <<>>,
           lost' = lost \cup Elements(Held)
    PROVE  Kept'
<1>1. Ordered(log, waiting, <<>>, queue, pending) BY KeptNow, OrderedMoves
<1> DEFINE L == Elements(log)
           W == Elements(waiting)
           H == Elements(Held)
           Q == Elements(queue)
           P == Elements(pending)
<1>2. /\ lost \subseteq 1 .. typed /\ L \cup W \cup H \cup Q \cup P = (1 .. typed) \ lost /\ H \subseteq 1 .. typed
      /\ W \cap H = {} /\ H \cap L = {} /\ H \cap Q = {} /\ H \cap P = {} /\ Elements(<<>>) = {}
  BY KeptNow
<1> HIDE DEF L, W, H, Q, P
<1>3. L \cup W \cup {} \cup Q \cup P = (1 .. typed) \ (lost \cup H) BY <1>2
<1>4. lost \cup H \subseteq 1 .. typed BY <1>2
<1> QED BY <1>1, <1>2, <1>3, <1>4, KeptNext DEF L, W, H, Q, P

\* What is held is stored.
LEMMA KeepStep ==
    ASSUME KInv, UNCHANGED <<client, typed, pending, queue, waiting, lost>>, Held' = <<>>, log' = log \o Held,
           client = "shell" => waiting = <<>>
    PROVE  Kept'
<1>1. Ordered(log', waiting, <<>>, queue, pending) BY KeptNow, OrderedMoves
<1>2. Elements(log') = Elements(log) \cup Elements(Held) BY KeptNow, CatIs
<1>3. /\ lost \subseteq 1 .. typed /\ Elements(<<>>) = {}
      /\ Elements(log) \cup Elements(waiting) \cup Elements(Held) \cup Elements(queue) \cup Elements(pending)
           = (1 .. typed) \ lost
  BY KeptNow
<1>4. Elements(log') \cup Elements(waiting) \cup {} \cup Elements(queue) \cup Elements(pending) = (1 .. typed) \ lost
  BY <1>2, <1>3
<1> QED BY <1>1, <1>3, <1>4, KeptNext

LEMMA CancelTasksKept == ASSUME KInv, NEW close \in BOOLEAN, CancelTasks(close), IInv' PROVE Kept' /\ Lines'
<1>1. /\ task' = Cancelled(task) /\ work' = PassedOn(task, work) /\ waiting' = <<>>
      /\ lost' = lost \cup Prompts(task) \cup {waiting[i] : i \in DOMAIN waiting}
      /\ UNCHANGED <<client, input, log>>
  BY DEF CancelTasks
<1>2. task \in Tasks /\ work \in Works BY DEF KInv, IInv, TypeOK
<1>3. work'.hand = work.hand /\ work'.pc = work.pc
  <2>1. work' = work \/ work' = [work EXCEPT !.kill = TRUE] BY <1>1 DEF PassedOn
  <2> QED BY <1>2, <2>1 DEF Works
<1>4. /\ task.pc = "lease" => task'.pc = "released" /\ task'.prompt = 0
      /\ task.pc \in {"join", "reap"} => task'.pc = "reap" /\ task'.prompt = task.prompt
      /\ task.pc \notin {"lease", "join", "reap"} => task' = task
  BY <1>1, <1>2 DEF Cancelled, Join, Tasks
<1> DEFINE L == Elements(log)
           W == Elements(waiting)
           H == Elements(Held)
           Q == Elements(queue)
           P == Elements(pending)
<1>5. /\ Ordered(log, waiting, Held, queue, pending)
      /\ lost \subseteq 1 .. typed /\ L \cup W \cup H \cup Q \cup P = (1 .. typed) \ lost
      /\ H \subseteq 1 .. typed /\ W \subseteq 1 .. typed
      /\ W \cap H = {} /\ H \cap L = {} /\ H \cap Q = {} /\ H \cap P = {} /\ Elements(<<>>) = {}
      /\ W \cap L = {} /\ W \cap Q = {} /\ W \cap P = {}
      /\ log \in Seq(Nat) /\ waiting \in Seq(Nat) /\ Held \in Seq(Nat) /\ queue \in Seq(Nat) /\ pending \in Seq(Nat)
  BY KeptNow
<1>6. Ordered(log, <<>>, Held, queue, pending) BY <1>5, OrderedMoves
<1>7. Ordered(log, <<>>, <<>>, queue, pending)
  <2>1. <<>> \in Seq(Nat) OBVIOUS
  <2> QED BY <1>5, <1>6, <2>1, OrderedMoves
<1>8. {waiting[i] : i \in DOMAIN waiting} = W BY DEF Elements
<1> HIDE DEF L, W, H, Q, P
<1>9. Lines'
  <2>1. Len(<<>>) = 0 OBVIOUS
  <2>2. client' = client /\ queue' = queue /\ pending' = pending BY <1>1 DEF input
  <2> QED BY <1>1, <1>3, <1>4, <2>1, <2>2 DEF KInv, Lines
<1>10. CASE task.pc = "lease"
  <2>1. task.prompt # 0 /\ Prompts(task) = {task.prompt} BY <1>10 DEF KInv, Lines, Prompts
  <2>2. Held = <<task.prompt>> /\ work.hand = <<>> /\ task.prompt \in Nat BY <2>1, HeldIs DEF KInv
  <2>3. H = {task.prompt} BY <2>2, SingleIs DEF H
  <2>4. Held' = <<>> BY <1>3, <1>4, <1>10, <2>2, HeldNext
  <2>5. lost' = lost \cup H \cup W BY <1>1, <1>8, <2>1, <2>3
  <2>6. L \cup {} \cup {} \cup Q \cup P = (1 .. typed) \ lost' BY <1>5, <2>5
  <2>7. lost' \subseteq 1 .. typed BY <1>5, <2>5
  <2> QED BY <1>1, <1>5, <1>7, <1>9, <2>4, <2>6, <2>7, KeptNext DEF L, Q, P, input
<1>11. CASE task.pc # "lease"
  <2>1. Prompts(task) = {} BY <1>11 DEF Prompts
  <2>2. Held' = Held
    <3>1. task'.prompt = task.prompt BY <1>4, <1>11
    <3> QED BY <1>3, <3>1, HeldIs, HeldNext DEF KInv
  <2>3. lost' = lost \cup W BY <1>1, <1>8, <2>1
  <2>4. L \cup {} \cup H \cup Q \cup P = (1 .. typed) \ lost' BY <1>5, <2>3
  <2>5. lost' \subseteq 1 .. typed BY <1>5, <2>3
  <2> QED BY <1>1, <1>5, <1>6, <1>9, <2>2, <2>4, <2>5, KeptNext DEF L, H, Q, P, input
<1> QED BY <1>10, <1>11

LEMMA CollectKept == ASSUME KInv, Collect, IInv' PROVE Kept' /\ Lines'
<1>1. /\ task.pc = "released" /\ task' = NoTask /\ work' = NoWork
      /\ UNCHANGED <<client, closing, typed, accepting, waiting, stop, log, lost, mishaps>>
  BY DEF Collect
<1>2. task.prompt = 0 /\ work.pc \notin {"drain", "last"} BY <1>1 DEF KInv, IInv, Phases
<1>3. Held = <<>> BY <1>2, HeldIs DEF KInv
<1>4. Held' = <<>> BY <1>1, NoWorkIs, HeldNext DEF NoTask
<1>5. /\ Ordered(log, waiting, Held, queue, pending) /\ lost \subseteq 1 .. typed /\ Elements(<<>>) = {}
      /\ Elements(log) \cup Elements(waiting) \cup Elements(Held) \cup Elements(queue) \cup Elements(pending)
           = (1 .. typed) \ lost
      /\ log \in Seq(Nat) /\ waiting \in Seq(Nat) /\ Held \in Seq(Nat) /\ queue \in Seq(Nat) /\ pending \in Seq(Nat)
  BY KeptNow
<1>6. task'.pc = "idle" /\ task'.prompt = 0 BY <1>1 DEF NoTask
<1>7. CASE client = "shell"
  <2>1. pending' = queue \o pending /\ queue' = <<>> BY <1>7 DEF Collect, Reclaimed
  <2>2. Ordered(log, waiting, Held, queue', pending') BY <1>5, <2>1, OrderedMoves
  <2>3. Elements(pending') = Elements(queue) \cup Elements(pending) BY <1>5, <2>1, CatIs
  <2>4. Kept' BY <1>1, <1>3, <1>4, <1>5, <2>1, <2>2, <2>3, KeptNext
  <2>5. Lines' BY <1>1, <1>6, <1>7, <2>1, NoWorkIs DEF KInv, Lines
  <2> QED BY <2>4, <2>5
<1>8. CASE client # "shell"
  <2>1. pending' = pending /\ queue' = queue BY <1>8 DEF Collect
  <2>2. Kept' BY <1>1, <1>3, <1>4, <1>5, <2>1, KeptNext
  <2>3. Lines' BY <1>1, <1>6, <1>8, <2>1, NoWorkIs DEF KInv, Lines
  <2> QED BY <2>2, <2>3
<1> QED BY <1>7, <1>8

LEMMA TakeLockKept == ASSUME KInv, TakeLock, IInv' PROVE Kept' /\ Lines'
<1>1. /\ task = NoTask /\ waiting # <<>> /\ task' = [NoTask EXCEPT !.pc = "lease", !.prompt = Head(waiting)]
      /\ waiting' = Tail(waiting)
      /\ UNCHANGED <<client, closing, input, stop, work, log, lost, fresh, silent, published, mishaps>>
  BY DEF TakeLock
<1>2. /\ Ordered(log, waiting, Held, queue, pending) /\ lost \subseteq 1 .. typed
      /\ Elements(log) \cup Elements(waiting) \cup Elements(Held) \cup Elements(queue) \cup Elements(pending)
           = (1 .. typed) \ lost
      /\ Elements(waiting) \subseteq 1 .. typed /\ Elements(<<>>) = {}
      /\ log \in Seq(Nat) /\ waiting \in Seq(Nat) /\ Held \in Seq(Nat) /\ queue \in Seq(Nat) /\ pending \in Seq(Nat)
  BY KeptNow
<1>3. task.pc = "idle" /\ task.prompt = 0 BY <1>1 DEF NoTask
<1>4. work.pc = "none" BY <1>3 DEF KInv, IInv, Phases
<1>5. Held = <<>> BY <1>3, <1>4, HeldIs DEF KInv
<1>6. Head(waiting) \in Nat /\ Elements(waiting) = {Head(waiting)} \cup Elements(Tail(waiting)) BY <1>1, <1>2, HeadIs
<1>7. Head(waiting) # 0 BY <1>2, <1>6
<1>8. task'.pc = "lease" /\ task'.prompt = Head(waiting) BY <1>1 DEF NoTask
<1>9. Held' = <<Head(waiting)>> BY <1>7, <1>8, HeldNext
<1>10. client = "shell" => Tail(waiting) = <<>>
  <2>1. ASSUME client = "shell" PROVE Tail(waiting) = <<>>
    <3>1. Len(waiting) <= 1 BY <2>1 DEF KInv, Lines
    <3>2. Len(waiting) \in Nat /\ Len(waiting) # 0 BY <1>1, <1>2, EmptySeq
    <3>3. Tail(waiting) \in Seq(Nat) /\ Len(Tail(waiting)) = Len(waiting) - 1 BY <1>1, <1>2
    <3>4. Len(Tail(waiting)) = 0 BY <3>1, <3>2, <3>3
    <3> QED BY <3>3, <3>4, EmptySeq
  <2> QED BY <2>1
<1>11. Ordered(log, waiting', Held', queue, pending) BY <1>1, <1>2, <1>5, <1>9, <1>10, OrderedMoves
<1>12. Elements(Held') = {Head(waiting)} BY <1>6, <1>9, SingleIs
<1>13. Elements(log) \cup Elements(waiting') \cup Elements(Held') \cup Elements(queue) \cup Elements(pending)
           = (1 .. typed) \ lost
  BY <1>1, <1>2, <1>5, <1>6, <1>12
<1>14. Kept' BY <1>1, <1>2, <1>11, <1>13, KeptNext DEF input
<1>15. Len(waiting') <= Len(waiting) BY <1>1, <1>2
<1>16. Lines'
  <2>1. Len(waiting') \in Nat /\ Len(waiting) \in Nat BY <1>1, <1>2
  <2>2. client = "shell" => Len(waiting') <= 1 BY <1>15, <2>1 DEF KInv, Lines
  <2> QED BY <1>1, <1>3, <1>7, <1>8, <1>10, <2>2 DEF KInv, Lines, input
<1> QED BY <1>14, <1>16

LEMMA TakeLeaseKept == ASSUME KInv, TakeLease, IInv' PROVE Kept' /\ Lines'
<1>1. /\ task.pc = "lease"
      /\ UNCHANGED <<client, closing, typed, pending, queue, waiting, stop, log, fresh, silent, published>>
  BY DEF TakeLease
<1>2. /\ task \in Tasks /\ work.pc = "none" /\ task.prompt # 0 /\ task.prompt \in Nat
      /\ client = "shell" => queue = <<>> /\ waiting = <<>>
  BY <1>1 DEF KInv, IInv, TypeOK, Phases, Lines, Tasks
<1>3. Held = <<task.prompt>> /\ work.hand = <<>> BY <1>2, HeldIs DEF KInv
<1>4. CASE /\ task' = [task EXCEPT !.pc = "join"] /\ work' = [NoWork EXCEPT !.pc = "new"] /\ UNCHANGED lost
  <2>1. task'.pc = "join" /\ task'.prompt = task.prompt BY <1>2, <1>4 DEF Tasks
  <2>2. work'.hand = <<>> BY <1>4 DEF NoWork
  <2> QED BY <1>1, <1>2, <1>3, <1>4, <2>1, <2>2, StillStep
<1>5. CASE /\ task' = [task EXCEPT !.pc = "released", !.outcome = "refused", !.prompt = 0]
           /\ lost' = lost \cup {task.prompt} /\ UNCHANGED <<accepting, work>>
  <2>1. task'.pc = "released" /\ task'.prompt = 0 BY <1>2, <1>5 DEF Tasks
  <2>2. Held' = <<>> BY <1>3, <1>5, <2>1, HeldNext
  <2>3. lost' = lost \cup Elements(Held) BY <1>2, <1>3, <1>5, SingleIs
  <2>4. Kept' BY <1>1, <2>2, <2>3, DropStep
  <2>5. Lines' BY <1>1, <1>2, <2>1 DEF KInv, Lines
  <2> QED BY <2>4, <2>5
<1> QED BY <1>4, <1>5 DEF TakeLease

LEMMA FallbackKept == ASSUME KInv, Fallback, IInv' PROVE Kept' /\ Lines'
<1>1. /\ task.pc = "reap" /\ work.pc = "never" /\ lost' = lost \cup {task.prompt}
      /\ task' = [task EXCEPT !.pc = "release", !.outcome = "result", !.prompt = 0]
      /\ UNCHANGED <<client, closing, input, waiting, work, log, fresh, silent, mishaps>>
  BY DEF Fallback
<1>2. task \in Tasks /\ task.prompt # 0 /\ task.prompt \in Nat BY <1>1 DEF KInv, IInv, TypeOK, Lines, Tasks
<1>3. Held = <<task.prompt>> /\ work.hand = <<>> BY <1>2, HeldIs DEF KInv
<1>4. task'.pc = "release" /\ task'.prompt = 0 BY <1>1, <1>2 DEF Tasks
<1>5. Held' = <<>> BY <1>1, <1>3, <1>4, HeldNext
<1>6. lost' = lost \cup Elements(Held) BY <1>1, <1>2, <1>3, SingleIs
<1>7. Kept' BY <1>1, <1>5, <1>6, DropStep DEF input
<1>8. Lines' BY <1>1, <1>4 DEF KInv, Lines, input
<1> QED BY <1>7, <1>8

\* The steps of the worker that store what is held, or lose it.
LEMMA WorkerLines ==
    ASSUME KInv, UNCHANGED <<client, waiting>>, task'.pc = task.pc, task.pc \in {"join", "reap"},
           work'.pc \notin {"new", "load", "never"}, client = "acp" => pending' = pending \/ pending' = <<>>
    PROVE  Lines'
BY DEF KInv, Lines

LEMMA InterruptKept == ASSUME KInv, Interrupt, IInv' PROVE Kept' /\ Lines'
<1>1. /\ work.pc \in Executing /\ Stopped(Why(task)) /\ task' = [task EXCEPT !.prompt = 0]
      /\ \/ log' = log \o Held /\ lost' = lost
         \/ lost' = lost \cup Missed /\ log' = log
      /\ UNCHANGED <<client, closing, input, waiting, stop, published, mishaps>>
  BY DEF Interrupt
<1>2. Why(task) \in Reasons \ {"end_turn"} BY DEF Why, Reasons
<1>3. work'.pc = "close" /\ work'.hand = <<>> BY <1>1, <1>2, StoppedSound DEF KInv
<1>4. task \in Tasks /\ task.pc \in {"join", "reap"} BY <1>1 DEF KInv, IInv, TypeOK, Phases, Tasks, Executing
<1>5. task'.pc = task.pc /\ task'.prompt = 0 BY <1>1, <1>4 DEF Tasks
<1>6. Held' = <<>> /\ Missed = Elements(Held) BY <1>3, <1>5, HeldIs, HeldNext DEF KInv
<1>7. client = "shell" => waiting = <<>> BY <1>4 DEF KInv, Lines
<1>8. Kept' BY <1>1, <1>6, <1>7, DropStep, KeepStep DEF input
<1>9. Lines' BY <1>1, <1>3, <1>4, <1>5, WorkerLines DEF input
<1> QED BY <1>8, <1>9

LEMMA LoadKept == ASSUME KInv, Load, IInv' PROVE Kept' /\ Lines'
<1>1. /\ work.pc = "load" /\ log' = Append(log, task.prompt) /\ task' = [task EXCEPT !.prompt = 0]
      /\ queue' = queue \o pending /\ pending' = <<>>
      /\ UNCHANGED <<client, closing, typed, accepting, waiting, stop, lost, published, mishaps>>
  BY DEF Load, Runs, At, Steer
<1>2. \E c \in Recovered : work' = [work EXCEPT !.pc = "turn", !.context = c] BY DEF Load
<1>3. task \in Tasks /\ task.pc \in {"join", "reap"} /\ work \in Works /\ log \in Seq(Nat)
  BY <1>1 DEF KInv, IInv, TypeOK, Phases, Tasks
<1>4. task.prompt # 0 /\ task.prompt \in Nat BY <1>1, <1>3 DEF KInv, Lines, Tasks
<1>5. Held = <<task.prompt>> /\ work.hand = <<>> BY <1>4, HeldIs DEF KInv
<1>6. work'.hand = <<>> /\ work'.pc = "turn" BY <1>2, <1>3, <1>5 DEF Works
<1>7. task'.pc = task.pc /\ task'.prompt = 0 BY <1>1, <1>3 DEF Tasks
<1>8. Held' = <<>> BY <1>6, <1>7, HeldNext
<1>9. client = "shell" => waiting = <<>> BY <1>3 DEF KInv, Lines
<1>10. log' = log \o Held BY <1>1, <1>3, <1>4, <1>5
<1>11. /\ Ordered(log, waiting, Held, queue, pending) /\ lost \subseteq 1 .. typed /\ Elements(<<>>) = {}
       /\ Elements(log) \cup Elements(waiting) \cup Elements(Held) \cup Elements(queue) \cup Elements(pending)
            = (1 .. typed) \ lost
       /\ log \in Seq(Nat) /\ waiting \in Seq(Nat) /\ Held \in Seq(Nat) /\ queue \in Seq(Nat) /\ pending \in Seq(Nat)
  BY KeptNow
<1>12. Ordered(log \o Held, waiting, <<>>, queue, pending) BY <1>9, <1>11, OrderedMoves
<1>13. log \o Held \in Seq(Nat) /\ <<>> \in Seq(Nat) BY <1>11, CatIs
<1>14. Ordered(log', waiting, <<>>, queue', <<>>) BY <1>1, <1>10, <1>11, <1>12, <1>13, OrderedMoves
<1>15. Elements(log') = Elements(log) \cup Elements(Held) /\ Elements(queue') = Elements(queue) \cup Elements(pending)
  BY <1>1, <1>10, <1>11, CatIs
<1>16. Elements(log') \cup Elements(waiting) \cup {} \cup Elements(queue') \cup {} = (1 .. typed) \ lost
  BY <1>11, <1>15
<1>17. Kept' BY <1>1, <1>8, <1>11, <1>14, <1>16, KeptNext
<1>18. Lines' BY <1>1, <1>3, <1>6, <1>7, WorkerLines
<1> QED BY <1>17, <1>18

LEMMA TakePromptKept == ASSUME KInv, TakePrompt, IInv' PROVE Kept' /\ Lines'
<1>1. /\ work.pc \in {"drain", "last"} /\ work.hand = <<>> /\ queue # <<>> /\ queue' = Tail(queue)
      /\ work' = [work EXCEPT !.hand = <<Head(queue)>>]
      /\ UNCHANGED <<client, closing, typed, pending, accepting, waiting, task, stop, log, lost, fresh, silent, published, mishaps>>
  BY DEF TakePrompt, Draining, Runs, At
<1>2. task.pc \in {"join", "reap"} /\ task.prompt = 0 /\ Held = <<>> BY <1>1, HeldIs DEF KInv
<1>3. work \in Works BY DEF KInv, IInv, TypeOK
<1>4. work'.hand = <<Head(queue)>> /\ work'.pc = work.pc BY <1>1, <1>3 DEF Works
<1>5. Held' = <<Head(queue)>> BY <1>1, <1>2, <1>4, HeldNext
<1>6. /\ Ordered(log, waiting, Held, queue, pending) /\ lost \subseteq 1 .. typed /\ Elements(<<>>) = {}
      /\ Elements(log) \cup Elements(waiting) \cup Elements(Held) \cup Elements(queue) \cup Elements(pending)
           = (1 .. typed) \ lost
      /\ log \in Seq(Nat) /\ waiting \in Seq(Nat) /\ Held \in Seq(Nat) /\ queue \in Seq(Nat) /\ pending \in Seq(Nat)
  BY KeptNow
<1>7. Head(queue) \in Nat /\ Elements(queue) = {Head(queue)} \cup Elements(Tail(queue)) BY <1>1, <1>6, HeadIs
<1>8. Ordered(log, waiting, Held', queue', pending) BY <1>1, <1>2, <1>5, <1>6, OrderedMoves
<1>9. Elements(Held') = {Head(queue)} BY <1>5, <1>7, SingleIs
<1>10. Elements(log) \cup Elements(waiting) \cup Elements(Held') \cup Elements(queue') \cup Elements(pending)
           = (1 .. typed) \ lost
  BY <1>1, <1>2, <1>6, <1>7, <1>9
<1>11. Kept' BY <1>1, <1>6, <1>8, <1>10, KeptNext
<1>12. Lines' BY <1>1, <1>2, <1>4, WorkerLines
<1> QED BY <1>11, <1>12

LEMMA StorePromptKept == ASSUME KInv, StorePrompt, IInv' PROVE Kept' /\ Lines'
<1>1. /\ work.pc \in {"drain", "last"} /\ log' = log \o work.hand
      /\ work' = [work EXCEPT !.hand = <<>>, !.steered = TRUE]
      /\ UNCHANGED <<client, closing, input, waiting, task, stop, lost, fresh, silent, published, mishaps>>
  BY DEF StorePrompt, Draining, Runs, At
<1>2. task.pc \in {"join", "reap"} /\ task.prompt = 0 /\ Held = work.hand BY <1>1, HeldIs DEF KInv
<1>3. work \in Works BY DEF KInv, IInv, TypeOK
<1>4. work'.hand = <<>> /\ work'.pc = work.pc BY <1>1, <1>3 DEF Works
<1>5. Held' = <<>> BY <1>1, <1>2, <1>4, HeldNext
<1>6. client = "shell" => waiting = <<>> BY <1>2 DEF KInv, Lines
<1>7. Kept' BY <1>1, <1>2, <1>5, <1>6, KeepStep DEF input
<1>8. Lines' BY <1>1, <1>2, <1>4, WorkerLines DEF input
<1> QED BY <1>7, <1>8

LEMMA StoreFailsKept == ASSUME KInv, StoreFails, IInv' PROVE Kept' /\ Lines'
<1>0. /\ UNCHANGED <<client, closing, typed, pending, queue, waiting, stop, log, fresh, silent, published>>
      /\ lost' = lost \cup Missed
  BY DEF StoreFails
<1>1. task \in Tasks /\ work \in Works BY DEF KInv, IInv, TypeOK
<1>2. /\ work.pc \in Alive /\ task'.pc = task.pc /\ task'.prompt = 0 /\ work'.hand = <<>>
      /\ work'.pc \notin {"new", "load", "never"}
  <2>1. CASE /\ Runs("load") \/ (Runs("drain") /\ work.hand # <<>>)
             /\ Raise("error") /\ task' = [task EXCEPT !.prompt = 0]
    <3>1. "error" \in Reasons BY DEF Reasons
    <3>2. work'.pc = "close" /\ work'.hand = <<>> BY <1>1, <2>1, <3>1, RaisedIs DEF Raise
    <3>3. task'.pc = task.pc /\ task'.prompt = 0 BY <1>1, <2>1 DEF Tasks
    <3> QED BY <2>1, <3>2, <3>3 DEF Runs, At, Alive, Executing
  <2>2. CASE /\ At("output") \/ (At("last") /\ work.hand # <<>>)
             /\ work' = [work EXCEPT !.pc = "idle", !.after = "failed", !.hand = <<>>] /\ UNCHANGED task
    <3>1. work'.pc = "idle" /\ work'.hand = <<>> BY <1>1, <2>2 DEF Works
    <3>2. work.pc \in {"output", "last"} BY <2>2 DEF At
    <3>3. task.prompt = 0 BY <3>2, <1>1 DEF KInv, IInv, Phases, Tasks
    <3> QED BY <2>2, <3>1, <3>2, <3>3 DEF Alive
  <2> QED BY <2>1, <2>2 DEF StoreFails
<1>3. task.pc \in {"join", "reap"} BY <1>1, <1>2 DEF KInv, IInv, Phases, Tasks, Alive, Executing
<1>4. Held' = <<>> /\ Missed = Elements(Held) BY <1>2, HeldIs, HeldNext DEF KInv
<1>5. Kept' BY <1>0, <1>4, DropStep
<1>6. Lines' BY <1>0, <1>2, <1>3, WorkerLines
<1> QED BY <1>5, <1>6

\* The steps of the task and of the worker that touch neither the prompts nor the hand.
LEMMA StillKept ==
    ASSUME KInv, SetStop \/ Deadline \/ Resume \/ Release \/ Begin \/ LastDrained, IInv'
    PROVE  Kept' /\ Lines'
<1>1. task \in Tasks /\ work \in Works BY DEF KInv, IInv, TypeOK
<1>2. UNCHANGED <<client, typed, pending, queue, waiting, log, lost>>
  BY DEF SetStop, Deadline, Resume, Release, Begin, LastDrained, input
<1>3. CASE SetStop BY <1>2, <1>3, PrivateStep, StillStep DEF SetStop, KInv, Lines
<1>4. CASE Deadline
  <2>1. task.pc = "join" /\ task'.pc = "reap" /\ task'.prompt = task.prompt BY <1>1, <1>4 DEF Deadline, Join, Tasks
  <2>2. work' = work \/ work' = [work EXCEPT !.kill = TRUE] BY <1>4 DEF Deadline, PassedOn
  <2>3. work'.hand = work.hand /\ work'.pc = work.pc BY <1>1, <2>2 DEF Works
  <2>4. /\ client = "shell" => waiting = <<>>
        /\ work.pc \in {"new", "load", "never"} => task.prompt # 0
    BY <2>1 DEF KInv, Lines
  <2> QED BY <1>2, <2>1, <2>3, <2>4, StillStep
<1>5. CASE Resume
  <2>1. /\ task.pc \in {"join", "reap"} /\ work' = work
        /\ task' = [task EXCEPT !.pc = "release", !.outcome = IF work.pc = "done" THEN "result" ELSE "failed"]
    BY <1>5 DEF Resume
  <2>2. task'.pc = "release" /\ task'.prompt = task.prompt BY <1>1, <2>1 DEF Tasks
  <2>3. client = "shell" => waiting = <<>> BY <2>1 DEF KInv, Lines
  <2> QED BY <1>2, <2>1, <2>2, <2>3, StillStep
<1>6. CASE Release
  <2>1. task.pc = "release" /\ work' = work /\ (task' = task \/ task' = [task EXCEPT !.pc = "released"])
    BY <1>6 DEF Release
  <2>2. task'.pc \in {"release", "released"} /\ task'.prompt = task.prompt BY <1>1, <2>1 DEF Tasks
  <2>3. client = "shell" => waiting = <<>> BY <2>1 DEF KInv, Lines
  <2> QED BY <1>2, <2>1, <2>2, <2>3, StillStep
<1>7. CASE Begin
  <2>1. work.pc = "new" /\ task' = task
        /\ (work' = [work EXCEPT !.pc = "never"] \/ work' = [work EXCEPT !.pc = "load"])
    BY <1>7 DEF Begin, At
  <2>2. work'.hand = work.hand BY <1>1, <2>1 DEF Works
  <2> QED BY <1>2, <2>1, <2>2, PrivateStep
<1>8. CASE LastDrained
  <2>1. task' = task /\ work' = [work EXCEPT !.pc = "idle"] BY <1>8 DEF LastDrained
  <2>2. work'.hand = work.hand /\ work'.pc = "idle" BY <1>1, <2>1 DEF Works
  <2> QED BY <1>2, <2>1, <2>2, PrivateStep
<1> QED BY <1>3, <1>4, <1>5, <1>6, <1>7, <1>8

LEMMA StepKInv == KInv /\ [Next]_vars => KInv'
<1> SUFFICES ASSUME KInv, [Next]_vars PROVE KInv' OBVIOUS
<1>1. IInv' BY StepIInv DEF KInv
<1>2. IInv BY DEF KInv
<1>3. SUFFICES Kept' /\ Lines' BY <1>1 DEF KInv
<1>4. ASSUME Client PROVE Kept' /\ Lines'
  BY <1>1, <1>4, FollowUpKept, SubmitKept, AcpPromptKept, StillKept, CancelTasksKept DEF Client
<1>5. ASSUME Task PROVE Kept' /\ Lines'
  BY <1>1, <1>5, TakeLockKept, TakeLeaseKept, StillKept, FallbackKept, CollectKept DEF Task
<1>6. ASSUME Moves(work'), UNCHANGED <<client, typed, pending, queue, waiting, task, log, lost>>
      PROVE  Kept' /\ Lines'
  BY <1>1, <1>6, PrivateStep DEF Moves
<1>7. ASSUME Execution PROVE Kept' /\ Lines'
  <2>1. CASE SeeStop \/ StartTurn \/ Settle \/ RunTool \/ BatchEnds
    <3>1. Private BY <2>1 DEF SeeStop, StartTurn, Settle, RunTool, BatchEnds, Quiet
    <3> QED BY <1>2, <1>6, <2>1, <3>1, ExecutionMoves DEF Private, input
  <2>2. CASE Drained BY <1>2, <1>6, <2>2, ConsideredMoves DEF Drained, Quiet, Private, input
  <2>3. CASE Verify BY <1>2, <1>6, <2>3, ConcludedMoves DEF Verify, Private, input
  <2>4. CASE Begin \/ Load \/ Interrupt \/ TakePrompt \/ StorePrompt
    BY <1>1, <2>4, StillKept, LoadKept, InterruptKept, TakePromptKept, StorePromptKept
  <2> QED BY <1>7, <2>1, <2>2, <2>3, <2>4 DEF Execution
<1>8. ASSUME Model PROVE Kept' /\ Lines'
  <2>1. Private BY <1>8 DEF Model, Invalid, Incomplete, Answer, Calls, Fail, Quiet
  <2> QED BY <1>2, <1>6, <1>8, <2>1, ModelMoves DEF Private, input
<1>9. ASSUME Job PROVE Kept' /\ Lines'
  <2>1. Private BY <1>9 DEF Job, JobWrites, JobEnds, Quiet
  <2> QED BY <1>2, <1>6, <1>9, <2>1, EndMoves DEF Private, input
<1>10. ASSUME Terminate PROVE Kept' /\ Lines'
  <2>1. CASE Close \/ VerifyExit \/ Output
    <3>1. Private BY <2>1 DEF Close, VerifyExit, Output, Quiet
    <3> QED BY <1>2, <1>6, <2>1, <3>1, EndMoves DEF Private, input
  <2>2. CASE Idle BY <1>2, <1>6, <2>2, EndMoves DEF Idle, input
  <2>3. CASE Complete BY <1>2, <1>6, <2>3, EndMoves DEF Complete, input
  <2>4. CASE LastDrained BY <1>1, <2>4, StillKept
  <2> QED BY <1>10, <2>1, <2>2, <2>3, <2>4 DEF Terminate
<1>11. ASSUME StoreFails PROVE Kept' /\ Lines' BY <1>1, <1>11, StoreFailsKept
<1>12. ASSUME UNCHANGED vars PROVE Kept' /\ Lines'
  <2>1. UNCHANGED <<client, typed, pending, queue, waiting, task, log, lost, work>> BY <1>12 DEF vars, input
  <2> QED BY <1>1, <2>1, PrivateStep
<1> QED BY <1>4, <1>5, <1>7, <1>8, <1>9, <1>10, <1>11, <1>12 DEF Next

LEMMA InitKInv == Init => KInv
<1> SUFFICES ASSUME Init PROVE KInv OBVIOUS
<1>1. IInv BY InitIInv
<1>2. log = <<>> /\ waiting = <<>> /\ queue = <<>> /\ pending = <<>> /\ task = NoTask /\ work = NoWork
      /\ typed = 0 /\ lost = {}
  BY DEF Init
<1>3. task.pc = "idle" BY <1>2 DEF NoTask
<1>4. Held = <<>> BY <1>2, NoWorkIs DEF Held, NoTask
<1>5. Ordered(log, waiting, Held, queue, pending) BY <1>2, <1>4, EmptyIs DEF Ordered, Before
<1>6. (1 .. typed) \ lost = {} /\ lost \subseteq 1 .. typed BY <1>2
<1>7. Kept BY <1>2, <1>4, <1>5, <1>6, EmptyIs DEF Kept
<1>8. Len(<<>>) = 0 OBVIOUS
<1>9. Lines BY <1>2, <1>3, <1>8 DEF Lines
<1> QED BY <1>1, <1>7, <1>9 DEF KInv

LEMMA KeptInOrder == KInv => FollowUpsKept
<1> SUFFICES ASSUME KInv PROVE FollowUpsKept OBVIOUS
<1>1. /\ Ordered(log, waiting, Held, queue, pending)
      /\ Elements(log) \cup Elements(waiting) \cup Elements(Held) \cup Elements(queue) \cup Elements(pending)
           = (1 .. typed) \ lost
      /\ log \in Seq(Nat) /\ waiting \in Seq(Nat) /\ Held \in Seq(Nat) /\ queue \in Seq(Nat) /\ pending \in Seq(Nat)
  BY KeptNow
<1> DEFINE L == Elements(log)
           W == Elements(waiting)
           H == Elements(Held)
           Q == Elements(queue)
           P == Elements(pending)
           a == log \o waiting
           b == a \o Held
           c == b \o queue
           d == c \o pending
<1>2. /\ Chain(log) /\ Chain(waiting) /\ Chain(Held) /\ Chain(queue) /\ Chain(pending)
      /\ Before(L, W) /\ Before(L, H) /\ Before(L, Q) /\ Before(L, P) /\ Before(W, H) /\ Before(W, Q)
      /\ Before(W, P) /\ Before(H, Q) /\ Before(H, P) /\ Before(Q, P)
  BY <1>1 DEF Ordered
<1>3. a \in Seq(Nat) /\ Elements(a) = L \cup W /\ Chain(a) BY <1>1, <1>2, CatIs
<1> HIDE DEF a
<1>4. b \in Seq(Nat) /\ Elements(b) = L \cup W \cup H /\ Chain(b)
  <2>1. Before(Elements(a), H) BY <1>2, <1>3 DEF Before
  <2>2. /\ a \o Held \in Seq(Nat)
        /\ Elements(a \o Held) = Elements(a) \cup Elements(Held)
        /\ Chain(a) /\ Chain(Held) /\ Before(Elements(a), Elements(Held)) => Chain(a \o Held)
    BY <1>1, <1>3, CatIs
  <2> QED BY <1>2, <1>3, <2>1, <2>2
<1> HIDE DEF b
<1>5. c \in Seq(Nat) /\ Elements(c) = L \cup W \cup H \cup Q /\ Chain(c)
  <2>1. Before(Elements(b), Q) BY <1>2, <1>4 DEF Before
  <2>2. /\ b \o queue \in Seq(Nat)
        /\ Elements(b \o queue) = Elements(b) \cup Elements(queue)
        /\ Chain(b) /\ Chain(queue) /\ Before(Elements(b), Elements(queue)) => Chain(b \o queue)
    BY <1>1, <1>4, CatIs
  <2> QED BY <1>2, <1>4, <2>1, <2>2
<1> HIDE DEF c
<1>6. d \in Seq(Nat) /\ Elements(d) = L \cup W \cup H \cup Q \cup P /\ Chain(d)
  <2>1. Before(Elements(c), P) BY <1>2, <1>5 DEF Before
  <2>2. /\ c \o pending \in Seq(Nat)
        /\ Elements(c \o pending) = Elements(c) \cup Elements(pending)
        /\ Chain(c) /\ Chain(pending) /\ Before(Elements(c), Elements(pending)) => Chain(c \o pending)
    BY <1>1, <1>5, CatIs
  <2> QED BY <1>2, <1>5, <2>1, <2>2
<1> HIDE DEF d
<1>7. d = log \o waiting \o Held \o queue \o pending BY DEF a, b, c, d
<1>8. {d[i] : i \in DOMAIN d} = (1 .. typed) \ lost BY <1>1, <1>6 DEF Elements
<1>9. \A i, k \in DOMAIN d : i < k => IF client = "shell" THEN d[i] < d[k] ELSE d[i] # d[k]
  BY <1>6 DEF Chain, InOrder
<1> QED BY <1>7, <1>8, <1>9 DEF FollowUpsKept

\* Every prompt the user gave is stored, on its way to the store in the order it was
\* given, or on record as lost to a stop or to a failing store.
THEOREM PromptsKept == Spec => []FollowUpsKept
BY InitKInv, StepKInv, KeptInOrder, PTL DEF Spec
=============================================================================
