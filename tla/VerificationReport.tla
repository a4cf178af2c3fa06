------------------------- MODULE VerificationReport -------------------------
(***************************************************************************)
(* What a run knows of the workspace it changed, the report of a            *)
(* verification, and the text a run ends with: ToolContext, verification.py *)
(* and the functions of agent/runner.py that decide what a final answer may *)
(* say.  Commands and wording are left out: a text is known by what it      *)
(* claims.                                                                  *)
(***************************************************************************)
EXTENDS Naturals, Sequences

(* The context: what is known to have changed, and whether that is all.     *)
Contexts == [files : BOOLEAN, roots : BOOLEAN, complete : BOOLEAN, lifecycleOnly : BOOLEAN]
Clean == [files |-> FALSE, roots |-> FALSE, complete |-> TRUE, lifecycleOnly |-> FALSE]

\* A tool adds the file it wrote; so does the comparison of two scans.
Edited(c) == [c EXCEPT !.files = TRUE, !.roots = TRUE, !.lifecycleOnly = FALSE]

\* _mark_workspace_tracking_incomplete: lifecycleOnly, if all that is uncertain is
\* whether every process of a command has ended.
MarkIncomplete(c, lifecycle) ==
    [c EXCEPT !.complete = FALSE, !.roots = TRUE,
              !.lifecycleOnly = lifecycle /\ (c.complete \/ c.lifecycleOnly)]

\* _workspace_snapshot: the workspace after a command against the one before.  A scan
\* that is stopped, by its time limit or a cancellation, finds nothing out.
Scans == {"same", "changed", "unknown"}
Scanned(c, scan) ==
    CASE scan = "same" -> c
      [] scan = "changed" -> Edited(c)
      [] scan = "unknown" -> MarkIncomplete(c, FALSE)

\* What a new run finds of calls that an earlier one left behind: nothing to worry
\* about, files they wrote, or calls of which nobody knows what they did.
Recovered == {Clean, Edited(Clean), MarkIncomplete(Clean, FALSE)}

\* Nothing is known to have changed but a process may be alive.
OnlyLifecycle(c) == c.lifecycleOnly /\ ~c.files
Uncertain(c) == c.roots \/ ~c.complete

-----------------------------------------------------------------------------
(* Reports                                                                  *)

Reports == [checks : BOOLEAN, lifecycle : BOOLEAN, complete : BOOLEAN,
            why : {"none", "ran", "unchanged", "interrupted", "stale", "missing"}]
Report(checks, lifecycle, c, why) ==
    [checks |-> checks, lifecycle |-> lifecycle, complete |-> c.complete, why |-> why]
NoReport == Report(FALSE, FALSE, Clean, "none")

\* _no_change_verification, _interrupted_verification, and the reports that
\* _finish_run_output puts in the place of one that does not hold, or is missing.
Unchanged(c) == Report(TRUE, FALSE, c, "unchanged")
Interrupted(c) == Report(FALSE, FALSE, c, "interrupted")
Stale(c) == Report(FALSE, FALSE, c, "stale")
Missing(c) == Report(FALSE, FALSE, c, "missing")

\* What the steps planned for a root come to: all pass, one fails or is refused by
\* the policy, one leaves a process behind, or there was no time for the root.
Verdicts == {"passed", "leaked", "failed", "skipped"}
Passing == {"passed", "leaked"}

\* The roots are checked in order up to the first that fails.
Checked(verdicts) ==
    {i \in DOMAIN verdicts : \A j \in 1..(i - 1) : verdicts[j] \in Passing}

\* _verify_changes: the context and the report.
LeftOver(verdicts) == \E i \in Checked(verdicts) : verdicts[i] = "leaked"
Afterwards(c, verdicts) ==
    IF ~OnlyLifecycle(c) /\ LeftOver(verdicts) THEN MarkIncomplete(c, FALSE) ELSE c
Verified(c, verdicts) ==
    IF OnlyLifecycle(c) THEN Unchanged(c)
    ELSE Report(\A i \in DOMAIN verdicts : verdicts[i] \in Passing, ~LeftOver(verdicts),
                Afterwards(c, verdicts), "ran")

\* _verification_is_guaranteed
Guaranteed(r) == r # NoReport /\ r.checks /\ r.lifecycle /\ r.complete

-----------------------------------------------------------------------------
(* Texts: what the model says, which may claim that all was checked, the    *)
(* summary of a report, and an answer with the summary below it.            *)

Answers == {"answer", "claim"}

\* _verified_final_answer: whether the answer may stand, and what becomes of it.
MayStand(text, r) == text = "answer" /\ r.checks
VerifiedFinalAnswer(text, r) == IF MayStand(text, r) THEN "answer with summary" ELSE "summary"

\* _finish_run_output: the report a run publishes ...
FinalReport(c, r, current, autoVerify) ==
    LET known == IF r = NoReport /\ OnlyLifecycle(c) THEN Unchanged(c) ELSE r
    IN CASE r # NoReport /\ ~current -> Stale(c)
         [] known = NoReport /\ (~c.complete \/ (autoVerify /\ c.roots)) -> Missing(c)
         [] OTHER -> known

\* ... and the text.  An unfinished run tells its cause and the summary; safe, if the
\* answer passed _verified_final_answer.
FinalText(c, final, text, safe, ended) ==
    LET told == IF final.why = "missing" /\ c.roots THEN "summary" ELSE text
        qualified == ended /\ OnlyLifecycle(c) /\ ~safe
        stands == IF qualified THEN MayStand(told, final) ELSE safe
    IN IF final = NoReport \/ ~Uncertain(c) THEN told
       ELSE IF ~ended \/ (~Guaranteed(final) /\ ~stands) THEN "summary"
       ELSE IF qualified THEN VerifiedFinalAnswer(told, final) ELSE told
=============================================================================
