---------------------------- MODULE MCToolLedger ----------------------------
(***************************************************************************)
(* Properties of ToolLedger and the instances TLC checks.                  *)
(***************************************************************************)
EXTENDS ToolLedger

TypeOK ==
    /\ \A i \in DOMAIN log :
          /\ log[i].role \in {"user", "assistant", "tool"}
          /\ log[i].calls \subseteq Calls
          /\ log[i].role = "tool" => log[i].kind \in Terminal /\ Cardinality(log[i].calls) = 1
    /\ row \in [Calls -> Rows]
    /\ entries \in [Calls -> Nat] /\ forgotten \subseteq Calls /\ bundle \subseteq Calls
    /\ raced \in BOOLEAN
    /\ pc \in {"rest", "read", "rows", "repair", "user", "model", "record", "batch",
               "unstarted", "close", "publish"}
    /\ stage \in {"resume", "final", "crashed"}
    /\ cpc \in [Calls -> ActiveAt \cup {"new", "recorded", "stopped", "failed"}]
    /\ live \in 0..ParallelReads
    /\ halt \in {"no", "cancelled", "fatal", "drained"}
    /\ evt \in BOOLEAN

ResultOf(c) == {log[i].kind : i \in {j \in DOMAIN log : log[j].role = "tool" /\ log[j].calls = {c}}}

\* Wherever a run is interrupted, the durable transcript is one that the next
\* run can repair: _abandoned_tool_call_results does not raise on it.  The
\* exception, here and below, is `raced`: a store call of a cancelled coroutine
\* changed the store after a later repair had read it.
TranscriptRepairable == raced \/ Repairable(log)

\* When a run has ended in its own process, its transcript needs no repair and
\* no tool call row is left running, whatever store calls are still on their way.
SettledAtRest ==
    pc = "rest" /\ stage = "final" /\ ~raced =>
        /\ ValidOrder(log)
        /\ \A c \in Calls : row[c] # "running"

\* The row and the transcript tell the same story of a call: their update is
\* one transaction, and only a call without a row may have a result alone.
RowMatchesResult ==
    raced \/ \A c \in Calls : \/ row[c] \in Terminal /\ ResultOf(c) = {row[c]}
                              \/ row[c] = "running" /\ ResultOf(c) = {}
                              \/ row[c] = "absent" /\ ResultOf(c) \subseteq {"not_started"}

\* A tool body is entered only after the durable row of its call exists, so
\* that a crash cannot lose the possibility of an effect.
IntentBeforeEffect == \A c \in executed : row[c] # "absent"

\* A settled outcome is never overwritten and the transcript only grows,
\* by whichever finalizer, retry or late thread.
OutcomesAreFinal ==
    [][/\ \A c \in Calls : row[c] \in Terminal => row'[c] = row[c]
       /\ IsPrefix(log, log')]_store

\* Every run ends, whatever is cancelled, fails or is still in a store thread.
RunEnds == (pc # "rest") ~> (pc = "rest")

\* Reads are interchangeable.
ReadSymmetry == Permutations(Reads)

Abstract == INSTANCE ToolOutcome WITH
    asked <- CallIds(log),
    outcome <- [c \in Calls |-> IF ResultOf(c) = {} THEN "none" ELSE CHOOSE k \in ResultOf(c) : TRUE]

\* The ledger gives every call the outcome ToolOutcome promises: a tool is
\* entered once, and what the transcript says of it is true, until a store call
\* that was passed by a repair has changed the store behind it.
ImplementsToolOutcome == Abstract!Init /\ [][Abstract!Next \/ raced']_(Abstract!absVars)
=============================================================================
