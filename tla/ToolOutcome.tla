---------------------------- MODULE ToolOutcome ----------------------------
(***************************************************************************)
(* What a session's transcript promises about the tool calls a model asks  *)
(* for, whatever happens to the run that owns them: bundles are asked one  *)
(* at a time, the tool of a call is entered at most once, and every call   *)
(* gets one outcome that is true of what happened to it.  The host may     *)
(* forget that a call has begun; only of such a call may it say wrongly    *)
(* that it was never started.  ToolLedger implements it.                   *)
(***************************************************************************)
EXTENDS Naturals

CONSTANT Calls

VARIABLES asked,     \* calls that appear in a durable assistant message
          entries,   \* how often the tool body of each call was entered
          forgotten, \* calls whose beginning the host has lost track of
          outcome    \* what the transcript says of each call

absVars == <<asked, entries, forgotten, outcome>>

Kinds == {"ran", "cancelled", "not_started", "unknown"}

\* An asked call the transcript says nothing of yet.
Pending == {c \in asked : outcome[c] = "none"}

Init == /\ asked = {}
        /\ entries = [c \in Calls |-> 0]
        /\ forgotten = {}
        /\ outcome = [c \in Calls |-> "none"]

\* The model may ask for new calls only when every earlier one is answered.
Ask(B) == /\ Pending = {}
          /\ B \cap asked = {}
          /\ asked' = asked \cup B
          /\ UNCHANGED <<entries, forgotten, outcome>>

Execute(c) == /\ c \in Pending /\ entries[c] = 0
              /\ entries' = [entries EXCEPT ![c] = 1]
              /\ UNCHANGED <<asked, forgotten, outcome>>

Forget(C) == /\ forgotten' = forgotten \cup C
             /\ UNCHANGED <<asked, entries, outcome>>

\* "ran" and "not_started" are claims of fact; "cancelled" and "unknown" are not.
Truthful(c, k) == /\ k = "ran" => entries[c] > 0
                  /\ k = "not_started" => entries[c] = 0 \/ c \in forgotten

Resolve(c, k) == /\ c \in Pending
                 /\ Truthful(c, k)
                 /\ outcome' = [outcome EXCEPT ![c] = k]
                 /\ UNCHANGED <<asked, entries, forgotten>>

Next == \/ \E B \in (SUBSET Calls) \ {{}} : Ask(B)
        \/ \E C \in SUBSET asked : Forget(C)
        \/ \E c \in Calls : Execute(c) \/ \E k \in Kinds : Resolve(c, k)

Spec == Init /\ [][Next]_absVars
=============================================================================
