------------------------ MODULE ConversationBundles ------------------------
(***************************************************************************)
(* The pure part of agent/compaction.py: which tool outputs are superseded, *)
(* what an atomic bundle is, what the messages are evidence of, and the two *)
(* deterministic compactors.  A message is                                 *)
(*   [id, role; tag: what it is; calls: the ids of the results of an       *)
(*    assistant's calls; path: the file a result is about; cut: whether its *)
(*    content was replaced or truncated].                                  *)
(* Reads are of whole files.  Facts are sets of ids and paths, texts have  *)
(* unit sizes, and a repeated text is the same member.                     *)
(***************************************************************************)
EXTENDS Integers, FiniteSets, FiniteSetsExt, Sequences, SequencesExt

CONSTANTS
    NoPath,
    ReadSize,       \* size of a file that was read; other messages have size 1
    MaxFindings     \* how many findings are carried (twelve)

Ids(ms) == {ms[i].id : i \in DOMAIN ms}
Where(ms, Test(_)) == {i \in DOMAIN ms : Test(ms[i])}
Latest(S) == IF S = {} THEN 0 ELSE Max(S)
Instruction(m) == m.role = "user" /\ m.tag \in {"request", "steering", "continue"}

-----------------------------------------------------------------------------
(* prune_provider_messages                                                  *)

\* A later mutation or read of the file, or a repeated discovery.
Superseded(ms, i) ==
    \E k \in (i + 1)..Len(ms) :
        \/ ms[i].tag = "read" /\ ms[k].tag \in {"read", "edit"} /\ ms[k].path = ms[i].path
        \/ ms[i].tag = "git" /\ ms[k].tag = "git"

PruneMessages(ms) ==
    [i \in DOMAIN ms |-> IF Superseded(ms, i) THEN [ms[i] EXCEPT !.cut = TRUE] ELSE ms[i]]

-----------------------------------------------------------------------------
(* validate_tool_call_order and bundle_conversation                         *)

\* Every assistant call is followed by exactly one result.
ValidOrder(ms) ==
    /\ \A i \in DOMAIN ms : ms[i].role = "tool" =>
        \E a \in 1..(i - 1) : i <= a + Cardinality(ms[a].calls)
    /\ \A a \in DOMAIN ms :
        LET last == a + Cardinality(ms[a].calls) IN
        /\ last <= Len(ms)
        /\ {ms[k].id : k \in (a + 1)..last} = ms[a].calls
        /\ \A k \in (a + 1)..last : ms[k].role = "tool"
    /\ \A a, b \in DOMAIN ms : a # b => ms[a].calls \cap ms[b].calls = {}

\* Mutant of Starts: the results of a call are bundles of their own.
StartsAnywhere(ms) == DOMAIN ms

\* What the user says, and what is said in the user's name, takes the assistant's calls
\* with it, steering and verification results excepted; and a call takes its results.
Opens(m) == m.role = "user" /\ m.tag \notin {"steering", "verified"}
Starts(ms) ==
    {i \in DOMAIN ms :
        /\ ms[i].role # "tool"
        /\ ms[i].calls # {} /\ i > 1 => ~Opens(ms[i - 1])}

\* The newest k bundles, and what is before them.
NewestFrom(ms, k) ==
    LET S == Starts(ms) IN CHOOSE i \in S : Cardinality({s \in S : s >= i}) = k
Recent(ms, k) == SubSeq(ms, NewestFrom(ms, k), Len(ms))
Older(ms, k) == SubSeq(ms, 1, NewestFrom(ms, k) - 1)

-----------------------------------------------------------------------------
(* extract_compaction_evidence                                              *)

NoEvidence == [objective |-> 0, constraints |-> {}, work |-> {}, files |-> {}, findings |-> {},
               claims |-> {}, failures |-> {}, pending |-> {}, excerpts |-> {}]

\* The newest n of a set of ids.
Newest(n, S) == {x \in S : Cardinality({y \in S : y > x}) < n}
\* A script's completion notice reports changed files, too.
Edits(ms) == Where(ms, LAMBDA m : m.tag \in {"edit", "notice"})
EditedLater(ms, i, p) == \E k \in Edits(ms) : k > i /\ (p = NoPath \/ ms[k].path = p)

\* The user's messages that say something: recovery prompts count if nothing does.
Substantive(ms, base) ==
    LET users == Where(ms, Instruction)
        content == {i \in users : ms[i].tag # "continue"} IN
    IF content # {} THEN content ELSE IF base.objective # 0 THEN {} ELSE users

Objective(ms, base) ==
    LET said == Substantive(ms, base)
        asked == {i \in said : ms[i].tag # "steering"} IN
    IF asked # {} THEN ms[Max(asked)].id
    ELSE IF said # {} /\ base.objective = 0 THEN ms[Max(said)].id ELSE base.objective

\* Mutant of Claims: what an earlier artifact claims is kept as it is.
ClaimsKept(ms, base) ==
    LET v == Latest(Where(ms, LAMBDA m : m.tag = "verified"))
    IN IF v # 0 THEN {<<"verified", ms[v].id>>} ELSE base.claims

\* The latest verification and git state, neither older than a mutation.
Claims(ms, base) ==
    LET v == Latest(Where(ms, LAMBDA m : m.tag = "verified"))
        g == Latest(Where(ms, LAMBDA m : m.tag = "git"))
        e == Latest(Edits(ms))
        recorded == IF v # 0 THEN {<<"verified", ms[v].id>>} ELSE base.claims
        fresh == IF e > v /\ recorded # {} THEN {<<"stale verification", 0>>} ELSE recorded
    IN IF g = 0 THEN fresh
       ELSE {c \in fresh : c[1] \notin {"git", "stale git"}}
                \cup {IF g < e THEN <<"stale git", 0>> ELSE <<"git", ms[g].id>>}

\* The newest quotes, each with the file it quotes and whether it changed since.
Findings(ms, base) ==
    LET all == {[f EXCEPT !.stale = @ \/ EditedLater(ms, 0, f.path)] : f \in base.findings}
                   \cup {[id |-> ms[i].id, path |-> ms[i].path, stale |-> EditedLater(ms, i, ms[i].path)] :
                            i \in Where(ms, LAMBDA m : m.tag = "finding")}
    IN {f \in all : Cardinality({g \in all : g.id > f.id}) < MaxFindings}

\* A failure is open until the same invocation succeeds.
Failures(ms, base) ==
    LET ran == Latest(Where(ms, LAMBDA m : m.tag \in {"fail", "pass"})) IN
    IF ran = 0 THEN base.failures ELSE IF ms[ran].tag = "fail" THEN {"shell"} ELSE {}

\* The plan replaces the pending steps, and the completed ones that it names.
Pending(ms, base) ==
    LET p == Latest(Where(ms, LAMBDA m : m.tag \in {"plan", "done"})) IN
    IF p = 0 THEN base.pending ELSE IF ms[p].tag = "plan" THEN {"step"} ELSE {}
Work(ms, base) ==
    LET p == Latest(Where(ms, LAMBDA m : m.tag \in {"plan", "done"}))
        edited == base.work \cup {ms[i].path : i \in Edits(ms)} IN
    IF p = 0 THEN edited
    ELSE (edited \ {"step"}) \cup (IF ms[p].tag = "done" THEN {"step"} ELSE {})

Extract(ms, base) ==
    [objective |-> Objective(ms, base),
     constraints |-> Newest(3, base.constraints \cup {ms[i].id : i \in Newest(3, Substantive(ms, base))}),
     work |-> Work(ms, base),
     files |-> base.files \cup {ms[i].path : i \in Edits(ms)},
     findings |-> Findings(ms, base),
     claims |-> Claims(ms, base),
     failures |-> Failures(ms, base),
     pending |-> Pending(ms, base),
     excerpts |-> base.excerpts \cup Ids(ms)]

-----------------------------------------------------------------------------
(* Sizes                                                                    *)

InFull(m) == m.tag = "read" /\ ~m.cut
Size(ms) == Len(ms) + (ReadSize - 1) * Cardinality(Where(ms, InFull))
ToolOutput(ms) == Size(SelectSeq(ms, LAMBDA m : m.role = "tool"))

\* _shrink_diagnostic_messages: only the tails of tool outputs, if need be.
Trimmed(ms, limit) ==
    IF Size(ms) <= limit THEN ms
    ELSE [i \in DOMAIN ms |-> IF ms[i].role = "tool" THEN [ms[i] EXCEPT !.cut = TRUE] ELSE ms[i]]

\* What a summary cannot do without: the framing, the objective, a constraint.
Mandatory == 2
Facts(e) == Cardinality(e.work) + Cardinality(e.files) + Cardinality(e.findings)
                + Cardinality(e.claims) + Cardinality(e.failures) + Cardinality(e.pending)

\* _render_deterministic_summary: the oldest excerpts go first, then facts.
Summary(e, limit) ==
    LET room == limit - Mandatory IN
    [excerpts |-> Newest(room - Facts(e), e.excerpts), facts |-> Min({room, Facts(e)})]
SummarySize(s) == Mandatory + Cardinality(s.excerpts) + s.facts

-----------------------------------------------------------------------------
(* compact_messages_v1, compact_messages                                    *)

NoParent == [length |-> 0, evidence |-> NoEvidence, compacted |-> {}]
Outcome(o, ms) == [outcome |-> o, source |-> ms, older |-> {}, kept |-> ms,
                   evidence |-> NoEvidence, summary |-> [excerpts |-> {}, facts |-> 0]]

\* The newest k bundles behind a summary of the others; what an earlier artifact
\* has extracted and excerpted is not read again.
Candidate(ms, k, target, parent) ==
    LET older == Ids(Older(ms, k))
        kept == IF k = 1 THEN Trimmed(Recent(ms, 1), (target * 6) \div 10) ELSE Recent(ms, k)
        news == SubSeq(ms, parent.length + 1, Len(ms))
        evidence == [Extract(news, parent.evidence) EXCEPT
                        !.excerpts = parent.evidence.excerpts \cup (older \ parent.compacted)]
        room == target - Size(kept)
    IN [outcome |-> IF room >= Mandatory THEN "compacted" ELSE "too big",
        source |-> ms, older |-> older, kept |-> kept, evidence |-> evidence,
        summary |-> Summary(evidence, room)]

CompactV2(ms, keep, target, force, parent) ==
    LET n == Cardinality(Starts(ms))
        fitting == {k \in 1..Min({keep, Max({1, n - 1})}) :
                        Candidate(ms, k, target, parent).outcome = "compacted"}
    IN IF ~force /\ n <= keep + 1 /\ Size(ms) <= target THEN Outcome("same", ms)
       ELSE IF fitting = {} THEN Outcome("too big", ms)
       ELSE Candidate(ms, Max(fitting), target, parent)

\* Version 1 splits by messages, has a summary without evidence, and names as its
\* source only what it summarises.
CompactV1(ms, keep, target, force) ==
    LET splits == {i - 1 : i \in Starts(ms) \ {1}}
        near == {b \in splits : b <= Max({1, Len(ms) - keep})}
        Kept(b) == LET r == SubSeq(ms, b + 1, Len(ms)) IN IF Size(r) < target THEN r ELSE Trimmed(r, target)
        fitting == {b \in splits : (near # {} => b >= Max(near)) /\ Size(Kept(b)) < target}
        Split(b) == [Outcome("compacted", ms) EXCEPT
                        !.source = SubSeq(ms, 1, b), !.older = Ids(SubSeq(ms, 1, b)), !.kept = Kept(b)]
    IN IF ~force /\ Len(ms) <= keep + 2 /\ Size(ms) <= target THEN Outcome("same", ms)
       ELSE IF splits = {}
            THEN IF Size(ms) <= target THEN Outcome("same", ms)
                 ELSE IF Size(Trimmed(ms, target - 1)) < target
                      THEN [Outcome("compacted", ms) EXCEPT !.kept = Trimmed(ms, target - 1)]
                      ELSE Outcome("too big", ms)
       ELSE IF fitting = {} THEN Outcome("too big", ms) ELSE Split(Min(fitting))
=============================================================================
