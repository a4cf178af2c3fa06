------------------------- MODULE ContextCompaction -------------------------
(***************************************************************************)
(* What AgentRunner sends of a session: _prepare_provider_request of        *)
(* agent/runner.py, the compaction artifacts of sessions/store.py, the LLM  *)
(* summarizer, and prepare_route_request of agent/budget.py.  The history   *)
(* is durable and grows by what the user says and by the turns of the model; *)
(* between two turns a view of it is prepared that fits, and may overflow    *)
(* at the provider nevertheless.                                           *)
(***************************************************************************)
EXTENDS ConversationBundles

CONSTANTS
    Version, Llm,       \* agent.compaction_version; ~agent.deterministic_compaction
    KeepRecent,         \* bundles (messages, of version 1) kept verbatim if they fit
    Trigger, Target, Hard, RouteLimits,     \* limits of a request
    ToolVolume, LargeVolume,    \* context.compact_tool_output_tokens, and where it is large (4096)
    Reserve,            \* continuation state of a retained call
    ChunkSize, MaxChunks, MaxInstruction,   \* limits of the summarizer
    MaxRequests, MaxRetries,    \* max_model_requests, compaction_max_overflow_retries
    Paths, Asks, Hears, Results,    \* what can be said and what can come of a call
    MaxMessages                 \* bound of the exploration

ASSUME KeepAssumption == KeepRecent \in Nat \ {0}
ASSUME LimitsAssumption ==
    /\ {ReadSize, MaxFindings, Target, ToolVolume, LargeVolume, Reserve} \subseteq Nat
    /\ {ChunkSize, MaxChunks} \subseteq Nat \ {0}
ASSUME AsksAssumption == Asks \subseteq {"request", "continue"}
ASSUME ResultsAssumption == Results \subseteq Seq(STRING)
ASSUME PathsAssumption == "step" \notin Paths \cup {NoPath}

VARIABLES
    history,    \* the messages of the session
    artifacts,  \* its compaction_artifacts
    answered,   \* prompts of the summarizer in key_values, with whether they are valid
    pc,
    retries,    \* provider_overflow_retries
    previous,   \* previous_request_tokens
    requests,   \* Budget.model_requests
    target,     \* provider_message_target
    plan,       \* the deterministic compaction
    parent,     \* the artifact that it goes on from
    chunks,     \* the parts of the transcript that are to be summarized
    chosen,     \* the excerpts that the model chose
    guided,     \* history: the plan was fitted to a request with the guidance
    view        \* [messages, size of the summary, artifact, ids dropped by the route]

durable == <<history, artifacts, answered>>
work == <<target, plan, parent, chunks, chosen, guided>>
contextVars == <<durable, pc, retries, previous, requests, work, view>>

NoView == [messages |-> <<>>, summary |-> 0, artifact |-> 0, dropped |-> {}]
NoPlan == Outcome("same", <<>>)

-----------------------------------------------------------------------------
(* What a request is made of                                                *)

\* The protected task state: the user's instructions, which are in the system
\* prompt unless the message itself is all there is; and the guidance of a run that
\* has few requests left, which refresh_budget_guidance adds when it prepares a request
\* and again when the summarizer is done, to what was fitted without it.
Instructions == {history[i].id : i \in Where(history, Instruction)}
Guidance == IF MaxRequests - requests <= 2 THEN 1 ELSE 0
SystemSize == (IF Len(history) = 1 THEN 0 ELSE Cardinality(Instructions)) + Guidance

\* ContextBudget: what is left of a limit for the messages of a request.
Left(limit) == Max({1, limit - SystemSize - retries})
Held(ms) == Reserve * Cardinality(Where(ms, LAMBDA m : m.calls # {}))
Total(v) == SystemSize + v.summary + Size(v.messages) + Held(v.messages)

\* _compaction_config_fingerprint: of everything that shapes the request.
Config(strategy) == <<strategy, Instructions, retries>>
Intended == IF ~Llm \/ Version = 1 \/ retries > 0 THEN "deterministic" ELSE "llm"

\* latest_compaction_artifact, of the intended strategy or of its fallback.
OfConfig(strategy) ==
    {a \in DOMAIN artifacts : artifacts[a].config = Config(Intended) /\ artifacts[a].strategy = strategy}
LatestArtifact ==
    IF OfConfig(Intended) # {} THEN Max(OfConfig(Intended)) ELSE Latest(OfConfig("deterministic"))

\* Mutant of Suffix: the working view ends where the artifact does.
SuffixDropped(a) == <<>>

\* What was said after the last source of an artifact.
Suffix(a) ==
    LET after == {i \in DOMAIN history : \A id \in Ids(artifacts[a].source) : history[i].id > id}
    IN IF after = {} THEN <<>> ELSE SubSeq(history, Min(after), Len(history))

\* _reuse_incremental_compaction
Carried(a) == PruneMessages(artifacts[a].kept \o Suffix(a))
Reusable(a) == a # 0 /\ ValidOrder(Carried(a))
ViewOf(a) == [messages |-> Carried(a), summary |-> SummarySize(artifacts[a].summary),
              artifact |-> a, dropped |-> {}]
Plain == [NoView EXCEPT !.messages = PruneMessages(history)]

\* The working view; an overflow forgets the artifacts.
WorkingView ==
    LET a == IF retries = 0 THEN LatestArtifact ELSE 0
    IN IF Reusable(a) THEN ViewOf(a) ELSE Plain

\* Whether it is compacted; a sole request is not, unless the provider says so.
Bulky(v) == ToolOutput(v.messages) >= ToolVolume
MustCompact(v) == retries > 0 \/ (Len(v.messages) # 1 /\ (Total(v) >= Trigger \/ Bulky(v)))
Forced(v) == retries > 0 \/ Bulky(v)

\* provider_message_target
FirstTarget(v) ==
    LET part == IF ToolVolume >= LargeVolume THEN ToolVolume \div 4 ELSE (Size(history) * 85) \div 100
        bulky == IF Bulky(v) THEN {Max({2, part})} ELSE {}
        overflow == IF retries > 0 THEN {Max({2, (previous * 7) \div 10 - SystemSize})} ELSE {}
    IN Min({Left(Target)} \cup bulky \cup overflow)

\* The evidence of an artifact whose sources are a prefix of the view, unchanged.
ParentOf(a, ms) ==
    IF a # 0 /\ Version = 2 /\ IsPrefix(artifacts[a].source, ms)
    THEN [length |-> Len(artifacts[a].source), compacted |-> artifacts[a].older,
          evidence |-> [artifacts[a].evidence EXCEPT !.excerpts = artifacts[a].summary.excerpts]]
    ELSE NoParent

Compacted(limit, force, p) ==
    IF Version = 1 THEN CompactV1(PruneMessages(history), KeepRecent, limit, force)
    ELSE CompactV2(PruneMessages(history), KeepRecent, limit, force, p)

-----------------------------------------------------------------------------
(* Preparation                                                              *)

Refuse(why) == pc' = why /\ view' = NoView

\* The run asks the model: the working view, and whether it must be compacted.
Prepare ==
    /\ pc = "ready"
    /\ LET first == FirstTarget(WorkingView)
           p == ParentOf(LatestArtifact, Plain.messages)
           got == Compacted(first, Forced(WorkingView), p) IN
        \/ /\ SystemSize > Hard \/ (Len(history) = 1 /\ Total(WorkingView) > Hard)
           /\ Refuse("refused") /\ UNCHANGED work
        \/ /\ SystemSize <= Hard /\ ~MustCompact(WorkingView)
           /\ pc' = "route" /\ view' = WorkingView /\ UNCHANGED work
        \/ /\ SystemSize <= Hard /\ MustCompact(WorkingView)
           /\ guided' = (Guidance > 0) /\ target' = first /\ plan' = got /\ parent' = p /\ chosen' = {} /\ chunks' = <<>>
           /\ \/ got.outcome = "too big" /\ Refuse("refused")
              \/ got.outcome = "same" /\ pc' = "route" /\ view' = Plain
              \/ got.outcome = "compacted" /\ pc' = "tighten" /\ view' = NoView
    /\ UNCHANGED <<durable, retries, previous, requests>>

RetainedSize == SummarySize(plan.summary) + Size(plan.kept)
Tight == RetainedSize <= Left(Target) - Held(plan.kept)

\* _next_compaction_targets: the continuation state of what is kept needs space.
NextTarget == Min({target - 1, Left(Target) - Held(plan.kept)})

Tighten ==
    /\ pc = "tighten" /\ ~Tight
    /\ LET next == NextTarget
           got == Compacted(next, Forced(WorkingView), parent) IN
        \/ next <= 0 /\ Refuse("refused") /\ UNCHANGED <<target, plan>>
        \/ /\ next > 0 /\ target' = next /\ plan' = got
           /\ \/ got.outcome = "too big" /\ Refuse("refused")
              \/ got.outcome = "same" /\ pc' = "route" /\ view' = Plain
              \/ got.outcome = "compacted" /\ UNCHANGED <<pc, view>>
    /\ UNCHANGED <<durable, retries, previous, requests, parent, chunks, chosen, guided>>

\* reusable_compaction_artifact: the same source and the same messages kept.
Same(strategy) ==
    {a \in OfConfig(strategy) : artifacts[a].source = plan.source /\ artifacts[a].kept = plan.kept}
SameArtifact ==
    IF Same(Intended) # {} THEN Max(Same(Intended)) ELSE Latest(Same("deterministic"))

\* The messages that have aged out of the window since the parent, in chunks.
Transcript == plan.older \ parent.compacted
ChunkCount(n) == Min({MaxChunks, Max({1, (n + ChunkSize - 1) \div ChunkSize})})
ChunksOf(S) ==
    LET Chunk(x) == Cardinality({y \in S : y < x}) \div ChunkSize + 1
    IN [c \in 1..ChunkCount(Cardinality(S)) |-> {x \in S : Chunk(x) = c}]

\* The request that is left is for the answer.
LastRequest == requests + 1 >= MaxRequests

\* What becomes of the deterministic plan that fits.
Choose ==
    /\ pc = "tighten" /\ Tight
    /\ IF Intended = "llm" /\ SameArtifact = 0 /\ ~LastRequest
            /\ (Transcript # {} \/ parent.length > 0) /\ Facts(plan.evidence) < MaxInstruction
       THEN pc' = "summarize" /\ chunks' = ChunksOf(Transcript)
       ELSE pc' = "record" /\ chunks' = <<>>
    /\ UNCHANGED <<durable, retries, previous, requests, target, plan, parent, chosen, guided, view>>

-----------------------------------------------------------------------------
(* The summarizer                                                           *)

Prompt == <<[plan.evidence EXCEPT !.excerpts = {}], Head(chunks)>>
Known == {r \in answered : r.prompt = Prompt}

\* The next chunk, or the end: the excerpts are the model's, the facts are all there.
Accept(E) ==
    /\ chosen' = chosen \cup E
    /\ chunks' = Tail(chunks)
    /\ LET s == [excerpts |-> chosen' \cup parent.evidence.excerpts, facts |-> Facts(plan.evidence)]
           fits == SummarySize(s) + Size(plan.kept) <= target IN
        IF Len(chunks) > 1 THEN pc' = "summarize" /\ UNCHANGED plan
        ELSE /\ pc' = "record"
             /\ plan' = IF fits THEN [plan EXCEPT !.summary = s, !.outcome = "llm"] ELSE plan

\* Any failure falls back to the deterministic plan.
FallBack == pc' = "record" /\ chunks' = <<>> /\ UNCHANGED <<plan, chosen>>

\* Of an answer: either it is valid, with all of the chunk or nothing, or it is not.
Judge(valid) == IF valid THEN \E E \in {{}, Head(chunks)} : Accept(E) ELSE FallBack

SummarizeCached ==
    /\ pc = "summarize" /\ \E r \in Known : Judge(r.valid)
    /\ UNCHANGED <<durable, retries, previous, requests, target, parent, guided, view>>

\* The answer is durable before it is used.
Summarize ==
    /\ pc = "summarize" /\ Known = {} /\ requests < MaxRequests
    /\ requests' = requests + 1
    /\ \E valid \in BOOLEAN :
        answered' = answered \cup {[prompt |-> Prompt, valid |-> valid]} /\ Judge(valid)
    /\ UNCHANGED <<history, artifacts, retries, previous, target, parent, guided, view>>

\* A provider error that is retried takes another request.
SummaryFails ==
    /\ pc = "summarize" /\ Known = {} /\ requests < MaxRequests
    /\ requests' = requests + 1
    /\ FallBack \/ UNCHANGED <<pc, chunks, plan, chosen>>
    /\ UNCHANGED <<durable, retries, previous, target, parent, guided, view>>

NoRequestLeft ==
    /\ pc = "summarize" /\ Known = {} /\ requests >= MaxRequests
    /\ FallBack
    /\ UNCHANGED <<durable, retries, previous, requests, target, parent, guided, view>>

-----------------------------------------------------------------------------
(* _record_or_reuse_compaction_artifact                                     *)

Artifact ==
    [strategy |-> IF plan.outcome = "llm" THEN "llm" ELSE "deterministic",
     config |-> Config(Intended), source |-> plan.source, older |-> plan.older, kept |-> plan.kept,
     evidence |-> plan.evidence, summary |-> plan.summary]

Record ==
    /\ pc = "record"
    /\ LET old == SameArtifact
           fresh == old = 0
           used == IF fresh THEN Artifact ELSE artifacts[old]
           v == [messages |-> plan.kept, summary |-> SummarySize(used.summary),
                 artifact |-> IF fresh THEN Len(artifacts) + 1 ELSE old, dropped |-> {}] IN
        /\ artifacts' = IF fresh THEN Append(artifacts, Artifact) ELSE artifacts
        /\ IF ~ValidOrder(plan.kept) THEN Refuse("broken")
           ELSE IF Total(v) > Max({1, Target - retries}) THEN Refuse("broken")
           ELSE IF Total(v) > Hard THEN Refuse("refused")
           ELSE pc' = "route" /\ view' = v
    /\ UNCHANGED <<history, answered, retries, previous, requests, work>>

-----------------------------------------------------------------------------
(* prepare_route_request, and the provider                                  *)

\* The limits of the endpoint may ask for another compaction, of the view alone.
Route ==
    /\ pc = "route"
    /\ \E limit \in RouteLimits :
        LET room == ((limit - SystemSize - view.summary) * 8) \div 10
            got == CompactV2(PruneMessages(view.messages), 1, Max({1, room}), TRUE, NoParent) IN
        \/ /\ Total(view) <= Min({limit, Hard})
           /\ pc' = "send" /\ UNCHANGED view
        \/ /\ Total(view) > Min({limit, Hard})
           /\ IF Total(view) > Hard \/ room <= 0 \/ got.outcome # "compacted"
              THEN Refuse("refused")
              ELSE /\ view' = [view EXCEPT !.messages = got.kept, !.dropped = got.older,
                                           !.summary = @ + SummarySize(got.summary)]
                   /\ pc' = IF Total(view') <= limit THEN "send" ELSE "refused"
    /\ previous' = Total(view)
    /\ UNCHANGED <<durable, retries, requests, work>>

Message(id, role, tag, calls, path) ==
    [id |-> id, role |-> role, tag |-> tag, calls |-> calls, path |-> path, cut |-> FALSE]
Say(tag, p) == Append(history, Message(Len(history) + 1, "user", tag, {}, p))

\* An assistant turn with n calls and their results.
Turn(tags, p) ==
    LET n == Len(history) IN
    history \o <<Message(n + 1, "assistant", "calls", {n + 1 + i : i \in DOMAIN tags}, NoPath)>>
            \o [i \in DOMAIN tags |-> Message(n + 1 + i, "tool", tags[i], {}, p)]

Forget ==
    /\ view' = NoView
    /\ target' = 0 /\ plan' = NoPlan /\ parent' = NoParent /\ chunks' = <<>> /\ chosen' = {}
    /\ guided' = FALSE

\* A run is over: its memory is gone, the store is not.
End == pc' = "idle" /\ retries' = 0 /\ previous' = 0 /\ requests' = 0 /\ Forget

\* The model answers.
Answer ==
    /\ pc = "send" /\ requests < MaxRequests /\ Len(history) < MaxMessages
    /\ history' = Append(history, Message(Len(history) + 1, "assistant", "answer", {}, NoPath))
    /\ End /\ UNCHANGED <<artifacts, answered>>

\* The model calls tools.
Call ==
    /\ pc = "send" /\ requests < MaxRequests
    /\ requests' = requests + 1 /\ retries' = 0 /\ Forget
    /\ \E tags \in Results, p \in Paths :
        Len(history) + Len(tags) < MaxMessages /\ history' = Turn(tags, p)
    /\ pc' = "ready"
    /\ UNCHANGED <<artifacts, answered, previous>>

Overflow ==
    /\ pc = "send" /\ requests < MaxRequests
    /\ \/ retries >= MaxRetries /\ End
       \/ /\ retries < MaxRetries
          /\ requests' = requests + 1 /\ pc' = "ready" /\ retries' = retries + 1
          /\ Forget /\ UNCHANGED previous
    /\ UNCHANGED durable

\* No request is left, the context does not fit, or a check failed.
Stop ==
    /\ pc \in {"refused", "broken"} \/ (pc = "send" /\ requests >= MaxRequests)
    /\ End /\ UNCHANGED durable

\* A cancellation or a crash.
Interrupt ==
    /\ pc \in {"ready", "summarize", "send"}
    /\ End /\ UNCHANGED durable

\* The user starts a run.
Ask ==
    /\ pc = "idle" /\ Len(history) < MaxMessages
    /\ \E tag \in Asks : history' = Say(tag, NoPath)
    /\ pc' = "ready"
    /\ UNCHANGED <<artifacts, answered, retries, previous, requests, work, view>>

\* Steering, a verification result or a script's notice, between two turns.
Hear ==
    /\ pc = "ready" /\ retries = 0 /\ Len(history) < MaxMessages
    /\ \E tag \in Hears, p \in Paths :
        history' = Say(tag, IF tag = "notice" THEN p ELSE NoPath)
    /\ UNCHANGED <<artifacts, answered, pc, retries, previous, requests, work, view>>

ContextInit ==
    /\ history = <<>> /\ artifacts = <<>> /\ answered = {}
    /\ pc = "idle" /\ retries = 0 /\ previous = 0 /\ requests = 0 /\ view = NoView
    /\ target = 0 /\ plan = NoPlan /\ parent = NoParent /\ chunks = <<>> /\ chosen = {}
    /\ guided = FALSE

ContextNext ==
    \/ Prepare \/ Tighten \/ Choose \/ SummarizeCached \/ Summarize \/ SummaryFails \/ NoRequestLeft
    \/ Record \/ Route \/ Answer \/ Call \/ Overflow \/ Stop \/ Interrupt \/ Ask \/ Hear

ContextSpec == ContextInit /\ [][ContextNext]_contextVars

-----------------------------------------------------------------------------
(* Properties                                                               *)

\* A request carries every message of the session exactly once, in order: as it
\* is, or behind the summary of the artifact that the view goes on from, or
\* behind the summary that the route's limits asked for.
EverythingOnce ==
    pc = "send" =>
        LET ms == view.messages
            behind == (IF view.artifact = 0 THEN {} ELSE artifacts[view.artifact].older) \cup view.dropped
        IN /\ \A i, j \in DOMAIN ms : i < j => ms[i].id < ms[j].id
           /\ Ids(ms) \cap behind = {}
           /\ Ids(ms) \cup behind = Ids(history)

\* The evidence that is carried from artifact to artifact, of which each read only
\* what was new, is that of the whole conversation: no failure, pending step or
\* changed file is forgotten, none is resurrected, and neither a verification,
\* a git state nor a finding that a later edit made obsolete stands as current.
EvidenceFaithful ==
    \A a \in DOMAIN artifacts :
        LET ms == artifacts[a].source
            e == artifacts[a].evidence
            whole == Extract(ms, NoEvidence) IN
        Version = 2 =>
            /\ e.files = whole.files /\ e.work = whole.work
            /\ e.failures = whole.failures /\ e.pending = whole.pending
            /\ e.constraints \subseteq Ids(ms) /\ e.objective \in Ids(ms)
            /\ \A f \in e.findings : f.stale <=> EditedLater(ms, f.id, f.path)
            /\ \A c \in e.claims : c[1] \in {"verified", "git"} => \A k \in Edits(ms) : k < c[2]

\* A compaction never splits a call from its results, and what was fitted to its target
\* meets it.  The checks behind it fire in one case only: a run's last requests were
\* spent by the summarizer, and the guidance that this makes due was added to a request
\* that had been fitted without it.
OnlyGuidanceBreaks ==
    pc = "broken" => ValidOrder(plan.kept) /\ ~guided /\ Guidance > 0

\* The summarizer leaves a request for the answer.
AnswerFunded == pc = "summarize" => requests < MaxRequests
=============================================================================
