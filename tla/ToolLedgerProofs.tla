-------------------------- MODULE ToolLedgerProofs --------------------------
(***************************************************************************)
(* ToolLedger, for every set of calls and any number of runs,              *)
(* cancellations, host failures and crashes: an effect always has a row,   *)
(* settled outcomes are final and the transcript only grows.  Until a      *)
(* store call that a repair did not wait for has changed the store behind  *)
(* it, the transcript can be repaired, agrees with the rows, is complete   *)
(* when a run has ended, and keeps what ToolOutcome promises.              *)
(***************************************************************************)
EXTENDS MCToolLedger, SequenceTheorems, FiniteSetTheorems, TLAPS

\* A store call on a row is about a call of the model.
Proper(o) ==
    /\ o.op \in {"start", "settle", "append"}
    /\ o.op # "append" => CallOf(o.msg) \in Calls /\ o.msg.kind \in Terminal

StoreOK == /\ row \in [Calls -> Rows]
           /\ \E S : log \in Seq(S)

\* Whatever is submitted to the store is proper, and batches are of known calls.
Submitted == /\ \A o \in orphans \cup passed \cup todo : Proper(o)
             /\ draft.calls \subseteq Calls /\ bundle \subseteq Calls

CallStates == ActiveAt \cup {"new", "recorded", "stopped", "failed"}
Placed == cpc \in [Calls -> CallStates]

\* The row of a call is there before its tool can be entered.
Intent == /\ entries \in [Calls -> Nat]
          /\ \A c \in Calls : c \in executed \/ cpc[c] = "started" => row[c] # "absent"

IInv == StoreOK /\ Submitted /\ Placed /\ Intent

\* What a step may do to the store.
Keeps == /\ \A c \in Calls : /\ row[c] # "absent" => row'[c] # "absent"
                             /\ row[c] \in Terminal => row'[c] = row[c]
         /\ IsPrefix(log, log')

\* A step that enters no tool and starts no call.
Steady == /\ entries' = entries
          /\ \A c \in Calls : cpc'[c] = "started" => cpc[c] = "started"

-----------------------------------------------------------------------------
(* The store                                                                *)

LEMMA ResultFields ==
    ASSUME NEW c, NEW kind, NEW by, NEW op
    PROVE  LET o == StoreCall(op, Result(c, kind, by)) IN
           o.op = op /\ CallOf(o.msg) = c /\ o.msg.kind = kind
BY DEF StoreCall, CallOf, Result, Message

LEMMA ProperResult ==
    ASSUME NEW c \in Calls, NEW kind \in Terminal, NEW by, NEW op \in {"start", "settle"}
    PROVE  Proper(StoreCall(op, Result(c, kind, by)))
BY ResultFields DEF Proper

LEMMA ProperAppend ==
    ASSUME NEW m
    PROVE  Proper(StoreCall("append", m))
BY DEF Proper, StoreCall

LEMMA PrefixOfAppend ==
    ASSUME NEW S, NEW s \in Seq(S), NEW m
    PROVE  /\ Append(s, m) \in Seq(S \cup {m})
           /\ IsPrefix(s, s) /\ IsPrefix(s, Append(s, m))
<1>1. s \in Seq(S \cup {m}) OBVIOUS
<1>2. /\ Append(s, m) \in Seq(S \cup {m}) /\ Len(Append(s, m)) = Len(s) + 1
      /\ \A i \in 1 .. Len(s) : Append(s, m)[i] = s[i]
  BY <1>1
<1>3. Len(s) \in Nat BY <1>1
<1>4. SubSeq(s, 1, Len(s)) = SubSeq(Append(s, m), 1, Len(s)) BY <1>1, <1>2, <1>3
<1> QED BY <1>2, <1>3, <1>4 DEF IsPrefix

LEMMA WithMessageGrows ==
    ASSUME StoreOK, NEW m, log' = WithMessage(m)
    PROVE  (\E S : log' \in Seq(S)) /\ IsPrefix(log, log')
<1>1. PICK S : log \in Seq(S) BY DEF StoreOK
<1> QED BY <1>1, PrefixOfAppend DEF WithMessage

\* A transaction settles a row once and never touches a settled one.
LEMMA PerformKeeps ==
    ASSUME StoreOK, NEW o, Proper(o), Perform(o)
    PROVE  StoreOK' /\ Keeps
<1>0. PICK S : log \in Seq(S) BY DEF StoreOK
<1>1. IsPrefix(log, log) BY <1>0, PrefixOfAppend
<1>2. CASE ~Accepted(o)
  BY <1>0, <1>1, <1>2 DEF Perform, StoreOK, Keeps, store
<1>3. CASE Accepted(o) /\ o.op = "start"
  <2>1. row[CallOf(o.msg)] \in {"absent", "running"} BY <1>3 DEF Accepted, StartAccepted
  <2>2. row' = [row EXCEPT ![CallOf(o.msg)] = "running"] /\ log' = log BY <1>3 DEF Perform
  <2> QED BY <1>0, <1>1, <1>3, <2>1, <2>2 DEF StoreOK, Keeps, Proper, Rows, Terminal
<1>4. CASE Accepted(o) /\ o.op = "settle"
  <2>1. row[CallOf(o.msg)] \in {"running", o.msg.kind} BY <1>4 DEF Accepted, SettleAccepted
  <2>2. row' = [row EXCEPT ![CallOf(o.msg)] = o.msg.kind] /\ log' = WithMessage(o.msg)
    BY <1>4 DEF Perform
  <2>3. (\E T : log' \in Seq(T)) /\ IsPrefix(log, log') BY <2>2, WithMessageGrows
  <2> QED BY <1>4, <2>1, <2>2, <2>3 DEF StoreOK, Keeps, Proper, Rows, Terminal
<1>5. CASE Accepted(o) /\ o.op = "append"
  <2>1. row' = row /\ log' = WithMessage(o.msg) BY <1>5 DEF Perform
  <2>2. (\E T : log' \in Seq(T)) /\ IsPrefix(log, log') BY <2>1, WithMessageGrows
  <2> QED BY <2>1, <2>2 DEF StoreOK, Keeps
<1> QED BY <1>2, <1>3, <1>4, <1>5 DEF Proper

LEMMA AwaitKeeps ==
    ASSUME StoreOK, NEW o, Proper(o), Await(o)
    PROVE  StoreOK' /\ Keeps /\ orphans' = orphans /\ passed' = passed
BY PerformKeeps DEF Await, threads

LEMMA QuietKeeps ==
    ASSUME StoreOK, UNCHANGED store
    PROVE  StoreOK' /\ Keeps
<1>1. PICK S : log \in Seq(S) BY DEF StoreOK
<1> QED BY <1>1, PrefixOfAppend DEF StoreOK, Keeps, store

LEMMA IntentKept ==
    ASSUME Intent, Keeps, Steady
    PROVE  Intent'
BY DEF Intent, Keeps, Steady, executed

-----------------------------------------------------------------------------
(* Steps: what is left to show of one that leaves the store alone, of one    *)
(* that makes a store call, and of one that stays out of the batch.          *)

LEMMA Quiet ==
    ASSUME IInv, UNCHANGED store, Submitted', Placed', Steady
    PROVE  IInv' /\ Keeps
BY QuietKeeps, IntentKept DEF IInv

LEMMA Waited ==
    ASSUME IInv, NEW o, Proper(o), Await(o), Submitted', Placed', Steady
    PROVE  IInv' /\ Keeps
BY AwaitKeeps, IntentKept DEF IInv

LEMMA OutOfBatch ==
    ASSUME IInv, entries' = entries, NoBatch \/ UNCHANGED batch
    PROVE  Placed' /\ Steady /\ bundle' \subseteq Calls
BY DEF IInv, Placed, Steady, NoBatch, batch, CallStates, Submitted

LEMMA ProperRepairs ==
    ASSUME NEW t, NEW running \in SUBSET Calls, NEW by, NEW m \in Repairs(t, running, by)
    PROVE  Proper(StoreCall(IF m.kind = "unknown" THEN "settle" ELSE "append", m))
<1>1. PICK c \in Unanswered(t) :
        m = Result(c, IF c \in running THEN "unknown" ELSE "not_started", by)
  BY DEF Repairs
<1>2. CASE c \in running
  <2>1. m = Result(c, "unknown", by) BY <1>1, <1>2
  <2>2. m.kind = "unknown" BY <2>1 DEF Result, Message
  <2>3. c \in Calls BY <1>2
  <2> QED BY <2>1, <2>2, <2>3, ProperResult DEF Terminal
<1>3. CASE c \notin running
  <2>1. m.kind = "not_started" BY <1>1, <1>3 DEF Result, Message
  <2> QED BY <2>1, ProperAppend
<1> QED BY <1>2, <1>3

-----------------------------------------------------------------------------
(* The run, outside of its batch                                            *)

LEMMA ReadingSteps ==
    ASSUME IInv,
           StartRun \/ ReadMessages \/ Repaired \/ ModelStops \/ Closed \/ CancelEvent
    PROVE  IInv' /\ Keeps
<1>1. UNCHANGED <<store, entries, todo, draft, batch>> /\ orphans' \cup passed' = orphans \cup passed
  BY DEF StartRun, ReadMessages, Repaired, ModelStops, Closed, CancelEvent, world, threads
<1>2. Placed' /\ Steady BY <1>1, OutOfBatch
<1>3. Submitted' BY <1>1 DEF IInv, Submitted, Proper, batch
<1> QED BY <1>1, <1>2, <1>3, Quiet

LEMMA ReadRowsStep ==
    ASSUME IInv, ReadRows
    PROVE  IInv' /\ Keeps
<1>1. UNCHANGED <<store, entries, orphans, passed, draft, batch>> BY DEF ReadRows, world, threads
<1>2. Placed' /\ Steady BY <1>1, OutOfBatch
<1>3. \A o \in todo' : Proper(o)
  <2> DEFINE running == {c \in Calls : row[c] = "running"}
  <2>1. CASE Repairable(seen)
    <3>1. todo' = {StoreCall(IF m.kind = "unknown" THEN "settle" ELSE "append", m) :
                       m \in Repairs(seen, running, stage)}
      BY <2>1 DEF ReadRows
    <3>2. running \in SUBSET Calls OBVIOUS
    <3> HIDE DEF running
    <3> QED BY <3>1, <3>2, ProperRepairs
  <2>2. CASE ~Repairable(seen)
    BY <2>2 DEF ReadRows
  <2> QED BY <2>1, <2>2
<1>4. Submitted' BY <1>1, <1>3 DEF IInv, Submitted, Proper, batch
<1> QED BY <1>1, <1>2, <1>4, Quiet

LEMMA ModelSteps ==
    ASSUME IInv, ModelAnswers \/ \E B \in (SUBSET Calls) \ {{}} : ModelAsks(B)
    PROVE  IInv' /\ Keeps
<1>1. UNCHANGED <<store, entries, orphans, passed, todo, batch>> BY DEF ModelAnswers, ModelAsks, world, threads
<1>2. Placed' /\ Steady BY <1>1, OutOfBatch
<1>3. draft'.calls \subseteq Calls
  BY DEF ModelAnswers, ModelAsks, IInv, Submitted, Answer, Advertise, Message
<1>4. Submitted' BY <1>1, <1>3 DEF IInv, Submitted, Proper, batch
<1> QED BY <1>1, <1>2, <1>4, Quiet

\* Messages appended by the run itself.
LEMMA AppendSteps ==
    ASSUME IInv, AppendUser \/ PublishResult
    PROVE  IInv' /\ Keeps
<1>1. UNCHANGED <<entries, orphans, passed, todo, draft, batch>>
  BY DEF AppendUser, PublishResult, Await, world, threads
<1>2. Placed' /\ Steady BY <1>1, OutOfBatch
<1>3. Submitted' BY <1>1 DEF IInv, Submitted, Proper, batch
<1>4. UNCHANGED store \/ \E m : Await(StoreCall("append", m))
  BY DEF AppendUser, PublishResult
<1> QED BY <1>2, <1>3, <1>4, Quiet, Waited, ProperAppend

LEMMA RecordAssistantStep ==
    ASSUME IInv, RecordAssistant
    PROVE  IInv' /\ Keeps
<1>1. /\ Await(StoreCall("append", draft))
      /\ UNCHANGED <<entries, orphans, passed, todo, cpc>>
      /\ bundle' \in {bundle, draft.calls} /\ draft' = NoMessage
  BY DEF RecordAssistant, Await, batch, world, threads
<1>2. Placed' /\ Steady BY <1>1 DEF IInv, Placed, Steady
<1>3. Submitted' BY <1>1 DEF IInv, Submitted, Proper, NoMessage, Message
<1> QED BY <1>1, <1>2, <1>3, Waited, ProperAppend

LEMMA RepairStep ==
    ASSUME IInv, NEW o \in todo, Repair(o)
    PROVE  IInv' /\ Keeps
<1>1. /\ Await(o) /\ Proper(o)
      /\ UNCHANGED <<entries, orphans, passed, draft, batch>>
      /\ todo' \subseteq todo
  BY DEF Repair, Await, IInv, Submitted, world, threads
<1>2. Placed' /\ Steady BY <1>1, OutOfBatch
<1>3. Submitted' BY <1>1 DEF IInv, Submitted, Proper, batch
<1> QED BY <1>1, <1>2, <1>3, Waited

LEMMA FindUnstartedStep ==
    ASSUME IInv, FindUnstarted
    PROVE  IInv' /\ Keeps
<1>1. UNCHANGED <<store, entries, orphans, passed, draft>> /\ NoBatch BY DEF FindUnstarted, world, threads
<1>2. Placed' /\ Steady /\ bundle' \subseteq Calls BY <1>1, OutOfBatch
<1>3. \A o \in todo' : \E c \in Calls : o = StoreCall("start", Unstarted(c))
  BY DEF FindUnstarted, Open, IInv, Submitted
<1>4. \A o \in todo' : Proper(o) BY <1>3, ProperResult DEF Unstarted, Terminal
<1>5. Submitted' BY <1>1, <1>2, <1>4 DEF IInv, Submitted, Proper
<1> QED BY <1>1, <1>2, <1>5, Quiet

LEMMA CloseCallStep ==
    ASSUME IInv, NEW o \in todo, CloseCall(o)
    PROVE  IInv' /\ Keeps
<1>1. Await(o) /\ Proper(o) /\ UNCHANGED <<entries, orphans, passed, draft, batch>>
  BY DEF CloseCall, Await, IInv, Submitted, world, threads
<1>2. Placed' /\ Steady BY <1>1, OutOfBatch
<1>3. CASE todo' \subseteq todo
  BY <1>1, <1>3, <1>2, Waited DEF IInv, Submitted, Proper, batch
<1>4. CASE o.op = "start" /\ todo' = (todo \ {o}) \cup {StoreCall("settle", o.msg)}
  <2>1. Proper(StoreCall("settle", o.msg)) BY <1>1, <1>4 DEF Proper, StoreCall
  <2>2. Submitted' BY <1>1, <1>4, <2>1 DEF IInv, Submitted, Proper, batch
  <2> QED BY <1>1, <1>2, <2>2, Waited
<1> QED BY <1>3, <1>4 DEF CloseCall

-----------------------------------------------------------------------------
(* The batch                                                                *)

\* A call's own step: only its place changes, and it is not started by it.
LEMMA Moved ==
    ASSUME IInv, NEW c \in Calls, NEW p \in CallStates \ {"started"}, MoveTo(c, p),
           entries' = entries
    PROVE  Placed' /\ Steady
BY DEF IInv, Placed, Steady, MoveTo

LEMMA CallSubmits ==
    ASSUME IInv, UNCHANGED <<passed, bundle, todo, draft>>, \A o \in orphans' \ orphans : Proper(o)
    PROVE  Submitted'
BY DEF IInv, Submitted, Proper

LEMMA QuietCallSteps ==
    ASSUME IInv, NEW c \in Calls,
           Begin(c) \/ ToolReturns(c) \/ HostFails(c) \/ StopOnEvent(c)
    PROVE  IInv' /\ Keeps
<1>1. UNCHANGED <<store, entries, orphans, passed, todo, draft, bundle>>
  BY DEF Begin, ToolReturns, HostFails, StopOnEvent, MoveTo, callUnchanged, world, threads
<1>2. \E p \in CallStates \ {"started"} : MoveTo(c, p)
  BY DEF Begin, ToolReturns, HostFails, StopOnEvent, CallStates, ActiveAt
<1>3. Placed' /\ Steady BY <1>1, <1>2, Moved
<1>4. Submitted' BY <1>1, CallSubmits
<1> QED BY <1>1, <1>3, <1>4, Quiet

LEMMA RefuseStep ==
    ASSUME IInv, NEW c \in Calls, Refuse(c)
    PROVE  IInv' /\ Keeps
<1>1. UNCHANGED <<store, entries, orphans, passed, todo, draft, bundle, cpc>>
  BY DEF Refuse, callUnchanged, world, threads
<1>2. Placed' /\ Steady BY <1>1 DEF IInv, Placed, Steady
<1>3. Submitted' BY <1>1, CallSubmits
<1> QED BY <1>1, <1>2, <1>3, Quiet

\* The row of a call is there once its start has been accepted.
LEMMA StartCallStep ==
    ASSUME IInv, NEW c \in Calls, StartCall(c)
    PROVE  IInv' /\ Keeps
<1> DEFINE o == StoreCall("start", Result(c, "not_started", "exec"))
<1>1. Await(o) /\ UNCHANGED <<entries, orphans, passed, todo, draft, bundle>>
  BY DEF StartCall, Await, MoveTo, callUnchanged, world, threads
<1>2. Proper(o) BY ProperResult DEF Terminal
<1>3. o.op = "start" /\ CallOf(o.msg) = c BY ResultFields
<1>4. \/ Accepted(o) /\ MoveTo(c, "started")
      \/ ~Accepted(o) /\ MoveTo(c, "failed")
  BY DEF StartCall
<1> HIDE DEF o
<1>5. StoreOK' /\ Keeps BY <1>1, <1>2, AwaitKeeps DEF IInv
<1>6. Submitted' BY <1>1, CallSubmits
<1>7. CASE ~Accepted(o) /\ MoveTo(c, "failed")
  <2>1. Placed' /\ Steady BY <1>1, <1>7, Moved DEF CallStates
  <2> QED BY <1>1, <1>2, <1>6, <2>1, Waited
<1>8. CASE Accepted(o) /\ MoveTo(c, "started")
  <2>1. cpc' = [cpc EXCEPT ![c] = "started"] BY <1>8 DEF MoveTo
  <2>2. Placed' BY <2>1 DEF IInv, Placed, CallStates, ActiveAt
  <2>3. row'[c] = "running" BY <1>1, <1>3, <1>8 DEF Await, Perform, IInv, StoreOK
  <2>4. Intent' BY <1>1, <1>5, <2>1, <2>3 DEF IInv, Intent, Keeps, Placed, executed
  <2> QED BY <1>5, <1>6, <2>2, <2>4 DEF IInv
<1> QED BY <1>4, <1>7, <1>8

LEMMA EnterToolStep ==
    ASSUME IInv, NEW c \in Calls, EnterTool(c)
    PROVE  IInv' /\ Keeps
<1>1. /\ UNCHANGED <<store, orphans, passed, todo, draft, bundle>>
      /\ cpc[c] = "started" /\ entries' = [entries EXCEPT ![c] = @ + 1]
      /\ cpc' = [cpc EXCEPT ![c] = "running"]
  BY DEF EnterTool, MoveTo, callUnchanged, world, threads
<1>2. StoreOK' /\ Keeps BY <1>1, QuietKeeps DEF IInv
<1>3. Submitted' BY <1>1, CallSubmits
<1>4. Placed' BY <1>1 DEF IInv, Placed, CallStates, ActiveAt
<1>5. Intent' BY <1>1, <1>2 DEF IInv, Intent, Keeps, Placed, executed
<1> QED BY <1>2, <1>3, <1>4, <1>5 DEF IInv

\* The steps that settle a row.
LEMMA SettlingSteps ==
    ASSUME IInv, NEW c \in Calls, RecordResult(c) \/ Unwind(c)
    PROVE  IInv' /\ Keeps
<1>1. \E kind \in {"ran", "cancelled"} : Await(StoreCall("settle", Result(c, kind, "exec")))
  BY DEF RecordResult, Unwind, RanResult
<1>2. \E o : Proper(o) /\ Await(o) BY <1>1, ProperResult DEF Terminal
<1>3. UNCHANGED <<entries, orphans, passed, todo, draft, bundle>>
  BY DEF RecordResult, Unwind, Await, MoveTo, callUnchanged, world, threads
<1>4. \E p \in CallStates \ {"started"} : MoveTo(c, p)
  BY DEF RecordResult, Unwind, CallStates, ActiveAt
<1>5. Placed' /\ Steady BY <1>3, <1>4, Moved
<1>6. Submitted' BY <1>3, CallSubmits
<1> QED BY <1>2, <1>5, <1>6, Waited

LEMMA GraceExpiresStep ==
    ASSUME IInv, NEW c \in Calls, GraceExpires(c)
    PROVE  IInv' /\ Keeps
<1>1. /\ orphans' = orphans \cup {StoreCall("settle", RanResult(c))}
      /\ MoveTo(c, "lost") /\ UNCHANGED <<store, entries, passed, todo, draft, bundle>>
  BY DEF GraceExpires, Abandon, MoveTo, callUnchanged, world, threads
<1>2. Placed' /\ Steady BY <1>1, Moved DEF CallStates, ActiveAt
<1>3. Proper(StoreCall("settle", RanResult(c))) BY ProperResult DEF RanResult, Terminal
<1>4. Submitted' BY <1>1, <1>3, CallSubmits
<1> QED BY <1>1, <1>2, <1>4, Quiet

\* A cancelled coroutine is never moved to where a tool is entered.
LEMMA InterruptedAt ==
    ASSUME NEW p \in ActiveAt
    PROVE  Interrupted(p) \in {"stopped", "stopping", "grace", "lost"}
<1>1. p \in {"starting", "stopping", "lost"} => Interrupted(p) = "stopped"
  BY DEF Interrupted
<1>2. p \in {"started", "running"} => Interrupted(p) = "stopping" BY DEF Interrupted
<1>3. p = "returned" => Interrupted(p) = "grace" BY DEF Interrupted
<1>4. p = "grace" => Interrupted(p) = "lost" BY DEF Interrupted
<1> QED BY <1>1, <1>2, <1>3, <1>4 DEF ActiveAt

LEMMA LeftProper ==
    ASSUME NEW c \in Calls, NEW o \in Left(c)
    PROVE  Proper(o)
<1>1. \/ o = StoreCall("start", Result(c, "not_started", "exec"))
      \/ o = StoreCall("settle", Result(c, "cancelled", "exec"))
      \/ o = StoreCall("settle", Result(c, "ran", "exec"))
  BY DEF Left, RanResult
<1> QED BY <1>1, ProperResult DEF Terminal

LEMMA DeliverSteps ==
    ASSUME IInv, NEW S \in SUBSET Active, Deliver(S), entries' = entries,
           UNCHANGED <<todo, draft>>
    PROVE  IInv' /\ Keeps
<1>1. S \subseteq Calls /\ \A c \in S : cpc[c] \in ActiveAt
  BY DEF Active, IInv, Submitted
<1>2. /\ cpc' = [c \in Calls |-> IF c \in S THEN Interrupted(cpc[c]) ELSE cpc[c]]
      /\ orphans' = orphans \cup UNION {Left(c) : c \in S}
      /\ UNCHANGED <<store, passed, bundle>>
  BY DEF Deliver, Abandon
<1>3. Placed' /\ Steady
  <2>1. \A c \in S : Interrupted(cpc[c]) \in CallStates \ {"started"}
    BY <1>1, InterruptedAt DEF CallStates, ActiveAt
  <2> QED BY <1>1, <1>2, <2>1 DEF IInv, Placed, Steady
<1>4. \A o \in orphans' \ orphans : Proper(o) BY <1>1, <1>2, LeftProper
<1>5. Submitted' BY <1>2, <1>4, CallSubmits
<1> QED BY <1>2, <1>3, <1>5, Quiet

LEMMA BatchEnds ==
    ASSUME IInv, BatchDone \/ BatchStopped
    PROVE  IInv' /\ Keeps
<1>1. /\ UNCHANGED <<store, entries, orphans, passed, todo, draft>>
      /\ NoBatch \/ UNCHANGED batch
  BY DEF BatchDone, BatchStopped, world, threads
<1>2. Placed' /\ Steady /\ bundle' \subseteq Calls BY <1>1, OutOfBatch
<1>3. Submitted' BY <1>1, <1>2 DEF IInv, Submitted, Proper
<1> QED BY <1>1, <1>2, <1>3, Quiet

-----------------------------------------------------------------------------
(* Cancellation, crashes and late threads                                   *)

LEMMA TaskCancelStep ==
    ASSUME IInv, TaskCancel
    PROVE  IInv' /\ Keeps
<1>1. entries' = entries BY DEF TaskCancel, world
<1>2. CASE Deliver(Active) /\ UNCHANGED <<todo, draft>>
  BY <1>1, <1>2, DeliverSteps
<1>3. CASE /\ NoBatch /\ todo' = {} /\ draft' = NoMessage
           /\ \E S : Abandon(S) /\ \A o \in S : Proper(o)
  <2>1. Placed' /\ Steady /\ bundle' \subseteq Calls BY <1>1, <1>3, OutOfBatch
  <2>2. Submitted'
    BY <1>3, <2>1 DEF IInv, Submitted, Proper, Abandon, NoMessage, Message
  <2> QED BY <1>3, <2>1, <2>2, Quiet DEF Abandon
<1>4. CASE /\ todo' = {} /\ UNCHANGED <<draft, batch>>
           /\ \E o \in todo : Abandon({o})
  <2>1. Placed' /\ Steady /\ bundle' \subseteq Calls BY <1>1, <1>4, OutOfBatch
  <2>2. Submitted' BY <1>4, <2>1 DEF IInv, Submitted, Proper, Abandon
  <2> QED BY <1>4, <2>1, <2>2, Quiet DEF Abandon
<1>5. ASSUME NEW S, S = CASE pc = "user" -> {StoreCall("append", UserMessage)}
                          [] pc = "record" -> {StoreCall("append", draft)}
                          [] OTHER -> {}
      PROVE \A o \in S : Proper(o)
  BY <1>5, ProperAppend
<1>6. \/ Deliver(Active) /\ UNCHANGED <<todo, draft>>
      \/ NoBatch /\ todo' = {} /\ draft' = NoMessage /\ \E S : Abandon(S) /\ \A o \in S : Proper(o)
      \/ todo' = {} /\ UNCHANGED <<draft, batch>> /\ \E o \in todo : Abandon({o})
  BY <1>5 DEF TaskCancel
<1> QED BY <1>2, <1>3, <1>4, <1>6

LEMMA CrashStep ==
    ASSUME IInv, Crash
    PROVE  IInv' /\ Keeps
<1>1. /\ UNCHANGED <<store, entries>> /\ NoBatch
      /\ orphans' = {} /\ passed' = {} /\ todo' = {} /\ draft' = NoMessage
  BY DEF Crash, world
<1>2. Placed' /\ Steady /\ bundle' \subseteq Calls BY <1>1, OutOfBatch
<1>3. Submitted' BY <1>1, <1>2 DEF Submitted, NoMessage, Message
<1> QED BY <1>1, <1>2, <1>3, Quiet

LEMMA LateSteps ==
    ASSUME IInv, NEW o \in orphans \cup passed, LateStore(o) \/ Withdraw(o)
    PROVE  IInv' /\ Keeps
<1>1. /\ Perform(o) \/ UNCHANGED store
      /\ Proper(o) /\ orphans' \subseteq orphans /\ passed' \subseteq passed
      /\ UNCHANGED <<entries, todo, draft, batch>>
  BY DEF LateStore, Withdraw, IInv, Submitted, world
<1>2. StoreOK' /\ Keeps BY <1>1, PerformKeeps, QuietKeeps DEF IInv
<1>3. Placed' /\ Steady BY <1>1, OutOfBatch
<1>4. Submitted' BY <1>1 DEF IInv, Submitted, Proper, batch
<1> QED BY <1>2, <1>3, <1>4, IntentKept DEF IInv

-----------------------------------------------------------------------------
LEMMA InitInv == Init => IInv
BY DEF Init, IInv, StoreOK, Submitted, Placed, Intent, executed, CallStates, Rows, NoMessage, Message

\* Every step preserves the invariant, settled rows and the transcript.
LEMMA StepInv == IInv /\ [Next]_vars => IInv' /\ Keeps
<1> SUFFICES ASSUME IInv, [Next]_vars PROVE IInv' /\ Keeps
  OBVIOUS
<1>1. CASE UNCHANGED vars
  <2>1. UNCHANGED <<store, entries, orphans, passed, todo, draft, batch>>
    BY <1>1 DEF vars, store, batch, world, threads
  <2>2. Placed' /\ Steady BY <2>1, OutOfBatch
  <2>3. Submitted' BY <2>1 DEF IInv, Submitted, Proper, batch
  <2> QED BY <2>1, <2>2, <2>3, Quiet
<1>2. CASE StartRun \/ CancelEvent BY <1>2, ReadingSteps
<1>3. CASE RunStep
  <2>1. CASE ReadMessages \/ Repaired \/ ModelStops \/ Closed BY <2>1, ReadingSteps
  <2>2. CASE ReadRows BY <2>2, ReadRowsStep
  <2>3. CASE AppendUser \/ PublishResult BY <2>3, AppendSteps
  <2>4. CASE \E o \in todo : Repair(o) \/ CloseCall(o) BY <2>4, RepairStep, CloseCallStep
  <2>5. CASE ModelAnswers \/ \E B \in (SUBSET Calls) \ {{}} : ModelAsks(B) BY <2>5, ModelSteps
  <2>6. CASE RecordAssistant BY <2>6, RecordAssistantStep
  <2>7. CASE DrainReads BY <2>7, DeliverSteps DEF DrainReads, callUnchanged, world
  <2>8. CASE BatchDone \/ BatchStopped BY <2>8, BatchEnds
  <2>9. CASE FindUnstarted BY <2>9, FindUnstartedStep
  <2> QED BY <1>3, <2>1, <2>2, <2>3, <2>4, <2>5, <2>6, <2>7, <2>8, <2>9 DEF RunStep
<1>4. ASSUME NEW c \in Calls, CallStep(c) PROVE IInv' /\ Keeps
  BY <1>4, QuietCallSteps, RefuseStep, StartCallStep, EnterToolStep, SettlingSteps,
     GraceExpiresStep DEF CallStep
<1>5. ASSUME NEW o \in orphans \cup passed, LateStore(o) \/ Withdraw(o) PROVE IInv' /\ Keeps
  BY <1>5, LateSteps
<1>6. CASE TaskCancel BY <1>6, TaskCancelStep
<1>7. CASE Crash BY <1>7, CrashStep
<1> QED BY <1>1, <1>2, <1>3, <1>4, <1>5, <1>6, <1>7 DEF Next, Idle

THEOREM InvHolds == Spec => []IInv
BY InitInv, StepInv, PTL DEF Spec

\* The write-ahead rule of start_tool_call: whatever is cancelled, fails or
\* crashes, a tool body is entered only after its call has a durable row.
THEOREM IntentHolds == Spec => []IntentBeforeEffect
<1>1. IInv => IntentBeforeEffect BY DEF IInv, Intent, IntentBeforeEffect, executed
<1> QED BY <1>1, InvHolds, PTL

\* complete_tool_call and cancel_tool_call: no finalizer, retry or late store
\* thread changes a settled outcome or drops a message.
THEOREM OutcomesStay == Spec => OutcomesAreFinal
<1>1. IInv /\ [Next]_vars =>
        [/\ \A c \in Calls : row[c] \in Terminal => row'[c] = row[c]
         /\ IsPrefix(log, log')]_store
  BY StepInv DEF Keeps
<1> QED BY <1>1, InvHolds, PTL DEF Spec, OutcomesAreFinal

-----------------------------------------------------------------------------
(* Transcripts                                                              *)

\* What the results of a call say in a transcript, and the calls it has a result of.
Kinds(t, c) == {t[i].kind : i \in {j \in DOMAIN t : t[j].role = "tool" /\ t[j].calls = {c}}}
Answered(t) == {c \in Calls : Kinds(t, c) # {}}
InLog(t, m) == \E i \in DOMAIN t : t[i] = m

\* Only results come after position i, which is none or a turn.
IsTurn(t, i) ==
    /\ i \in 0 .. Len(t) /\ (i = 0 \/ t[i].role # "tool")
    /\ \A j \in (i + 1) .. Len(t) : t[j].role = "tool"
\* The calls of the last turn.
Current(t) == IF LastTurn(t) = 0 THEN {} ELSE t[LastTurn(t)].calls

\* Results follow the bundle that asked for them, one for each call, and every bundle but
\* the last is complete.
ResultsFollow(t) ==
    \A j \in DOMAIN t : t[j].role = "tool" =>
        \E i \in 1 .. (j - 1) : /\ IsBundle(t[i]) /\ \A k \in (i + 1) .. j : t[k].role = "tool"
                                /\ \E c \in t[i].calls : t[j].calls = {c}
ResultsOnce(t) ==
    \A j, k \in DOMAIN t : t[j].role = "tool" /\ t[k].role = "tool" /\ t[j].calls = t[k].calls => j = k
BundlesApart(t) ==
    \A i, k \in DOMAIN t : IsBundle(t[i]) /\ IsBundle(t[k]) /\ i # k => t[i].calls \cap t[k].calls = {}
BundlesDone(t) ==
    \A i \in DOMAIN t : IsBundle(t[i]) => \A c \in t[i].calls :
        \/ \E j \in DOMAIN t : t[j].role = "tool" /\ t[j].calls = {c}
        \/ \A k \in (i + 1) .. Len(t) : t[k].role = "tool"
Messages(t) ==
    /\ \E S : t \in Seq(S)
    /\ \A i \in DOMAIN t : /\ t[i].role \in {"user", "assistant", "tool"} /\ t[i].calls \subseteq Calls
                           /\ t[i].role = "user" => t[i].calls = {}
Orderly(t) ==
    /\ Messages(t) /\ \E i \in 0 .. Len(t) : IsTurn(t, i)
    /\ ResultsFollow(t) /\ ResultsOnce(t) /\ BundlesApart(t) /\ BundlesDone(t)

LEMMA SeqIs ==
    ASSUME NEW t, Messages(t)
    PROVE  Len(t) \in Nat /\ DOMAIN t = 1 .. Len(t)
<1> PICK S : t \in Seq(S) BY DEF Messages
<1> QED OBVIOUS

LEMMA AppendIs ==
    ASSUME NEW t, Messages(t), NEW m
    PROVE  LET r == Append(t, m) IN
           /\ \E S : r \in Seq(S)
           /\ Len(t) \in Nat /\ DOMAIN t = 1 .. Len(t)
           /\ Len(r) = Len(t) + 1 /\ DOMAIN r = 1 .. (Len(t) + 1)
           /\ \A i \in 1 .. Len(t) : r[i] = t[i]
           /\ r[Len(t) + 1] = m
<1> PICK S : t \in Seq(S) BY DEF Messages
<1>1. t \in Seq(S \cup {m}) OBVIOUS
<1> QED BY <1>1

\* The last turn is where only results follow.
LEMMA TurnIs ==
    ASSUME NEW t, Messages(t), NEW i, IsTurn(t, i)
    PROVE  LastTurn(t) = i
<1>0. Len(t) \in Nat BY SeqIs
<1> DEFINE P(k) == /\ k = 0 \/ t[k].role # "tool"
                   /\ \A j \in (k + 1) .. Len(t) : t[j].role = "tool"
<1>1. i \in 0 .. Len(t) /\ P(i) BY DEF IsTurn
<1>2. ASSUME NEW k \in 0 .. Len(t), P(k) PROVE k = i
  <2>1. CASE k < i
    <3>1. i \in (k + 1) .. Len(t) /\ i # 0 BY <1>0, <1>1, <2>1
    <3> QED BY <1>1, <1>2, <3>1
  <2>2. CASE i < k
    <3>1. k \in (i + 1) .. Len(t) /\ k # 0 BY <1>0, <1>1, <1>2, <2>2
    <3> QED BY <1>1, <1>2, <3>1
  <2> QED BY <1>0, <1>1, <1>2, <2>1, <2>2
<1> QED BY <1>1, <1>2 DEF LastTurn

LEMMA TurnOf ==
    ASSUME NEW t, Orderly(t)
    PROVE  IsTurn(t, LastTurn(t))
BY TurnIs DEF Orderly

LEMMA AnsweredIs ==
    ASSUME NEW t, NEW c \in Calls
    PROVE  c \in Answered(t) <=> \E j \in DOMAIN t : t[j].role = "tool" /\ t[j].calls = {c}
BY DEF Answered, Kinds

\* Whoever is answered was asked; what the last turn asked is among what was asked.
LEMMA Asked ==
    ASSUME NEW t, Orderly(t)
    PROVE  /\ Answered(t) \subseteq CallIds(t) /\ Current(t) \subseteq CallIds(t)
           /\ CallIds(t) \subseteq Calls
<1>0. Len(t) \in Nat /\ DOMAIN t = 1 .. Len(t) BY SeqIs DEF Orderly
<1>1. ASSUME NEW c \in Answered(t) PROVE c \in CallIds(t)
  <2>1. PICK j \in DOMAIN t : t[j].role = "tool" /\ t[j].calls = {c} BY AnsweredIs DEF Answered
  <2>2. PICK i \in 1 .. (j - 1) : IsBundle(t[i]) /\ \E d \in t[i].calls : t[j].calls = {d}
    BY <2>1 DEF Orderly, ResultsFollow
  <2>3. c \in t[i].calls BY <2>1, <2>2
  <2>4. i \in DOMAIN t BY <1>0, <2>1, <2>2
  <2> QED BY <2>2, <2>3, <2>4 DEF CallIds
<1>2. ASSUME NEW c \in Current(t) PROVE c \in CallIds(t)
  <2>1. LastTurn(t) # 0 /\ c \in t[LastTurn(t)].calls BY DEF Current
  <2>2. IsTurn(t, LastTurn(t)) BY TurnOf
  <2>3. LastTurn(t) \in DOMAIN t /\ t[LastTurn(t)].role # "tool" BY <1>0, <2>1, <2>2 DEF IsTurn
  <2>4. IsBundle(t[LastTurn(t)]) BY <2>1, <2>3 DEF Orderly, Messages, IsBundle
  <2> QED BY <2>1, <2>3, <2>4 DEF CallIds
<1>3. CallIds(t) \subseteq Calls BY DEF CallIds, Orderly, Messages
<1> QED BY <1>1, <1>2, <1>3

\* What is behind the last turn, and the calls that have no result there.
LEMMA UnansweredIs ==
    ASSUME NEW t, Orderly(t)
    PROVE  Unanswered(t) = Current(t) \ Answered(t)
<1>0. Len(t) \in Nat /\ DOMAIN t = 1 .. Len(t) BY SeqIs DEF Orderly
<1> DEFINE l == LastTurn(t)
<1>1. IsTurn(t, l) BY TurnOf
<1>2. CASE l = 0 BY <1>2 DEF Unanswered, Current
<1>3. CASE l # 0
  <2>1. l \in DOMAIN t /\ t[l].role # "tool" /\ \A j \in (l + 1) .. Len(t) : t[j].role = "tool"
    BY <1>0, <1>1, <1>3 DEF IsTurn
  <2>2. Following(t, l) = (l + 1) .. Len(t) BY <1>0, <2>1 DEF Following
  <2>3. ASSUME NEW c \in t[l].calls, NEW j \in DOMAIN t, t[j].role = "tool", t[j].calls = {c}
        PROVE  j \in Following(t, l)
    <3>1. PICK i \in 1 .. (j - 1) : /\ IsBundle(t[i]) /\ \A k \in (i + 1) .. j : t[k].role = "tool"
                                    /\ \E d \in t[i].calls : t[j].calls = {d}
      BY <2>3 DEF Orderly, ResultsFollow
    <3>2. c \in t[i].calls BY <2>3, <3>1
    <3>5. i \in DOMAIN t BY <1>0, <3>1
    <3>3. IsBundle(t[l]) BY <2>1 DEF Orderly, Messages, IsBundle
    <3>4. i = l BY <2>1, <2>3, <3>1, <3>2, <3>3, <3>5 DEF Orderly, BundlesApart
    <3> QED BY <1>0, <2>2, <3>1, <3>4
  <2>4. t[l].calls \subseteq Calls BY <2>1 DEF Orderly, Messages
  <2>5. Unanswered(t) = {c \in t[l].calls : \A j \in Following(t, l) : t[j].calls # {c}}
    BY <1>3 DEF Unanswered
  <2>6. Current(t) = t[l].calls BY <1>3 DEF Current
  <2>7. \A j \in Following(t, l) : j \in DOMAIN t /\ t[j].role = "tool" BY <1>0, <2>1, <2>2
  <2> HIDE DEF l
  <2>8. ASSUME NEW c \in t[l].calls
        PROVE  c \in Answered(t) <=> \E j \in Following(t, l) : t[j].calls = {c}
    BY <2>3, <2>4, <2>7, <2>8, AnsweredIs
  <2> QED BY <2>5, <2>6, <2>8
<1> QED BY <1>2, <1>3

\* A turn behind a transcript that has no open call.
LEMMA TurnAppended ==
    ASSUME NEW t, Orderly(t), Unanswered(t) = {}, NEW m, m.role \in {"user", "assistant"},
           m.calls \subseteq Calls, m.role = "user" => m.calls = {}, m.calls \cap CallIds(t) = {}
    PROVE  LET r == Append(t, m) IN
           /\ Orderly(r) /\ Current(r) = m.calls /\ Answered(r) = Answered(t)
           /\ \A c \in Calls : Kinds(r, c) = Kinds(t, c)
           /\ Unanswered(r) = m.calls
<1> DEFINE r == Append(t, m)
           n == Len(t)
<1>0. /\ (\E S : r \in Seq(S)) /\ n \in Nat /\ DOMAIN t = 1 .. n /\ Len(r) = n + 1 /\ DOMAIN r = 1 .. (n + 1)
      /\ (\A i \in 1 .. n : r[i] = t[i]) /\ r[n + 1] = m
  BY AppendIs, SMTT(60) DEF Orderly
<1> HIDE DEF r, n
<1>1. m.role # "tool" /\ r[n + 1].role # "tool" BY <1>0
<1>2. Messages(r)
  <2>1. ASSUME NEW i \in DOMAIN r PROVE /\ r[i].role \in {"user", "assistant", "tool"} /\ r[i].calls \subseteq Calls
                                        /\ r[i].role = "user" => r[i].calls = {}
    <3>1. CASE i \in 1 .. n BY <1>0, <3>1 DEF Orderly, Messages
    <3>2. CASE i = n + 1 BY <1>0, <3>2
    <3> QED BY <1>0, <3>1, <3>2
  <2> QED BY <1>0, <2>1 DEF Messages
<1>3. IsTurn(r, n + 1) BY <1>0, <1>1 DEF IsTurn
<1>4. LastTurn(r) = n + 1 BY <1>2, <1>3, TurnIs
<1>5. Current(r) = m.calls BY <1>0, <1>4 DEF Current
<1>6. \A c : Kinds(r, c) = Kinds(t, c)
  <2> TAKE c
  <2>1. {j \in DOMAIN r : r[j].role = "tool" /\ r[j].calls = {c}} = {j \in DOMAIN t : t[j].role = "tool" /\ t[j].calls = {c}}
    BY <1>0, <1>1
  <2>2. \A j \in {j \in DOMAIN t : t[j].role = "tool" /\ t[j].calls = {c}} : r[j].kind = t[j].kind BY <1>0
  <2> QED BY <2>1, <2>2 DEF Kinds
<1>7. Answered(r) = Answered(t) BY <1>6 DEF Answered
<1>8. ResultsFollow(r)
  <2> SUFFICES ASSUME NEW j \in DOMAIN r, r[j].role = "tool"
               PROVE  \E i \in 1 .. (j - 1) : /\ IsBundle(r[i]) /\ \A k \in (i + 1) .. j : r[k].role = "tool"
                                              /\ \E c \in r[i].calls : r[j].calls = {c}
    BY DEF ResultsFollow
  <2>1. j \in 1 .. n /\ t[j].role = "tool" /\ r[j] = t[j] BY <1>0, <1>1
  <2>2. PICK i \in 1 .. (j - 1) : /\ IsBundle(t[i]) /\ \A k \in (i + 1) .. j : t[k].role = "tool"
                                  /\ \E c \in t[i].calls : t[j].calls = {c}
    BY <1>0, <2>1 DEF Orderly, ResultsFollow
  <2>3. \A k \in i .. j : r[k] = t[k] BY <1>0, <2>1, <2>2
  <2>4. r[i] = t[i] /\ \A k \in (i + 1) .. j : r[k].role = "tool" BY <2>1, <2>2, <2>3
  <2> QED BY <2>1, <2>2, <2>4
<1>9. ResultsOnce(r)
  <2>1. \A j \in DOMAIN r : r[j].role = "tool" => j \in DOMAIN t /\ r[j] = t[j] BY <1>0, <1>1
  <2>2. ResultsOnce(t) BY DEF Orderly
  <2> QED BY <2>1, <2>2 DEF ResultsOnce
<1>10. \A i \in DOMAIN t : IsBundle(t[i]) => t[i].calls \subseteq CallIds(t) BY DEF CallIds
<1>11. BundlesApart(r)
  <2> SUFFICES ASSUME NEW i \in DOMAIN r, NEW k \in DOMAIN r, IsBundle(r[i]), IsBundle(r[k]), i # k
               PROVE  r[i].calls \cap r[k].calls = {}
    BY DEF BundlesApart
  <2>1. CASE i \in DOMAIN t /\ k \in DOMAIN t BY <1>0, <2>1 DEF Orderly, BundlesApart
  <2>2. CASE i = n + 1 /\ k \in DOMAIN t BY <1>0, <1>10, <2>2
  <2>3. CASE k = n + 1 /\ i \in DOMAIN t BY <1>0, <1>10, <2>3
  <2> QED BY <1>0, <2>1, <2>2, <2>3
<1>12. BundlesDone(r)
  <2> SUFFICES ASSUME NEW i \in DOMAIN r, IsBundle(r[i]), NEW c \in r[i].calls
               PROVE  \/ \E j \in DOMAIN r : r[j].role = "tool" /\ r[j].calls = {c}
                      \/ \A k \in (i + 1) .. Len(r) : r[k].role = "tool"
    BY DEF BundlesDone
  <2>1. CASE i = n + 1 BY <1>0, <2>1
  <2>2. CASE i \in DOMAIN t
    <3>1. r[i] = t[i] /\ c \in Calls /\ c \in t[i].calls BY <1>0, <2>2 DEF Orderly, Messages
    <3>2. CASE \A k \in (i + 1) .. n : t[k].role = "tool"
      <4>1. IsTurn(t, i) BY <1>0, <2>2, <3>1, <3>2 DEF IsTurn, IsBundle, n
      <4>2. LastTurn(t) = i BY <4>1, TurnIs DEF Orderly
      <4>3. Current(t) = t[i].calls BY <1>0, <2>2, <4>2 DEF Current
      <4>4. c \in Answered(t) BY <3>1, <4>3, UnansweredIs
      <4>5. \E j \in DOMAIN t : t[j].role = "tool" /\ t[j].calls = {c} BY <3>1, <4>4, AnsweredIs
      <4> QED BY <1>0, <4>5
    <3>3. CASE \E j \in DOMAIN t : t[j].role = "tool" /\ t[j].calls = {c} BY <1>0, <3>3
    <3> QED BY <2>2, <3>1, <3>2, <3>3 DEF Orderly, BundlesDone, n
  <2> QED BY <1>0, <2>1, <2>2
<1>13. Orderly(r) BY <1>0, <1>2, <1>3, <1>8, <1>9, <1>11, <1>12 DEF Orderly
<1>14. Unanswered(r) = m.calls
  <2>1. Unanswered(r) = m.calls \ Answered(t) BY <1>5, <1>7, <1>13, UnansweredIs
  <2> QED BY <2>1, Asked
<1> QED BY <1>5, <1>6, <1>7, <1>13, <1>14 DEF r

\* The first result of an open call.
LEMMA ResultAppended ==
    ASSUME NEW t, Orderly(t), NEW c \in Unanswered(t), NEW m, m.role = "tool", m.calls = {c}
    PROVE  LET r == Append(t, m) IN
           /\ Orderly(r) /\ Current(r) = Current(t) /\ Answered(r) = Answered(t) \cup {c}
           /\ \A d \in Calls \ {c} : Kinds(r, d) = Kinds(t, d)
           /\ Kinds(r, c) = {m.kind}
           /\ Unanswered(r) = Unanswered(t) \ {c}
<1> DEFINE r == Append(t, m)
           n == Len(t)
           l == LastTurn(t)
<1>a. Messages(t) BY DEF Orderly
<1>0. /\ (\E S : r \in Seq(S)) /\ n \in Nat /\ DOMAIN t = 1 .. n /\ Len(r) = n + 1 /\ DOMAIN r = 1 .. (n + 1)
      /\ (\A i \in 1 .. n : r[i] = t[i]) /\ r[n + 1] = m
  BY <1>a, AppendIs, SMTT(60)
<1>1. c \in Current(t) /\ c \notin Answered(t) BY UnansweredIs
<1>2. c \in Calls BY <1>1, Asked
<1>3. IsTurn(t, l) BY TurnOf
<1>4. l # 0 /\ c \in t[l].calls BY <1>1 DEF Current
<1>5. l \in 1 .. n /\ t[l].role # "tool" /\ \A j \in (l + 1) .. n : t[j].role = "tool" BY <1>0, <1>3, <1>4 DEF IsTurn
<1>6. \A j \in DOMAIN t : t[j].role = "tool" => t[j].calls # {c} BY <1>1, <1>2, AnsweredIs
<1>7. Current(t) = t[l].calls BY <1>4 DEF Current
<1> HIDE DEF r, n, l
<1>8. Messages(r)
  <2>1. ASSUME NEW i \in DOMAIN r PROVE /\ r[i].role \in {"user", "assistant", "tool"} /\ r[i].calls \subseteq Calls
                                        /\ r[i].role = "user" => r[i].calls = {}
    <3>1. CASE i \in 1 .. n BY <1>0, <3>1 DEF Orderly, Messages
    <3>2. CASE i = n + 1 BY <1>0, <1>2, <3>2
    <3> QED BY <1>0, <3>1, <3>2
  <2> QED BY <1>0, <2>1 DEF Messages
<1>9. IsBundle(t[l]) BY <1>0, <1>4, <1>5 DEF Orderly, Messages, IsBundle
<1>10. \A j \in (l + 1) .. (n + 1) : r[j].role = "tool"
  <2>1. \A j \in (l + 1) .. n : r[j].role = "tool" BY <1>0, <1>5
  <2> QED BY <1>0, <2>1
<1>11. r[l] = t[l] /\ IsTurn(r, l) BY <1>0, <1>5, <1>10 DEF IsTurn
<1>12. LastTurn(r) = l /\ Current(r) = Current(t) BY <1>4, <1>7, <1>8, <1>11, TurnIs DEF Current
<1>13. \A d \in Calls \ {c} : Kinds(r, d) = Kinds(t, d)
  <2> TAKE d \in Calls \ {c}
  <2>1. {j \in DOMAIN r : r[j].role = "tool" /\ r[j].calls = {d}} = {j \in DOMAIN t : t[j].role = "tool" /\ t[j].calls = {d}}
    <3>1. r[n + 1].calls # {d} BY <1>0
    <3> QED BY <1>0, <3>1
  <2>2. \A j \in {j \in DOMAIN t : t[j].role = "tool" /\ t[j].calls = {d}} : r[j].kind = t[j].kind BY <1>0
  <2> QED BY <2>1, <2>2 DEF Kinds
<1>14. Kinds(r, c) = {m.kind}
  <2>1. {j \in DOMAIN r : r[j].role = "tool" /\ r[j].calls = {c}} = {n + 1} BY <1>0, <1>6
  <2> QED BY <1>0, <2>1 DEF Kinds
<1>15. Answered(r) = Answered(t) \cup {c} BY <1>2, <1>13, <1>14 DEF Answered
<1>16. ResultsFollow(r)
  <2> SUFFICES ASSUME NEW j \in DOMAIN r, r[j].role = "tool"
               PROVE  \E i \in 1 .. (j - 1) : /\ IsBundle(r[i]) /\ \A k \in (i + 1) .. j : r[k].role = "tool"
                                              /\ \E d \in r[i].calls : r[j].calls = {d}
    BY DEF ResultsFollow
  <2>1. CASE j \in 1 .. n
    <3>1. t[j].role = "tool" /\ r[j] = t[j] BY <1>0, <2>1
    <3>2. PICK i \in 1 .. (j - 1) : /\ IsBundle(t[i]) /\ \A k \in (i + 1) .. j : t[k].role = "tool"
                                    /\ \E d \in t[i].calls : t[j].calls = {d}
      BY <1>0, <2>1, <3>1 DEF Orderly, ResultsFollow
    <3>3. \A k \in i .. j : r[k] = t[k] BY <1>0, <2>1, <3>2
    <3>4. r[i] = t[i] /\ \A k \in (i + 1) .. j : r[k].role = "tool" BY <2>1, <3>2, <3>3
    <3> QED BY <3>1, <3>2, <3>4
  <2>2. CASE j = n + 1
    <3>1. l \in 1 .. (j - 1) /\ IsBundle(r[l]) /\ c \in r[l].calls /\ r[j].calls = {c}
      BY <1>0, <1>4, <1>5, <1>9, <1>11, <2>2
    <3> QED BY <1>10, <2>2, <3>1
  <2> QED BY <1>0, <2>1, <2>2
<1>17. ResultsOnce(r)
  <2> SUFFICES ASSUME NEW j \in DOMAIN r, NEW k \in DOMAIN r, r[j].role = "tool", r[k].role = "tool",
                      r[j].calls = r[k].calls
               PROVE  j = k
    BY DEF ResultsOnce
  <2>1. CASE j \in DOMAIN t /\ k \in DOMAIN t BY <1>0, <2>1 DEF Orderly, ResultsOnce
  <2>2. CASE j = n + 1 /\ k \in DOMAIN t BY <1>0, <1>6, <2>2
  <2>3. CASE k = n + 1 /\ j \in DOMAIN t BY <1>0, <1>6, <2>3
  <2> QED BY <1>0, <2>1, <2>2, <2>3
<1>18. \A i \in DOMAIN r : IsBundle(r[i]) => i \in DOMAIN t /\ r[i] = t[i] BY <1>0 DEF IsBundle
<1>19. BundlesApart(r)
  <2>1. BundlesApart(t) BY DEF Orderly
  <2> QED BY <1>18, <2>1 DEF BundlesApart
<1>20. BundlesDone(r)
  <2> SUFFICES ASSUME NEW i \in DOMAIN r, IsBundle(r[i]), NEW d \in r[i].calls
               PROVE  \/ \E j \in DOMAIN r : r[j].role = "tool" /\ r[j].calls = {d}
                      \/ \A k \in (i + 1) .. Len(r) : r[k].role = "tool"
    BY DEF BundlesDone
  <2>1. i \in DOMAIN t /\ r[i] = t[i] BY <1>18
  <2>2. CASE \E j \in DOMAIN t : t[j].role = "tool" /\ t[j].calls = {d} BY <1>0, <2>2
  <2>3. CASE \A k \in (i + 1) .. n : t[k].role = "tool"
    <3>1. \A k \in (i + 1) .. (n + 1) : r[k].role = "tool"
      <4>1. \A k \in (i + 1) .. n : r[k].role = "tool" BY <1>0, <2>1, <2>3
      <4> QED BY <1>0, <2>1, <4>1
    <3> QED BY <1>0, <3>1
  <2> QED BY <2>1, <2>2, <2>3 DEF Orderly, BundlesDone, n
<1>21. \E i \in 0 .. Len(r) : IsTurn(r, i) BY <1>0, <1>5, <1>11
<1>22. Orderly(r) BY <1>8, <1>16, <1>17, <1>19, <1>20, <1>21 DEF Orderly
<1>23. Unanswered(r) = Unanswered(t) \ {c} BY <1>12, <1>15, <1>22, UnansweredIs
<1> QED BY <1>12, <1>13, <1>14, <1>15, <1>22, <1>23 DEF r

\* validate_tool_call_order accepts what is orderly and has no open call.
LEMMA CompleteIsValid ==
    ASSUME NEW t, Orderly(t), Unanswered(t) = {}
    PROVE  ValidOrder(t)
<1>0. Len(t) \in Nat /\ DOMAIN t = 1 .. Len(t) BY SeqIs DEF Orderly
<1> DEFINE n == Len(t)
           bundles == {i \in DOMAIN t : IsBundle(t[i])}
<1>1. ASSUME NEW i \in bundles, NEW j \in DOMAIN t
      PROVE  j \in Following(t, i) <=> j > i /\ \A k \in (i + 1) .. j : t[k].role = "tool"
  BY DEF Following
<1>2. ASSUME NEW i \in bundles, NEW j \in Following(t, i)
      PROVE  /\ j \in DOMAIN t /\ t[j].role = "tool" /\ \E c \in t[i].calls : t[j].calls = {c}
  <2>1. j \in DOMAIN t /\ j > i /\ i \in 1 .. n /\ \A k \in (i + 1) .. j : t[k].role = "tool"
    BY <1>0 DEF Following
  <2>2. t[j].role = "tool" BY <1>0, <2>1
  <2>3. PICK h \in 1 .. (j - 1) : /\ IsBundle(t[h]) /\ \A k \in (h + 1) .. j : t[k].role = "tool"
                                  /\ \E c \in t[h].calls : t[j].calls = {c}
    BY <2>1, <2>2 DEF Orderly, ResultsFollow
  <2>4. t[i].role # "tool" /\ t[h].role # "tool" BY <2>3 DEF IsBundle
  <2>5. ~(h < i)
    <3> SUFFICES ASSUME h < i PROVE FALSE OBVIOUS
    <3>1. i \in (h + 1) .. j BY <1>0, <2>1, <2>3
    <3> QED BY <2>3, <2>4, <3>1
  <2>6. ~(i < h)
    <3> SUFFICES ASSUME i < h PROVE FALSE OBVIOUS
    <3>1. h \in (i + 1) .. j BY <1>0, <2>1, <2>3
    <3> QED BY <2>1, <2>4, <3>1
  <2>7. h = i BY <1>0, <2>1, <2>3, <2>5, <2>6
  <2> QED BY <2>1, <2>2, <2>3, <2>7
<1>3. ASSUME NEW i \in bundles, NEW c \in t[i].calls
      PROVE  \E j \in Following(t, i) : t[j].calls = {c}
  <2>1. i \in DOMAIN t /\ IsBundle(t[i]) /\ c \in Calls BY DEF Orderly, Messages
  <2>2. \E j \in DOMAIN t : t[j].role = "tool" /\ t[j].calls = {c}
    <3>1. CASE \A k \in (i + 1) .. n : t[k].role = "tool"
      <4>1. IsTurn(t, i) BY <1>0, <2>1, <3>1 DEF IsTurn, IsBundle
      <4>2. LastTurn(t) = i BY <4>1, TurnIs DEF Orderly
      <4>3. Current(t) = t[i].calls BY <1>0, <2>1, <4>2 DEF Current
      <4>4. c \in Answered(t) BY <4>3, UnansweredIs
      <4> QED BY <2>1, <4>4, AnsweredIs
    <3> QED BY <2>1, <3>1 DEF Orderly, BundlesDone
  <2>3. PICK j \in DOMAIN t : t[j].role = "tool" /\ t[j].calls = {c} BY <2>2
  <2>4. PICK h \in 1 .. (j - 1) : /\ IsBundle(t[h]) /\ \A k \in (h + 1) .. j : t[k].role = "tool"
                                  /\ \E d \in t[h].calls : t[j].calls = {d}
    BY <2>3 DEF Orderly, ResultsFollow
  <2>5. c \in t[h].calls BY <2>3, <2>4
  <2>6. h \in DOMAIN t BY <1>0, <2>4
  <2>7. h = i BY <2>1, <2>4, <2>5, <2>6 DEF Orderly, BundlesApart
  <2>8. j > i BY <1>0, <2>3, <2>4, <2>7
  <2> QED BY <2>3, <2>4, <2>7, <2>8 DEF Following
<1>4. ASSUME NEW i \in bundles PROVE {t[j].calls : j \in Following(t, i)} = {{c} : c \in t[i].calls}
  <2>1. ASSUME NEW j \in Following(t, i) PROVE \E c \in t[i].calls : t[j].calls = {c} BY <1>2
  <2>2. ASSUME NEW c \in t[i].calls PROVE \E j \in Following(t, i) : t[j].calls = {c} BY <1>3
  <2>3. ASSUME NEW x \in {t[j].calls : j \in Following(t, i)} PROVE x \in {{c} : c \in t[i].calls} BY <2>1
  <2>4. ASSUME NEW x \in {{c} : c \in t[i].calls} PROVE x \in {t[j].calls : j \in Following(t, i)} BY <2>2
  <2> QED BY <2>3, <2>4
<1>5. ASSUME NEW i \in bundles PROVE Cardinality(Following(t, i)) = Cardinality(t[i].calls)
  <2> DEFINE F == Following(t, i)
             f == [j \in F |-> CHOOSE c \in t[i].calls : t[j].calls = {c}]
  <2>1. \A j \in F : j \in DOMAIN t /\ t[j].role = "tool" /\ f[j] \in t[i].calls /\ t[j].calls = {f[j]} BY <1>2
  <2>2. f \in [F -> t[i].calls] BY <2>1
  <2>3. \A j, k \in F : f[j] = f[k] => j = k
    <3>1. ResultsOnce(t) BY DEF Orderly
    <3> SUFFICES ASSUME NEW j \in F, NEW k \in F, f[j] = f[k] PROVE j = k OBVIOUS
    <3>2. t[j].calls = {f[j]} /\ t[k].calls = {f[k]} BY <2>1
    <3>3. t[j].calls = t[k].calls BY <3>2
    <3>4. j \in DOMAIN t /\ k \in DOMAIN t /\ t[j].role = "tool" /\ t[k].role = "tool" BY <2>1
    <3> HIDE DEF f, F
    <3> QED BY <3>1, <3>3, <3>4 DEF ResultsOnce
  <2>4. \A c \in t[i].calls : \E j \in F : f[j] = c
    <3> SUFFICES ASSUME NEW c \in t[i].calls PROVE \E j \in F : f[j] = c OBVIOUS
    <3>1. PICK j \in F : t[j].calls = {c} BY <1>3
    <3>2. f[j] = c BY <2>1, <3>1
    <3> QED BY <3>2
  <2> HIDE DEF f
  <2>5. f \in Bijection(F, t[i].calls)
    <3>1. f \in Injection(F, t[i].calls) BY <2>2, <2>3 DEF Injection, IsInjective
    <3>2. f \in Surjection(F, t[i].calls) BY <2>2, <2>4 DEF Surjection
    <3> QED BY <3>1, <3>2 DEF Bijection
  <2>6. ExistsBijection(F, t[i].calls) BY <2>5 DEF ExistsBijection
  <2>7. F \in SUBSET (1 .. n) /\ IsFiniteSet(1 .. n) BY <1>0, FS_Interval DEF Following
  <2>8. IsFiniteSet(F) BY <2>7, FS_Subset
  <2> HIDE DEF F
  <2>9. Cardinality(t[i].calls) = Cardinality(F) BY <2>6, <2>8, FS_Bijection
  <2> QED BY <2>9 DEF F
<1>6. ASSUME NEW i \in bundles, NEW k \in bundles \ {i} PROVE t[i].calls \cap t[k].calls = {}
  BY DEF Orderly, BundlesApart
<1>7. ASSUME NEW j \in DOMAIN t, t[j].role = "tool" PROVE \E i \in bundles : j \in Following(t, i)
  <2>1. PICK i \in 1 .. (j - 1) : IsBundle(t[i]) /\ \A k \in (i + 1) .. j : t[k].role = "tool"
    BY <1>7 DEF Orderly, ResultsFollow
  <2>2. i \in bundles /\ j > i BY <1>0, <2>1
  <2> QED BY <2>1, <2>2 DEF Following
<1> QED BY <1>4, <1>5, <1>6, <1>7 DEF ValidOrder

\* SetToSeq lists a finite set, each member once.
LEMMA ListIs ==
    ASSUME NEW R, IsFiniteSet(R)
    PROVE  LET s == SetToSeq(R) IN
           /\ s \in Seq(R)
           /\ \A j, k \in DOMAIN s : s[j] = s[k] => j = k
           /\ \A x \in R : \E j \in DOMAIN s : s[j] = x
<1> DEFINE n == Cardinality(R)
           s == SetToSeq(R)
<1>1. n \in Nat /\ ExistsBijection(1 .. n, R) BY FS_CardinalityType
<1>2. PICK b : b \in Bijection(1 .. n, R) BY <1>1 DEF ExistsBijection
<1>3. b \in [1 .. n -> R] /\ IsInjective(b) BY <1>2 DEF Bijection, Injection, Surjection
<1>4. s \in [1 .. n -> R] /\ IsInjective(s) BY <1>3 DEF SetToSeq
<1> HIDE DEF s, n
<1>5. s \in Injection(1 .. n, R) BY <1>4 DEF Injection
<1>6. IsFiniteSet(1 .. n) /\ Cardinality(1 .. n) = n
  <2>1. IsFiniteSet(1 .. n) /\ Cardinality(1 .. n) = IF 1 > n THEN 0 ELSE n - 1 + 1 BY <1>1, FS_Interval
  <2> QED BY <1>1, <2>1
<1>7. s \in Surjection(1 .. n, R) BY <1>5, <1>6, FS_Injection DEF n
<1>8. \A x \in R : \E j \in 1 .. n : s[j] = x BY <1>7 DEF Surjection
<1>9. s \in Seq(R) /\ DOMAIN s = 1 .. n BY <1>1, <1>4
<1> QED BY <1>4, <1>8, <1>9 DEF IsInjective, s

\* What ReadRows appends or settles: one result for each open call.
LEMMA RepairsAre ==
    ASSUME LedgerAssumption, NEW t, Orderly(t), NEW running, NEW by
    PROVE  LET R == Repairs(t, running, by) IN
           /\ IsFiniteSet(R)
           /\ \A m \in R : /\ m.role = "tool" /\ m.kind \in {"unknown", "not_started"}
                           /\ \E c \in Unanswered(t) :
                                /\ m.calls = {c}
                                /\ m = Result(c, IF c \in running THEN "unknown" ELSE "not_started", by)
           /\ \A m1, m2 \in R : m1.calls = m2.calls => m1 = m2
           /\ \A c \in Unanswered(t) : \E m \in R : m.calls = {c}
<1> DEFINE R == Repairs(t, running, by)
           f(c) == Result(c, IF c \in running THEN "unknown" ELSE "not_started", by)
           U == Unanswered(t)
<1>1. R = {f(c) : c \in U} BY DEF Repairs
<1>2. \A c : /\ f(c).role = "tool" /\ f(c).calls = {c} /\ f(c).kind \in {"unknown", "not_started"}
  BY DEF Result, Message
<1>3. U \subseteq Calls BY UnansweredIs, Asked
<1>4. IsFiniteSet(U) BY <1>3, FS_Subset DEF LedgerAssumption
<1> DEFINE g == [c \in U |-> f(c)]
<1>5. g \in Surjection(U, R)
  <2>1. \A c \in U : f(c) \in R BY <1>1
  <2> HIDE DEF f, R, U
  <2>2. g \in [U -> R] BY <2>1
  <2>3. \A m \in R : \E c \in U : g[c] = m BY <1>1
  <2> QED BY <2>2, <2>3 DEF Surjection
<1>6. IsFiniteSet(R) BY <1>4, <1>5, FS_Surjection
<1>7. \A m \in R : \E c \in U : m = f(c) BY <1>1
<1>8. \A m1, m2 \in R : m1.calls = m2.calls => m1 = m2
  <2> SUFFICES ASSUME NEW m1 \in R, NEW m2 \in R, m1.calls = m2.calls PROVE m1 = m2 OBVIOUS
  <2>1. PICK c1 \in U : m1 = f(c1) BY <1>7
  <2>2. PICK c2 \in U : m2 = f(c2) BY <1>7
  <2>3. {c1} = {c2} BY <1>2, <2>1, <2>2
  <2> QED BY <2>1, <2>2, <2>3
<1>9. \A c \in U : \E m \in R : m.calls = {c} BY <1>1, <1>2
<1>10. \A m \in R : \E c \in U : m.calls = {c} /\ m = f(c) BY <1>2, <1>7
<1>11. \A m \in R : m.role = "tool" /\ m.kind \in {"unknown", "not_started"} BY <1>2, <1>7
<1> QED BY <1>6, <1>8, <1>9, <1>10, <1>11

\* _abandoned_tool_call_results does not raise on an orderly transcript.
LEMMA OrderlyIsRepairable ==
    ASSUME LedgerAssumption, NEW t, Orderly(t)
    PROVE  Repairable(t)
<1> DEFINE R == Repairs(t, {}, "final")
           s == SetToSeq(R)
           r == t \o s
           n == Len(t)
           l == LastTurn(t)
<1>1. /\ IsFiniteSet(R)
      /\ \A m \in R : m.role = "tool" /\ \E c \in Unanswered(t) : m.calls = {c}
      /\ \A m1, m2 \in R : m1.calls = m2.calls => m1 = m2
      /\ \A c \in Unanswered(t) : \E m \in R : m.calls = {c}
  <2>1. IsFiniteSet(R) BY RepairsAre
  <2>2. \A m \in R : m.role = "tool" /\ \E c \in Unanswered(t) : m.calls = {c} BY RepairsAre
  <2>3. \A m1, m2 \in R : m1.calls = m2.calls => m1 = m2 BY RepairsAre
  <2>4. ASSUME NEW c \in Unanswered(t) PROVE \E m \in R : m.calls = {c}
    <3>1. Result(c, "not_started", "final") \in R BY DEF Repairs
    <3>2. Result(c, "not_started", "final").calls = {c} BY DEF Result, Message
    <3> QED BY <3>1, <3>2
  <2> QED BY <2>1, <2>2, <2>3, <2>4
<1> HIDE DEF R
<1>2. /\ s \in Seq(R) /\ (\A j, k \in DOMAIN s : s[j] = s[k] => j = k)
      /\ \A x \in R : \E j \in DOMAIN s : s[j] = x
  BY <1>1, ListIs
<1> HIDE DEF s
<1>3. PICK S : t \in Seq(S) BY DEF Orderly, Messages
<1>4. /\ r \in Seq(S \cup R) /\ n \in Nat /\ Len(s) \in Nat /\ DOMAIN t = 1 .. n /\ DOMAIN s = 1 .. Len(s)
      /\ Len(r) = n + Len(s) /\ DOMAIN r = 1 .. (n + Len(s))
  <2>1. t \in Seq(S \cup R) /\ s \in Seq(S \cup R) BY <1>2, <1>3
  <2> QED BY <1>2, <1>3, <2>1
<1>5. /\ \A i \in 1 .. n : r[i] = t[i]
      /\ \A i \in (n + 1) .. (n + Len(s)) : i - n \in DOMAIN s /\ r[i] = s[i - n] /\ r[i] \in R
  BY <1>2, <1>3, <1>4
<1> HIDE DEF r, n
<1>6. Unanswered(t) = Current(t) \ Answered(t) /\ Unanswered(t) \subseteq Calls BY UnansweredIs, Asked
<1>7. IsTurn(t, l) BY TurnOf
<1>8. l \in 0 .. n /\ (l = 0 \/ t[l].role # "tool") /\ \A j \in (l + 1) .. n : t[j].role = "tool"
  BY <1>7 DEF IsTurn, n
<1>9. \A i \in DOMAIN r : i > n => r[i].role = "tool" /\ \E c \in Unanswered(t) : r[i].calls = {c}
  BY <1>1, <1>4, <1>5
<1>10. Messages(r)
  <2>1. ASSUME NEW i \in DOMAIN r PROVE /\ r[i].role \in {"user", "assistant", "tool"} /\ r[i].calls \subseteq Calls
                                        /\ r[i].role = "user" => r[i].calls = {}
    <3>1. CASE i \in 1 .. n BY <1>4, <1>5, <3>1 DEF Orderly, Messages
    <3>2. CASE i > n BY <1>6, <1>9, <3>2
    <3> QED BY <1>4, <3>1, <3>2
  <2> QED BY <1>4, <2>1 DEF Messages
<1>11. \A j \in (l + 1) .. Len(r) : r[j].role = "tool"
  <2>1. ASSUME NEW j \in (l + 1) .. Len(r) PROVE r[j].role = "tool"
    <3>1. CASE j \in 1 .. n BY <1>4, <1>5, <1>8, <3>1
    <3>2. CASE j > n BY <1>4, <1>8, <1>9, <3>2
    <3> QED BY <1>4, <1>8, <3>1, <3>2
  <2> QED BY <2>1
<1>12. IsTurn(r, l) BY <1>4, <1>5, <1>8, <1>11 DEF IsTurn
<1>13. LastTurn(r) = l BY <1>10, <1>12, TurnIs
<1>14. Current(r) = Current(t) BY <1>5, <1>8, <1>13 DEF Current
<1>15. ASSUME NEW i \in DOMAIN r, i > n
       PROVE  l \in 1 .. n /\ IsBundle(t[l]) /\ \E c \in t[l].calls : r[i].calls = {c} /\ c \notin Answered(t)
  <2>1. PICK c \in Unanswered(t) : r[i].calls = {c} BY <1>9, <1>15
  <2>2. l # 0 /\ c \in t[l].calls /\ c \notin Answered(t) BY <1>6, <2>1 DEF Current
  <2>3. l \in 1 .. n BY <1>4, <1>8, <2>2
  <2>4. IsBundle(t[l]) BY <1>4, <1>8, <2>2, <2>3 DEF Orderly, Messages, IsBundle
  <2> QED BY <2>1, <2>2, <2>3, <2>4
<1>16. ResultsFollow(r)
  <2> SUFFICES ASSUME NEW j \in DOMAIN r, r[j].role = "tool"
               PROVE  \E i \in 1 .. (j - 1) : /\ IsBundle(r[i]) /\ \A k \in (i + 1) .. j : r[k].role = "tool"
                                              /\ \E d \in r[i].calls : r[j].calls = {d}
    BY DEF ResultsFollow
  <2>1. CASE j \in 1 .. n
    <3>1. t[j].role = "tool" /\ r[j] = t[j] BY <1>5, <2>1
    <3>2. PICK i \in 1 .. (j - 1) : /\ IsBundle(t[i]) /\ \A k \in (i + 1) .. j : t[k].role = "tool"
                                    /\ \E d \in t[i].calls : t[j].calls = {d}
      BY <1>4, <2>1, <3>1 DEF Orderly, ResultsFollow
    <3>3. \A k \in i .. j : r[k] = t[k] BY <1>4, <1>5, <2>1, <3>2, SMTT(30)
    <3>4. r[i] = t[i] /\ \A k \in (i + 1) .. j : r[k].role = "tool" BY <2>1, <3>2, <3>3
    <3> QED BY <3>1, <3>2, <3>4
  <2>2. CASE j > n
    <3>1. l \in 1 .. n /\ IsBundle(t[l]) /\ \E c \in t[l].calls : r[j].calls = {c} BY <1>15, <2>2
    <3>2. r[l] = t[l] /\ l \in 1 .. (j - 1) BY <1>4, <1>5, <2>2, <3>1
    <3>3. \A k \in (l + 1) .. j : r[k].role = "tool" BY <1>4, <1>11
    <3> QED BY <3>1, <3>2, <3>3
  <2> QED BY <1>4, <2>1, <2>2, SMTT(30)
<1>17. ASSUME NEW j \in DOMAIN r, j > n, NEW k \in DOMAIN r, k \in 1 .. n, r[k].role = "tool"
       PROVE  r[j].calls # r[k].calls
  <2>1. PICK c \in Calls : r[j].calls = {c} /\ c \notin Answered(t) BY <1>6, <1>9, <1>17
  <2>2. r[k] = t[k] /\ k \in DOMAIN t BY <1>4, <1>5, <1>17
  <2> QED BY <1>17, <2>1, <2>2, AnsweredIs
<1>18. ASSUME NEW j \in DOMAIN r, j > n, NEW k \in DOMAIN r, k > n, r[j].calls = r[k].calls
       PROVE  j = k
  <2>1. /\ j - n \in DOMAIN s /\ r[j] = s[j - n] /\ r[j] \in R
        /\ k - n \in DOMAIN s /\ r[k] = s[k - n] /\ r[k] \in R
    BY <1>4, <1>5, <1>18
  <2>2. s[j - n] = s[k - n] BY <1>1, <1>18, <2>1
  <2>3. j - n = k - n BY <1>2, <2>1, <2>2
  <2> QED BY <1>4, <2>3
<1>19. ResultsOnce(r)
  <2> SUFFICES ASSUME NEW j \in DOMAIN r, NEW k \in DOMAIN r, r[j].role = "tool", r[k].role = "tool",
                      r[j].calls = r[k].calls
               PROVE  j = k
    BY DEF ResultsOnce
  <2>1. CASE j \in 1 .. n /\ k \in 1 .. n BY <1>4, <1>5, <2>1 DEF Orderly, ResultsOnce
  <2>2. CASE j > n /\ k \in 1 .. n BY <1>17, <2>2
  <2>3. CASE k > n /\ j \in 1 .. n BY <1>17, <2>3
  <2>4. CASE j > n /\ k > n BY <1>18, <2>4
  <2> QED BY <1>4, <2>1, <2>2, <2>3, <2>4
<1>20. \A i \in DOMAIN r : IsBundle(r[i]) => i \in DOMAIN t /\ r[i] = t[i]
  <2> SUFFICES ASSUME NEW i \in DOMAIN r, IsBundle(r[i]) PROVE i \in DOMAIN t /\ r[i] = t[i] OBVIOUS
  <2>1. ~(i > n) BY <1>9 DEF IsBundle
  <2> QED BY <1>4, <1>5, <2>1
<1>21. BundlesApart(r)
  <2>1. BundlesApart(t) BY DEF Orderly
  <2> QED BY <1>20, <2>1 DEF BundlesApart
<1>22. ASSUME NEW c \in Unanswered(t) PROVE \E j \in DOMAIN r : r[j].role = "tool" /\ r[j].calls = {c}
  <2>1. PICK m \in R : m.calls = {c} BY <1>1
  <2>2. PICK j \in DOMAIN s : s[j] = m BY <1>2
  <2>3. j + n \in (n + 1) .. (n + Len(s)) /\ (j + n) - n = j BY <1>4
  <2>4. r[j + n] = m BY <1>5, <2>2, <2>3
  <2>5. m.role = "tool" BY <1>1
  <2>6. j + n \in DOMAIN r BY <1>4, <2>3
  <2> QED BY <2>1, <2>4, <2>5, <2>6
<1>23. \A c \in Answered(t) : \E j \in DOMAIN r : r[j].role = "tool" /\ r[j].calls = {c}
  <2> SUFFICES ASSUME NEW c \in Answered(t) PROVE \E j \in DOMAIN r : r[j].role = "tool" /\ r[j].calls = {c} OBVIOUS
  <2>1. PICK j \in DOMAIN t : t[j].role = "tool" /\ t[j].calls = {c} BY AnsweredIs DEF Answered
  <2> QED BY <1>4, <1>5, <2>1
<1>24. BundlesDone(r)
  <2> SUFFICES ASSUME NEW i \in DOMAIN r, IsBundle(r[i]), NEW d \in r[i].calls
               PROVE  \E j \in DOMAIN r : r[j].role = "tool" /\ r[j].calls = {d}
    BY DEF BundlesDone
  <2>1. i \in DOMAIN t /\ r[i] = t[i] /\ d \in Calls BY <1>20 DEF Orderly, Messages
  <2>2. CASE \E j \in DOMAIN t : t[j].role = "tool" /\ t[j].calls = {d} BY <1>4, <1>5, <2>2
  <2>3. CASE \A k \in (i + 1) .. n : t[k].role = "tool"
    <3>1. IsTurn(t, i) BY <1>4, <2>1, <2>3 DEF IsTurn, IsBundle, n
    <3>2. LastTurn(t) = i BY <3>1, TurnIs DEF Orderly
    <3>3. d \in Current(t) BY <1>4, <2>1, <3>2 DEF Current
    <3> QED BY <1>6, <1>22, <1>23, <3>3
  <2> QED BY <2>1, <2>2, <2>3 DEF Orderly, BundlesDone, n
<1>25. Orderly(r)
  <2>1. l \in 0 .. Len(r) BY <1>4, <1>8
  <2> QED BY <1>10, <1>12, <1>16, <1>19, <1>21, <1>24, <2>1 DEF Orderly
<1>26. Unanswered(r) = {}
  <2>1. Unanswered(r) = Current(t) \ Answered(r) BY <1>14, <1>25, UnansweredIs
  <2>2. ASSUME NEW c \in Current(t) PROVE c \in Answered(r)
    <3>1. c \in Calls BY Asked
    <3>2. \E j \in DOMAIN r : r[j].role = "tool" /\ r[j].calls = {c} BY <1>6, <1>22, <1>23
    <3> QED BY <3>1, <3>2, AnsweredIs
  <2> QED BY <2>1, <2>2
<1>27. ValidOrder(r) BY <1>25, <1>26, CompleteIsValid
<1> QED BY <1>27 DEF Repairable, r, s, R

-----------------------------------------------------------------------------
(* While no store call is overtaken by the repair that did not wait for it  *)

\* A row tells what the transcript tells; without a row a call may only be told not started.
Story ==
    \A c \in Calls : /\ row[c] = "running" => c \in Unanswered(log)
                     /\ row[c] \in Terminal => Kinds(log, c) = {row[c]}
                     /\ row[c] = "absent" => Kinds(log, c) \subseteq {"not_started"}

\* A turn that may come next, and the calls to the store that may be made: none answers a
\* call twice, or starts one that has been answered.
Fits(m) ==
    /\ Unanswered(log) = {} /\ m.role \in {"user", "assistant"} /\ m.calls \subseteq Calls
    /\ m.role = "user" => m.calls = {}
    /\ m.calls \cap CallIds(log) = {}
AptFor(o, c) ==
    /\ o.msg.role = "tool" /\ o.msg.calls = {c} /\ o.msg.kind \in Terminal
    /\ o.op = "start" /\ row[c] = "absent" => c \notin Answered(log)
    /\ o.op = "settle" /\ row[c] = o.msg.kind => InLog(log, o.msg)
    /\ o.op = "append" => o.msg.kind = "not_started" /\ row[c] = "absent" /\ c \notin Answered(log)
Apt(o) ==
    /\ o.op \in {"start", "settle", "append"}
    /\ (o.op = "append" /\ Fits(o.msg)) \/ \E c \in Current(log) : AptFor(o, c)

\* Which calls to the store may be on their way together.
Compatible(o, p) ==
    /\ o.msg.role = "tool" /\ p.msg.role = "tool"
    /\ o.msg.calls = p.msg.calls =>
          /\ o.op # "append" /\ p.op # "append"
          /\ o.op = "settle" /\ p.op = "settle" /\ o.msg.kind = p.msg.kind => o.msg = p.msg
Queued == /\ \A o \in orphans \cup todo : Apt(o)
          /\ \A o, p \in orphans \cup todo : o # p => Compatible(o, p)

\* Where the run is when calls to the store are on their way, and what it knows there.
Places ==
    /\ orphans # {} => pc \in {"batch", "unstarted", "close", "read"}
    /\ todo # {} => pc \in {"repair", "close"}
    /\ pc \notin {"batch", "unstarted"} => bundle = {} /\ \A c \in Calls : cpc[c] = "new"
    /\ pc \in {"user", "model", "record", "publish"} \/ (pc = "rest" /\ stage = "final") => Unanswered(log) = {}
    /\ pc = "rows" => seen = log
    /\ pc = "record" => Fits(draft) /\ draft.role = "assistant"

\* The repairs that are left answer every open call, each once.
Repairing ==
    pc = "repair" =>
        /\ \A c \in Unanswered(log) : \E o \in todo : o.msg.calls = {c}
        /\ \A o, p \in todo : o.msg.calls = p.msg.calls => o = p
        /\ \A o \in todo : /\ o.op \in {"settle", "append"} /\ o.msg.role = "tool"
                           /\ o.op = "settle" => \E c \in Calls : o.msg.calls = {c} /\ row[c] = "running"

\* What the coroutine of a call asks of the store, and what it finds there.
Asks(o, c) ==
    \/ o = StoreCall("start", Result(c, "not_started", "exec"))
    \/ \E k \in {"ran", "cancelled"} : o = StoreCall("settle", Result(c, k, "exec"))
\* The row of a call of the batch was written by its coroutine.
Found(c) ==
    /\ row[c] = "absent" => c \notin Answered(log)
    /\ row[c] \in Terminal => row[c] \in {"ran", "cancelled"} /\ InLog(log, Result(c, row[c], "exec"))

\* Where the coroutine of a call is when a store call of it has been abandoned.
LetGo == {"lost", "stopped", "failed"}
Executing ==
    /\ pc \in {"batch", "unstarted"} =>
          /\ bundle = Current(log)
          /\ \A o \in orphans : \E c \in bundle : Asks(o, c) /\ cpc[c] \in LetGo
    /\ pc = "unstarted" => \A c \in Calls : cpc[c] \notin ActiveAt
    /\ pc = "batch" =>
          /\ \A c \in bundle : Found(c) /\ (cpc[c] = "recorded" => c \in Answered(log))
          /\ \A c \in Calls : cpc[c] # "new" => c \in bundle
Closing ==
    pc = "close" => /\ \A o \in todo : o.op \in {"start", "settle"} /\ \E c \in Calls : o.msg = Unstarted(c)
                    /\ \A o \in orphans : \E c \in Calls : Asks(o, c)

Settling == Orderly(log) /\ Story /\ Queued /\ Places /\ Repairing /\ Closing /\ Executing
FInv == IInv /\ Settling

-----------------------------------------------------------------------------

LEMMA RunSame ==
    ASSUME run' = run
    PROVE  /\ \A c, k, b : Result(c, k, b)' = Result(c, k, b)
           /\ \A o, c : Asks(o, c)' <=> Asks(o, c)
           /\ \A c : Unstarted(c)' = Unstarted(c)
BY DEF Result, Message, Asks, Unstarted, StoreCall

LEMMA LogGrows ==
    ASSUME StoreOK, NEW m, log' = WithMessage(m)
    PROVE  /\ \A x : InLog(log, x) => InLog(log', x)
           /\ InLog(log', m)
<1> PICK S : log \in Seq(S) BY DEF StoreOK
<1>1. CASE InLog(log, m) BY <1>1 DEF WithMessage, InLog
<1>2. CASE ~InLog(log, m)
  <2>1. log' = Append(log, m) BY <1>2 DEF WithMessage, InLog
  <2>2. log \in Seq(S \cup {m}) OBVIOUS
  <2>3. DOMAIN log' = 1 .. (Len(log) + 1) /\ Len(log) \in Nat /\ DOMAIN log = 1 .. Len(log)
        /\ log'[Len(log) + 1] = m /\ \A i \in 1 .. Len(log) : log'[i] = log[i]
    BY <2>1, <2>2
  <2> QED BY <2>3 DEF InLog
<1> QED BY <1>1, <1>2

\* What a call to the store about c does.
Performed(o, c) ==
    /\ Current(log') = Current(log)
    /\ \A d \in Calls \ {c} : row'[d] = row[d] /\ Kinds(log', d) = Kinds(log, d)
    /\ \A m : InLog(log, m) => InLog(log', m)
    /\ c \in Answered(log) => c \in Answered(log')
    /\ ~Accepted(o) => log' = log /\ row' = row
    /\ log' = log \/ (log' = Append(log, o.msg) /\ c \in Unanswered(log))
    /\ o.op = "start" => log' = log /\ (Accepted(o) => row'[c] = "running")
    /\ o.op = "settle" /\ Accepted(o) => row'[c] = o.msg.kind /\ InLog(log', o.msg) /\ c \in Answered(log')
    /\ o.op = "append" => row' = row /\ c \in Answered(log')

LEMMA KindsAnswered ==
    ASSUME NEW t, NEW u, NEW D \in SUBSET Calls, \A d \in D : Kinds(u, d) = Kinds(t, d)
    PROVE  \A d \in D : d \in Answered(u) <=> d \in Answered(t)
BY DEF Answered

\* Something of a call is in the transcript exactly if it is answered.
LEMMA InLogAnswered ==
    ASSUME NEW t, NEW c \in Calls, NEW m, m.role = "tool", m.calls = {c}, InLog(t, m)
    PROVE  c \in Answered(t) /\ m.kind \in Kinds(t, c)
BY DEF InLog, Answered, Kinds

LEMMA Performs ==
    ASSUME StoreOK, Orderly(log), Story, NEW o, NEW c \in Current(log), AptFor(o, c),
           o.op \in {"start", "settle", "append"}, Perform(o)
    PROVE  Orderly(log') /\ Story' /\ Performed(o, c) /\ CallOf(o.msg) = c
<1>0. c \in Calls /\ Current(log) \subseteq Calls BY Asked
<1>1. CallOf(o.msg) = c BY DEF AptFor, CallOf
<1>2. Unanswered(log) = Current(log) \ Answered(log) BY UnansweredIs
<1>3. row \in [Calls -> Rows] BY DEF StoreOK
<1>4. o.msg.role = "tool" /\ o.msg.calls = {c} /\ o.msg.kind \in Terminal BY DEF AptFor
<1>5. CASE ~Accepted(o)
  <2>1. log' = log /\ row' = row BY <1>5 DEF Perform, store
  <2>2. o.op # "append" BY <1>5 DEF Accepted
  <2> QED BY <1>1, <1>5, <2>1, <2>2 DEF Performed, Story
<1>6. CASE Accepted(o) /\ o.op = "start"
  <2>1. row' = [row EXCEPT ![c] = "running"] /\ log' = log BY <1>1, <1>6 DEF Perform
  <2>2. row[c] \in {"absent", "running"} BY <1>1, <1>6 DEF Accepted, StartAccepted
  <2>3. c \in Unanswered(log)
    <3>1. CASE row[c] = "absent" BY <1>2, <1>6, <3>1 DEF AptFor
    <3>2. CASE row[c] = "running" BY <1>0, <3>2 DEF Story
    <3> QED BY <2>2, <3>1, <3>2
  <2>4. row'[c] = "running" /\ \A d \in Calls \ {c} : row'[d] = row[d] BY <1>0, <1>3, <2>1
  <2>5. Story'
    <3> SUFFICES ASSUME NEW d \in Calls
                 PROVE  /\ row'[d] = "running" => d \in Unanswered(log')
                        /\ row'[d] \in Terminal => Kinds(log', d) = {row'[d]}
                        /\ row'[d] = "absent" => Kinds(log', d) \subseteq {"not_started"}
      BY DEF Story
    <3>1. CASE d = c BY <2>1, <2>3, <2>4, <3>1 DEF Terminal
    <3>2. CASE d # c BY <2>1, <2>4, <3>2 DEF Story
    <3> QED BY <3>1, <3>2
  <2> QED BY <1>1, <1>6, <2>1, <2>4, <2>5 DEF Performed
<1>7. CASE Accepted(o) /\ o.op \in {"settle", "append"}
  <2>1. log' = WithMessage(o.msg) BY <1>7 DEF Perform
  <2>2. (\A x : InLog(log, x) => InLog(log', x)) /\ InLog(log', o.msg) BY <2>1, LogGrows
  <2>3. CASE InLog(log, o.msg)
    <3>1. log' = log BY <2>1, <2>3 DEF WithMessage, InLog
    <3>2. c \in Answered(log) /\ o.msg.kind \in Kinds(log, c) BY <1>0, <1>4, <2>3, InLogAnswered
    <3>3. o.op = "settle" BY <1>7, <3>2 DEF AptFor
    <3>4. row[c] = o.msg.kind
      <4>1. row[c] \in {"running", o.msg.kind} BY <1>1, <1>7, <3>3 DEF Accepted, SettleAccepted
      <4>2. row[c] # "running" BY <1>0, <1>2, <3>2 DEF Story
      <4> QED BY <4>1, <4>2
    <3>5. row' = [row EXCEPT ![c] = o.msg.kind] BY <1>1, <1>7, <3>3 DEF Perform
    <3>6. row' = row BY <1>0, <1>3, <3>4, <3>5
    <3> QED BY <1>1, <1>7, <2>2, <3>1, <3>2, <3>3, <3>4, <3>6 DEF Performed, Story
  <2>4. CASE ~InLog(log, o.msg)
    <3>1. log' = Append(log, o.msg) BY <2>1, <2>4 DEF WithMessage, InLog
    <3>2. c \in Unanswered(log)
      <4>1. CASE o.op = "append" BY <1>2, <4>1 DEF AptFor
      <4>2. CASE o.op = "settle"
        <5>1. row[c] \in {"running", o.msg.kind} BY <1>1, <1>7, <4>2 DEF Accepted, SettleAccepted
        <5>2. row[c] # o.msg.kind BY <2>4, <4>2 DEF AptFor
        <5> QED BY <1>0, <5>1, <5>2 DEF Story
      <4> QED BY <1>7, <4>1, <4>2
    <3>3. /\ Orderly(log') /\ Current(log') = Current(log) /\ Answered(log') = Answered(log) \cup {c}
          /\ \A d \in Calls \ {c} : Kinds(log', d) = Kinds(log, d)
          /\ Kinds(log', c) = {o.msg.kind}
          /\ Unanswered(log') = Unanswered(log) \ {c}
      BY <1>4, <3>1, <3>2, ResultAppended
    <3>4. \/ o.op = "append" /\ row' = row
          \/ o.op = "settle" /\ row' = [row EXCEPT ![c] = o.msg.kind]
      BY <1>1, <1>7 DEF Perform
    <3>5. \A d \in Calls \ {c} : row'[d] = row[d] BY <1>0, <1>3, <3>4
    <3>6. o.op = "settle" => row'[c] = o.msg.kind BY <1>0, <1>3, <3>4
    <3>7. o.op = "append" => row'[c] = "absent" /\ o.msg.kind = "not_started" BY <3>4 DEF AptFor
    <3>8. Story'
      <4> SUFFICES ASSUME NEW d \in Calls
                   PROVE  /\ row'[d] = "running" => d \in Unanswered(log')
                          /\ row'[d] \in Terminal => Kinds(log', d) = {row'[d]}
                          /\ row'[d] = "absent" => Kinds(log', d) \subseteq {"not_started"}
        BY DEF Story
      <4>1. CASE d = c /\ o.op = "settle" BY <1>4, <3>3, <3>6, <4>1 DEF Terminal
      <4>2. CASE d = c /\ o.op = "append" BY <3>3, <3>7, <4>2 DEF Terminal
      <4>3. CASE d # c BY <3>3, <3>5, <4>3 DEF Story
      <4> QED BY <1>7, <4>1, <4>2, <4>3
    <3> QED BY <1>1, <1>7, <2>2, <3>1, <3>2, <3>3, <3>4, <3>5, <3>6, <3>8 DEF Performed
  <2> QED BY <2>3, <2>4
<1> QED BY <1>5, <1>6, <1>7

\* A turn comes behind a transcript without open calls, or is there already.
LEMMA TurnPerformed ==
    ASSUME StoreOK, Orderly(log), Story, NEW m, Fits(m), Perform(StoreCall("append", m))
    PROVE  /\ Orderly(log') /\ Story' /\ row' = row
           /\ Unanswered(log') = m.calls
           /\ m.calls # {} => /\ m.role = "assistant" /\ Current(log') = m.calls
                              /\ \A c \in m.calls : row[c] = "absent" /\ c \notin Answered(log')
<1> DEFINE o == StoreCall("append", m)
<1>1. o.op = "append" /\ o.msg = m BY DEF StoreCall
<1>2. Accepted(o) BY <1>1 DEF Accepted
<1>3. log' = WithMessage(m) /\ row' = row BY <1>1, <1>2 DEF Perform
<1>4. /\ Unanswered(log) = {} /\ m.role \in {"user", "assistant"} /\ m.calls \subseteq Calls
      /\ m.role = "user" => m.calls = {}
      /\ m.calls \cap CallIds(log) = {}
  BY DEF Fits
<1>5. Answered(log) \subseteq CallIds(log) BY Asked
<1>6. \A c \in m.calls : row[c] = "absent" /\ c \notin Answered(log)
  <2> SUFFICES ASSUME NEW c \in m.calls PROVE row[c] = "absent" /\ c \notin Answered(log) OBVIOUS
  <2>1. c \in Calls /\ c \notin Answered(log) BY <1>4, <1>5
  <2>2. Kinds(log, c) = {} BY <2>1 DEF Answered
  <2>3. row[c] \notin Terminal /\ row[c] # "running" BY <1>4, <2>1, <2>2 DEF Story
  <2>4. row[c] \in Rows BY <2>1 DEF StoreOK
  <2> QED BY <2>1, <2>3, <2>4 DEF Rows
<1>7. CASE InLog(log, m)
  <2>1. log' = log BY <1>3, <1>7 DEF WithMessage, InLog
  <2>2. m.calls = {}
    <3> SUFFICES ASSUME m.calls # {} PROVE FALSE OBVIOUS
    <3>1. IsBundle(m) BY <1>4 DEF IsBundle
    <3>2. m.calls \subseteq CallIds(log) BY <1>7, <3>1 DEF InLog, CallIds
    <3> QED BY <1>4, <3>2
  <2> QED BY <1>3, <1>4, <2>1, <2>2 DEF Story
<1>8. CASE ~InLog(log, m)
  <2>1. log' = Append(log, m) BY <1>3, <1>8 DEF WithMessage, InLog
  <2>2. /\ Orderly(log') /\ Current(log') = m.calls /\ Answered(log') = Answered(log)
        /\ \A c \in Calls : Kinds(log', c) = Kinds(log, c)
        /\ Unanswered(log') = m.calls
    BY <1>4, <2>1, TurnAppended
  <2>3. Story' BY <1>3, <1>4, <2>2 DEF Story
  <2> QED BY <1>3, <1>4, <1>6, <2>2, <2>3
<1> QED BY <1>7, <1>8

\* What is compatible with what was done can still be done.
LEMMA StaysApt ==
    ASSUME Orderly(log), Orderly(log'), NEW o, NEW c \in Current(log), Performed(o, c), AptFor(o, c),
           o.op \in {"start", "settle", "append"},
           NEW p, NEW d \in Current(log), AptFor(p, d), Compatible(o, p)
    PROVE  AptFor(p, d)'
<1>0. c \in Calls /\ d \in Calls BY Asked
<1>1. p.msg.role = "tool" /\ p.msg.calls = {d} /\ p.msg.kind \in Terminal /\ o.msg.calls = {c} BY DEF AptFor
<1>2. CASE d # c
  <2>1. row'[d] = row[d] /\ Kinds(log', d) = Kinds(log, d) BY <1>0, <1>2 DEF Performed
  <2>2. d \in Answered(log') <=> d \in Answered(log) BY <1>0, <2>1 DEF Answered
  <2>3. InLog(log, p.msg) => InLog(log', p.msg) BY DEF Performed
  <2> QED BY <2>1, <2>2, <2>3 DEF AptFor
<1>3. CASE d = c /\ ~Accepted(o)
  <2>1. log' = log /\ row' = row BY <1>3 DEF Performed
  <2> QED BY <2>1 DEF AptFor
<1>4. CASE d = c /\ Accepted(o)
  <2>1. p.op # "append" /\ o.op # "append" BY <1>1, <1>4 DEF Compatible
  <2>2. CASE o.op = "start"
    <3>1. row'[c] = "running" BY <1>4, <2>2 DEF Performed
    <3> QED BY <1>1, <1>4, <2>1, <3>1 DEF AptFor, Terminal
  <2>3. CASE o.op = "settle"
    <3>1. row'[c] = o.msg.kind /\ InLog(log', o.msg) BY <1>4, <2>3 DEF Performed
    <3>2. o.msg.kind \in Terminal BY DEF AptFor
    <3>3. p.op = "settle" /\ p.msg.kind = o.msg.kind => p.msg = o.msg BY <1>1, <1>4, <2>3 DEF Compatible
    <3> QED BY <1>1, <1>4, <2>1, <3>1, <3>2, <3>3 DEF AptFor, Terminal
  <2> QED BY <2>1, <2>2, <2>3
<1> QED BY <1>2, <1>3, <1>4

\* A step that leaves the store alone and brings no new call to it.
LEMMA Frame ==
    ASSUME Orderly(log), Story, Queued, UNCHANGED store, orphans' \cup todo' \subseteq orphans \cup todo
    PROVE  Orderly(log') /\ Story' /\ Queued'
<1>1. log' = log /\ row' = row BY DEF store
<1>2. Story' BY <1>1 DEF Story
<1>3. \A o : Apt(o)' <=> Apt(o) BY <1>1 DEF Apt, AptFor, Fits
<1>4. \A o, p : Compatible(o, p)' <=> Compatible(o, p) BY DEF Compatible
<1> QED BY <1>1, <1>2, <1>3, <1>4 DEF Queued

LEMMA Still ==
    ASSUME Settling, UNCHANGED <<store, todo, pc, stage, seen, draft, bundle, cpc, run>>, orphans' \subseteq orphans
    PROVE  Settling'
<1>1. Orderly(log') /\ Story' /\ Queued' BY Frame DEF Settling
<1>2. log' = log /\ row' = row BY DEF store
<1>3. Places' BY <1>2 DEF Settling, Places, Fits
<1>4. Repairing' BY <1>2 DEF Settling, Repairing
<1>5. Closing' BY RunSame DEF Settling, Closing
<1>6. \A c \in Calls : Found(c)' <=> Found(c) BY <1>2, RunSame DEF Found
<1>7. \A o, c : Asks(o, c)' <=> Asks(o, c) BY RunSame
<1>8. bundle = Current(log) /\ pc = "batch" => bundle \subseteq Calls BY Asked DEF Settling
<1>9. Executing' BY <1>2, <1>6, <1>7, <1>8 DEF Settling, Executing
<1> QED BY <1>1, <1>3, <1>4, <1>5, <1>9 DEF Settling

\* Outside the batch and its repairs, only Places is left to show.
LEMMA Settled ==
    ASSUME Orderly(log'), Story', Queued', Places', pc' \notin {"repair", "close", "batch", "unstarted"}
    PROVE  Settling'
BY DEF Settling, Repairing, Closing, Executing

LEMMA Empty ==
    ASSUME Places, pc \notin {"repair", "close"}
    PROVE  todo = {} /\ (pc \notin {"batch", "unstarted", "close", "read"} => orphans = {})
BY DEF Places

\* Nothing is on its way at rest: the last thing a run does waits for the store.
LEMMA StartRunSettles ==
    ASSUME FInv, StartRun
    PROVE  Settling'
<1>1. /\ pc = "rest" /\ pc' = "read" /\ UNCHANGED <<store, orphans, seen, todo, draft, bundle, cpc>>
  BY DEF StartRun, batch, threads
<1>2. Places /\ Orderly(log) /\ Story /\ Queued BY DEF FInv, Settling
<1>3. Orderly(log') /\ Story' /\ Queued' BY <1>1, <1>2, Frame
<1>4. Places' BY <1>1, <1>2 DEF Places
<1> QED BY <1>1, <1>3, <1>4, Settled

LEMMA ReadMessagesSettles ==
    ASSUME FInv, ReadMessages
    PROVE  Settling'
<1>1. /\ pc = "read" /\ pc' = "rows" /\ orphans' = {} /\ seen' = log /\ stage' = stage
      /\ UNCHANGED <<store, todo, draft, bundle, cpc>>
  BY DEF ReadMessages, GoTo, batch
<1>2. Places /\ Orderly(log) /\ Story /\ Queued BY DEF FInv, Settling
<1>3. Orderly(log') /\ Story' /\ Queued' BY <1>1, <1>2, Frame
<1>4. log' = log BY <1>1 DEF store
<1>5. Places' BY <1>1, <1>2, <1>4 DEF Places
<1> QED BY <1>1, <1>3, <1>5, Settled

LEMMA ReadRowsSettles ==
    ASSUME LedgerAssumption, FInv, ReadRows
    PROVE  Settling'
<1> DEFINE running == {c \in Calls : row[c] = "running"}
           op(m) == IF m.kind = "unknown" THEN "settle" ELSE "append"
           R == Repairs(log, running, stage)
<1>1. Places /\ Orderly(log) /\ Story /\ Queued /\ row \in [Calls -> Rows] BY DEF FInv, Settling, IInv, StoreOK
<1>2. pc = "rows" /\ seen = log BY <1>1 DEF ReadRows, Places
<1>3. Repairable(log) BY <1>1, OrderlyIsRepairable
<1>4. /\ todo' = {StoreCall(op(m), m) : m \in R}
      /\ pc' = "repair" /\ stage' = stage /\ UNCHANGED <<store, orphans, draft, bundle, cpc>>
  BY <1>2, <1>3 DEF ReadRows, GoTo, batch, threads
<1>5. /\ \A m \in R : /\ m.role = "tool"
                      /\ \E c \in Unanswered(log) :
                            m.calls = {c} /\ m = Result(c, IF c \in running THEN "unknown" ELSE "not_started", stage)
      /\ \A m1, m2 \in R : m1.calls = m2.calls => m1 = m2
  <2> HIDE DEF running
  <2>1. \A m \in R : /\ m.role = "tool"
                     /\ \E c \in Unanswered(log) :
                          m.calls = {c} /\ m = Result(c, IF c \in running THEN "unknown" ELSE "not_started", stage)
    BY <1>1, RepairsAre
  <2>2. \A m1, m2 \in R : m1.calls = m2.calls => m1 = m2 BY <1>1, RepairsAre
  <2> QED BY <2>1, <2>2
<1>6. \A c \in Unanswered(log) : \E m \in R : m.calls = {c}
  <2> SUFFICES ASSUME NEW c \in Unanswered(log) PROVE \E m \in R : m.calls = {c} OBVIOUS
  <2>1. Result(c, IF c \in running THEN "unknown" ELSE "not_started", stage) \in R BY DEF Repairs
  <2> QED BY <2>1 DEF Result, Message
<1>7. Unanswered(log) = Current(log) \ Answered(log) /\ Current(log) \subseteq Calls BY <1>1, UnansweredIs, Asked
<1>8. orphans = {} /\ orphans' = {} /\ log' = log /\ row' = row /\ bundle' = {} /\ (\A c \in Calls : cpc'[c] = "new")
  BY <1>1, <1>2, <1>4 DEF Places, store
<1> HIDE DEF R, running
<1>9. \A o \in todo' : o.msg \in R /\ o = StoreCall(op(o.msg), o.msg) /\ o.op = op(o.msg) BY <1>4 DEF StoreCall
<1>10. ASSUME NEW o \in todo'
       PROVE  \E c \in Current(log) :
                 /\ AptFor(o, c) /\ o.msg.calls = {c} /\ c \in Calls
                 /\ o.op = "settle" => row[c] = "running"
  <2>1. o.msg \in R /\ o.op = op(o.msg) BY <1>9
  <2>2. PICK c \in Unanswered(log) :
          o.msg.calls = {c} /\ o.msg = Result(c, IF c \in running THEN "unknown" ELSE "not_started", stage)
    BY <1>5, <2>1
  <2>3. c \in Current(log) /\ c \notin Answered(log) /\ c \in Calls BY <1>7
  <2>4. o.msg.role = "tool" BY <1>5, <2>1
  <2>5. o.msg.kind = IF c \in running THEN "unknown" ELSE "not_started" BY <2>2 DEF Result, Message
  <2>6. CASE c \in running
    <3>1. row[c] = "running" BY <2>6 DEF running
    <3>2. o.op = "settle" /\ o.msg.kind = "unknown" BY <2>1, <2>5, <2>6
    <3> QED BY <2>2, <2>3, <2>4, <3>1, <3>2 DEF AptFor, Terminal
  <2>7. CASE c \notin running
    <3>1. o.op = "append" /\ o.msg.kind = "not_started" BY <2>1, <2>5, <2>7
    <3>2. row[c] # "running" BY <2>3, <2>7 DEF running
    <3>3. Kinds(log, c) = {} BY <2>3 DEF Answered
    <3>4. row[c] \notin Terminal BY <1>1, <2>3, <3>3 DEF Story
    <3>5. row[c] = "absent" BY <1>1, <2>3, <3>2, <3>4 DEF Rows
    <3> QED BY <2>2, <2>3, <2>4, <3>1, <3>5 DEF AptFor, Terminal
  <2> QED BY <2>6, <2>7
<1>11. \A o, p \in todo' : o.msg.calls = p.msg.calls => o = p
  <2> SUFFICES ASSUME NEW o \in todo', NEW p \in todo', o.msg.calls = p.msg.calls PROVE o = p OBVIOUS
  <2>1. o.msg = p.msg BY <1>5, <1>9
  <2> QED BY <1>9, <2>1
<1>12. \A o \in todo' : o.op \in {"settle", "append"} /\ o.msg.role = "tool" BY <1>5, <1>9
<1>13. \A c \in Unanswered(log) : \E o \in todo' : o.msg.calls = {c}
  <2> SUFFICES ASSUME NEW c \in Unanswered(log) PROVE \E o \in todo' : o.msg.calls = {c} OBVIOUS
  <2>1. PICK m \in R : m.calls = {c} BY <1>6
  <2>2. StoreCall(op(m), m) \in todo' /\ StoreCall(op(m), m).msg = m BY <1>4 DEF StoreCall
  <2> QED BY <2>1, <2>2
<1>14. Queued'
  <2>1. \A o \in orphans' \cup todo' : Apt(o)' BY <1>8, <1>10, <1>12 DEF Apt, AptFor
  <2>2. \A o, p \in orphans' \cup todo' : o # p => Compatible(o, p)' BY <1>8, <1>11, <1>12 DEF Compatible
  <2> QED BY <2>1, <2>2 DEF Queued
<1>15. Repairing' BY <1>8, <1>10, <1>11, <1>12, <1>13 DEF Repairing
<1>16. Places' BY <1>4, <1>8 DEF Places
<1>17. Closing' /\ Executing' BY <1>4 DEF Closing, Executing
<1>18. Story' BY <1>1, <1>8 DEF Story
<1> QED BY <1>1, <1>8, <1>14, <1>15, <1>16, <1>17, <1>18 DEF Settling

\* What the coroutine of a call may ask for is apt, and what several ask for compatible.
LEMMA AsksApt ==
    ASSUME NEW o, NEW c, Asks(o, c)
    PROVE  /\ o.op \in {"start", "settle"} /\ o.msg.role = "tool" /\ o.msg.calls = {c}
           /\ Found(c) => AptFor(o, c)
<1>1. CASE o = StoreCall("start", Result(c, "not_started", "exec"))
  <2>1. o.op = "start" /\ o.msg.role = "tool" /\ o.msg.calls = {c} /\ o.msg.kind = "not_started"
    BY <1>1 DEF StoreCall, Result, Message
  <2> QED BY <2>1 DEF AptFor, Found, Terminal
<1>2. ASSUME NEW k \in {"ran", "cancelled"}, o = StoreCall("settle", Result(c, k, "exec"))
      PROVE  /\ o.op \in {"start", "settle"} /\ o.msg.role = "tool" /\ o.msg.calls = {c}
             /\ Found(c) => AptFor(o, c)
  <2>1. /\ o.op = "settle" /\ o.msg = Result(c, k, "exec")
        /\ o.msg.role = "tool" /\ o.msg.calls = {c} /\ o.msg.kind = k
    BY <1>2 DEF StoreCall, Result, Message
  <2>2. k \in Terminal BY DEF Terminal
  <2> QED BY <2>1, <2>2 DEF AptFor, Found
<1> QED BY <1>1, <1>2 DEF Asks

LEMMA AsksCompatible ==
    ASSUME NEW o, NEW p, NEW c, NEW d, Asks(o, c), Asks(p, d)
    PROVE  Compatible(o, p)
<1>1. o.op \in {"start", "settle"} /\ o.msg.role = "tool" /\ o.msg.calls = {c} BY AsksApt
<1>2. p.op \in {"start", "settle"} /\ p.msg.role = "tool" /\ p.msg.calls = {d} BY AsksApt
<1>3. o.op = "settle" => \E k \in {"ran", "cancelled"} : o.msg = Result(c, k, "exec") /\ o.msg.kind = k
  BY DEF Asks, StoreCall, Result, Message
<1>4. p.op = "settle" => \E k \in {"ran", "cancelled"} : p.msg = Result(d, k, "exec") /\ p.msg.kind = k
  BY DEF Asks, StoreCall, Result, Message
<1>5. o.msg.calls = p.msg.calls => c = d BY <1>1, <1>2
<1> QED BY <1>1, <1>2, <1>3, <1>4, <1>5 DEF Compatible

\* What the run is about to ask of the store is not what it has abandoned.
LEMMA Apart ==
    ASSUME FInv, NEW o \in orphans
    PROVE  o \notin todo
<1> SUFFICES ASSUME o \in todo PROVE FALSE OBVIOUS
<1>1. pc = "close" BY DEF FInv, Settling, Places
<1>2. PICK c \in Calls : Asks(o, c) BY <1>1 DEF FInv, Settling, Closing
<1>3. PICK d \in Calls : o.msg = Unstarted(d) BY <1>1 DEF FInv, Settling, Closing
<1>4. o.msg.by = <<"exec", run>> BY <1>2 DEF Asks, StoreCall, Result, Message
<1>5. o.msg.by = <<"stop", run>> BY <1>3 DEF Unstarted, Result, Message
<1> QED BY <1>4, <1>5

\* A call that was on its way is made; the others stay on theirs.
LEMMA OneDone ==
    ASSUME FInv, NEW o \in orphans \cup todo, Perform(o), orphans' \cup todo' \subseteq (orphans \cup todo) \ {o}
    PROVE  /\ Orderly(log') /\ Story' /\ Queued'
           /\ \/ /\ o.op = "append" /\ Fits(o.msg) /\ row' = row /\ orphans' \cup todo' = {}
                 /\ Unanswered(log') = o.msg.calls
              \/ \E c \in Current(log) : AptFor(o, c) /\ Performed(o, c) /\ CallOf(o.msg) = c
<1>1. StoreOK /\ Orderly(log) /\ Story /\ Queued BY DEF FInv, Settling, IInv
<1>2. Apt(o) /\ o.op \in {"start", "settle", "append"} BY <1>1 DEF Queued, Apt
<1>3. CASE o.op = "append" /\ Fits(o.msg)
  <2>1. o.msg.role # "tool" BY <1>3 DEF Fits
  <2>2. orphans' \cup todo' = {}
    <3> SUFFICES ASSUME NEW p \in orphans' \cup todo' PROVE FALSE OBVIOUS
    <3>1. p \in orphans \cup todo /\ p # o OBVIOUS
    <3>2. Compatible(o, p) BY <1>1, <3>1 DEF Queued
    <3> QED BY <2>1, <3>2 DEF Compatible
  <2>3. Perform(StoreCall("append", o.msg))
    <3>1. Accepted(o) /\ Accepted(StoreCall("append", o.msg)) BY <1>3 DEF Accepted, StoreCall
    <3>2. log' = WithMessage(o.msg) /\ row' = row BY <1>3, <3>1 DEF Perform
    <3> QED BY <3>1, <3>2 DEF Perform, StoreCall
  <2>4. Orderly(log') /\ Story' /\ row' = row /\ Unanswered(log') = o.msg.calls
    BY <1>1, <1>3, <2>3, TurnPerformed
  <2>5. Queued' BY <2>2 DEF Queued
  <2> QED BY <1>3, <2>2, <2>4, <2>5
<1>4. CASE \E c \in Current(log) : AptFor(o, c)
  <2>1. PICK c \in Current(log) : AptFor(o, c) BY <1>4
  <2>2. Orderly(log') /\ Story' /\ Performed(o, c) /\ CallOf(o.msg) = c BY <1>1, <1>2, <2>1, Performs
  <2>3. o.msg.role = "tool" BY <2>1 DEF AptFor
  <2>4. ASSUME NEW p \in orphans' \cup todo' PROVE Apt(p)'
    <3>1. p \in orphans \cup todo /\ p # o OBVIOUS
    <3>2. Apt(p) /\ Compatible(o, p) BY <1>1, <3>1 DEF Queued
    <3>3. p.msg.role = "tool" BY <3>2 DEF Compatible
    <3>4. PICK d \in Current(log) : AptFor(p, d) BY <3>2, <3>3 DEF Apt, Fits
    <3>5. AptFor(p, d)' BY <1>1, <1>2, <2>1, <2>2, <3>2, <3>4, StaysApt
    <3>6. Current(log') = Current(log) BY <2>2 DEF Performed
    <3> QED BY <3>2, <3>5, <3>6 DEF Apt
  <2>5. Queued'
    <3>1. \A p, q \in orphans' \cup todo' : p # q => Compatible(p, q)' BY <1>1 DEF Queued, Compatible
    <3> QED BY <2>4, <3>1 DEF Queued
  <2> QED BY <2>1, <2>2, <2>5
<1> QED BY <1>2, <1>3, <1>4 DEF Apt

LEMMA RepairSettles ==
    ASSUME FInv, NEW o \in todo, Repair(o)
    PROVE  Settling'
<1>1. Places /\ Repairing /\ Orderly(log) BY DEF FInv, Settling
<1>2. pc = "repair" /\ Perform(o) /\ orphans = {} /\ orphans' = {} /\ UNCHANGED <<draft, bundle, cpc>>
  BY <1>1 DEF Repair, Await, Places, batch, threads
<1>3. o.op \in {"settle", "append"} /\ o.msg.role = "tool" BY <1>1, <1>2 DEF Repairing
<1>4. Accepted(o)
  <2>1. CASE o.op = "settle"
    <3>1. PICK c \in Calls : o.msg.calls = {c} /\ row[c] = "running" BY <1>1, <1>2, <2>1 DEF Repairing
    <3> QED BY <2>1, <3>1 DEF Accepted, SettleAccepted, CallOf
  <2>2. CASE o.op = "append" BY <2>2 DEF Accepted
  <2> QED BY <1>3, <2>1, <2>2
<1>5. todo' = todo \ {o} /\ pc' = pc /\ stage' = stage BY <1>4 DEF Repair
<1>6. /\ Orderly(log') /\ Story' /\ Queued'
      /\ \/ o.op = "append" /\ Fits(o.msg)
         \/ \E c \in Current(log) : AptFor(o, c) /\ Performed(o, c) /\ CallOf(o.msg) = c
  BY <1>2, <1>5, OneDone
<1>7. PICK c \in Current(log) : AptFor(o, c) /\ Performed(o, c) BY <1>3, <1>6 DEF Fits
<1>8. o.msg.calls = {c} /\ c \in Calls BY <1>1, <1>7, Asked DEF AptFor
<1>9. Repairing'
  <2>0. \A p, q \in todo : p.msg.calls = q.msg.calls => p = q BY <1>1, <1>2 DEF Repairing
  <2>1. \A p \in todo' : p.msg.calls # {c} BY <1>5, <1>8, <2>0
  <2>2. \A d \in Calls \ {c} : row'[d] = row[d] BY <1>7 DEF Performed
  <2>3. c \notin Unanswered(log') /\ Unanswered(log') \subseteq Unanswered(log)
    <3>1. Unanswered(log') = Current(log) \ Answered(log') /\ Unanswered(log) = Current(log) \ Answered(log)
      BY <1>1, <1>6, <1>7, UnansweredIs DEF Performed
    <3>2. c \in Answered(log') BY <1>3, <1>4, <1>7 DEF Performed
    <3>3. \A d \in Calls \ {c} : d \in Answered(log) => d \in Answered(log')
      BY <1>7, KindsAnswered DEF Performed
    <3>4. Answered(log) \subseteq Calls BY DEF Answered
    <3> QED BY <3>1, <3>2, <3>3, <3>4
  <2>4. \A d \in Unanswered(log') : \E p \in todo' : p.msg.calls = {d}
    <3> SUFFICES ASSUME NEW d \in Unanswered(log') PROVE \E p \in todo' : p.msg.calls = {d} OBVIOUS
    <3>1. PICK p \in todo : p.msg.calls = {d} BY <1>1, <1>2, <2>3 DEF Repairing
    <3>2. p # o BY <1>8, <2>3, <3>1
    <3> QED BY <1>5, <3>1, <3>2
  <2>5. ASSUME NEW p \in todo', p.op = "settle" PROVE \E d \in Calls : p.msg.calls = {d} /\ row'[d] = "running"
    <3>1. p \in todo BY <1>5
    <3>2. PICK d \in Calls : p.msg.calls = {d} /\ row[d] = "running" BY <1>1, <1>2, <2>5, <3>1 DEF Repairing
    <3>3. d # c BY <2>1, <3>2
    <3> QED BY <2>2, <3>2, <3>3
  <2> QED BY <1>1, <1>2, <1>5, <2>4, <2>5 DEF Repairing
<1>10. Places' BY <1>1, <1>2, <1>5 DEF Places
<1>11. Closing' /\ Executing' BY <1>2, <1>5 DEF Closing, Executing
<1> QED BY <1>6, <1>9, <1>10, <1>11 DEF Settling

\* A step outside the batch that neither reads nor writes.
LEMMA PassingSettles ==
    ASSUME FInv, ModelStops \/ ModelAnswers \/ Repaired \/ Closed \/ \E B \in (SUBSET Calls) \ {{}} : ModelAsks(B)
    PROVE  Settling'
<1>1. Places /\ Repairing /\ Orderly(log) /\ Story /\ Queued BY DEF FInv, Settling
<1>2. /\ pc \in {"model", "repair", "close"} /\ UNCHANGED <<store, orphans, seen, todo, bundle, cpc>> /\ todo = {}
  BY <1>1, Empty DEF ModelStops, ModelAnswers, Repaired, Closed, ModelAsks, batch, threads
<1>3. Orderly(log') /\ Story' /\ Queued' BY <1>1, <1>2, Frame
<1>4. log' = log BY <1>2 DEF store
<1>5. pc # "close" => orphans = {} BY <1>1, <1>2 DEF Places
<1>6. bundle = {} /\ \A c \in Calls : cpc[c] = "new" BY <1>1, <1>2 DEF Places
<1>7. CASE ModelStops \/ Closed
  <2>1. pc' = "read" /\ stage' = "final" BY <1>7 DEF ModelStops, Closed, Finalize
  <2>2. Places' BY <1>2, <1>5, <1>6, <2>1 DEF Places
  <2> QED BY <1>3, <2>1, <2>2, Settled
<1>8. CASE Repaired
  <2>1. pc = "repair" /\ pc' \in {"user", "publish"} BY <1>8 DEF Repaired, GoTo
  <2>2. Unanswered(log) = {} BY <1>1, <1>2, <2>1 DEF Repairing
  <2>3. Places' BY <1>2, <1>4, <1>5, <1>6, <2>1, <2>2 DEF Places
  <2> QED BY <1>3, <2>1, <2>3, Settled
<1>9. CASE ModelAnswers
  <2>1. pc = "model" /\ pc' = "record" /\ draft' = Answer("model") BY <1>9 DEF ModelAnswers, GoTo
  <2>2. Unanswered(log) = {} BY <1>1, <2>1 DEF Places
  <2>3. draft'.role = "assistant" /\ draft'.calls = {} BY <2>1 DEF Answer, Message
  <2>4. Fits(draft)' BY <1>4, <2>2, <2>3 DEF Fits
  <2>5. Places' BY <1>2, <1>4, <1>5, <1>6, <2>1, <2>2, <2>3, <2>4 DEF Places
  <2> QED BY <1>3, <2>1, <2>5, Settled
<1>10. ASSUME NEW B \in (SUBSET Calls) \ {{}}, ModelAsks(B) PROVE Settling'
  <2>1. pc = "model" BY <1>10 DEF ModelAsks
  <2>2. Unanswered(log) = {} BY <1>1, <2>1 DEF Places
  <2>3. CASE B \cap CallIds(log) = {}
    <3>1. draft' = Advertise(B) /\ pc' = "record" BY <1>10, <2>3 DEF ModelAsks, GoTo
    <3>2. draft'.role = "assistant" /\ draft'.calls = B BY <3>1 DEF Advertise, Message
    <3>3. Fits(draft)' BY <1>4, <2>2, <2>3, <3>2 DEF Fits
    <3>4. Places' BY <1>2, <1>4, <1>5, <1>6, <2>1, <2>2, <3>1, <3>2, <3>3 DEF Places
    <3> QED BY <1>3, <3>1, <3>4, Settled
  <2>4. CASE B \cap CallIds(log) # {}
    <3>1. pc' = "read" BY <1>10, <2>4 DEF ModelAsks, Finalize
    <3>2. Places' BY <1>2, <1>5, <1>6, <3>1 DEF Places
    <3> QED BY <1>3, <3>1, <3>2, Settled
  <2> QED BY <2>3, <2>4
<1> QED BY <1>7, <1>8, <1>9, <1>10

\* Messages that the run appends when no call is open.
LEMMA AppendsSettle ==
    ASSUME FInv, AppendUser \/ PublishResult
    PROVE  Settling'
<1>1. Places /\ Orderly(log) /\ Story /\ Queued /\ StoreOK BY DEF FInv, Settling, IInv
<1>2. /\ pc \in {"user", "publish"} /\ pc' \in {"model", "rest"} /\ UNCHANGED <<orphans, todo, bundle, cpc>>
  BY DEF AppendUser, PublishResult, GoTo, Await, batch, threads
<1>3. Unanswered(log) = {} /\ orphans = {} /\ todo = {} /\ bundle = {} /\ \A c \in Calls : cpc[c] = "new"
  BY <1>1, <1>2 DEF Places
<1>4. Queued' BY <1>2, <1>3 DEF Queued
<1>5. Fits(UserMessage) /\ Fits(Answer("final")) BY <1>3 DEF Fits, UserMessage, Answer, Message
<1>6. UserMessage.calls = {} /\ Answer("final").calls = {} BY DEF UserMessage, Answer, Message
<1>7. Orderly(log') /\ Story' /\ Unanswered(log') = {}
  <2>1. CASE UNCHANGED store BY <1>1, <1>2, <1>3, <2>1, Frame DEF store
  <2>2. CASE \E m \in {UserMessage, Answer("final")} : Perform(StoreCall("append", m))
    BY <1>1, <1>5, <1>6, <2>2, TurnPerformed
  <2> QED BY <2>1, <2>2 DEF AppendUser, PublishResult, Await
<1>8. Places' BY <1>2, <1>3, <1>7 DEF Places
<1> QED BY <1>2, <1>4, <1>7, <1>8, Settled

\* The batch begins behind its bundle, whose calls have no rows.
LEMMA RecordAssistantSettles ==
    ASSUME FInv, RecordAssistant
    PROVE  Settling'
<1>1. Places /\ Orderly(log) /\ Story /\ Queued /\ StoreOK BY DEF FInv, Settling, IInv
<1>2. pc = "record" /\ Perform(StoreCall("append", draft)) /\ UNCHANGED <<orphans, todo, cpc>>
  BY DEF RecordAssistant, Await, batch, threads
<1>3. orphans = {} /\ todo = {} /\ bundle = {} /\ (\A c \in Calls : cpc[c] = "new") /\ Fits(draft)
  BY <1>1, <1>2 DEF Places
<1>4. Queued' BY <1>2, <1>3 DEF Queued
<1>5. /\ Orderly(log') /\ Story' /\ row' = row
      /\ Unanswered(log') = draft.calls
      /\ draft.calls # {} => /\ Current(log') = draft.calls
                             /\ \A c \in draft.calls : row[c] = "absent" /\ c \notin Answered(log')
  BY <1>1, <1>2, <1>3, TurnPerformed
<1>6. CASE draft.calls = {}
  <2>1. pc' = "read" /\ bundle' = bundle BY <1>6 DEF RecordAssistant, Finalize, batch
  <2>2. Places' BY <1>2, <1>3, <2>1 DEF Places
  <2> QED BY <1>4, <1>5, <2>1, <2>2, Settled
<1>7. CASE draft.calls # {}
  <2>1. pc' = "batch" /\ bundle' = draft.calls BY <1>7 DEF RecordAssistant, GoTo
  <2>2. Places' BY <1>2, <1>3, <2>1 DEF Places
  <2>3. bundle' \subseteq Calls BY <1>3, <2>1 DEF Fits
  <2>4. \A c \in bundle' : Found(c)' /\ cpc'[c] = "new" BY <1>2, <1>3, <1>5, <1>7, <2>1, <2>3 DEF Found, Terminal
  <2>5. Executing' BY <1>2, <1>3, <1>5, <1>7, <2>1, <2>4 DEF Executing
  <2>6. Repairing' /\ Closing' BY <2>1 DEF Repairing, Closing
  <2> QED BY <1>4, <1>5, <2>2, <2>5, <2>6 DEF Settling
<1> QED BY <1>6, <1>7

LEMMA CrashSettles ==
    ASSUME FInv, Crash
    PROVE  Settling'
<1>1. /\ UNCHANGED store /\ pc' = "rest" /\ stage' = "crashed" /\ orphans' = {} /\ todo' = {}
      /\ bundle' = {} /\ cpc' = [c \in Calls |-> "new"]
  BY DEF Crash, NoBatch, threads
<1>2. Orderly(log') /\ Story' /\ Queued' BY <1>1, Frame DEF FInv, Settling
<1>3. Places' BY <1>1 DEF Places
<1> QED BY <1>1, <1>2, <1>3, Settled

-----------------------------------------------------------------------------
(* The end of a batch                                                       *)

LEMMA BatchDoneSettles ==
    ASSUME FInv, BatchDone
    PROVE  Settling'
<1>1. Places /\ Executing /\ Orderly(log) /\ Story /\ Queued BY DEF FInv, Settling
<1>2. /\ pc = "batch" /\ pc' = "model" /\ bundle = Recorded /\ bundle' = {} /\ cpc' = [c \in Calls |-> "new"]
      /\ UNCHANGED <<store, orphans, todo, stage, seen, draft>>
  BY DEF BatchDone, NoBatch, GoTo, threads
<1>3. Orderly(log') /\ Story' /\ Queued' BY <1>1, <1>2, Frame
<1>4. \A c \in bundle : cpc[c] = "recorded" BY <1>2 DEF Recorded
<1>5. orphans = {} /\ todo = {} BY <1>1, <1>2, <1>4 DEF Executing, LetGo, Places
<1>6. Current(log) \subseteq Answered(log) BY <1>1, <1>2, <1>4 DEF Executing
<1>7. Unanswered(log') = {} BY <1>1, <1>2, <1>6, UnansweredIs DEF store
<1>8. Places' BY <1>2, <1>5, <1>7 DEF Places
<1> QED BY <1>2, <1>3, <1>8, Settled

LEMMA BatchStoppedSettles ==
    ASSUME FInv, BatchStopped
    PROVE  Settling'
<1>1. Places /\ Executing /\ Orderly(log) /\ Story /\ Queued /\ Placed /\ bundle \subseteq Calls
  BY DEF FInv, Settling, IInv, Submitted
<1>2. pc = "batch" /\ Active = {} /\ UNCHANGED <<store, orphans, todo, seen, draft, run>>
  BY DEF BatchStopped, bounds, threads
<1>3. Orderly(log') /\ Story' /\ Queued' BY <1>1, <1>2, Frame
<1>4. todo = {} BY <1>1, <1>2, Empty
<1>5. CASE pc' = "read" /\ NoBatch
  <2>1. Places' BY <1>2, <1>4, <1>5 DEF Places, NoBatch
  <2> QED BY <1>3, <1>5, <2>1, Settled
<1>6. CASE pc' = "unstarted" /\ UNCHANGED batch
  <2>1. bundle' = bundle /\ cpc' = cpc BY <1>6 DEF batch
  <2>2. Places' BY <1>1, <1>2, <1>4, <1>6 DEF Places
  <2>3. \A c \in Calls : cpc[c] \notin ActiveAt BY <1>1, <1>2 DEF Executing, Active, ActiveAt
  <2>4. \A o, c : Asks(o, c)' <=> Asks(o, c) BY <1>2, RunSame
  <2>5. Executing' BY <1>1, <1>2, <1>6, <2>1, <2>3, <2>4 DEF Executing, store
  <2>6. Repairing' /\ Closing' BY <1>6 DEF Repairing, Closing
  <2> QED BY <1>3, <2>2, <2>5, <2>6 DEF Settling
<1> QED BY <1>5, <1>6 DEF BatchStopped, Finalize, GoTo

LEMMA FindUnstartedSettles ==
    ASSUME FInv, FindUnstarted
    PROVE  Settling'
<1>1. Places /\ Executing /\ Orderly(log) /\ Story /\ Queued BY DEF FInv, Settling
<1>2. /\ pc = "unstarted" /\ pc' = "close" /\ UNCHANGED <<store, orphans, seen, draft>>
      /\ todo' = {StoreCall("start", Unstarted(c)) : c \in Open}
      /\ bundle' = {} /\ cpc' = [c \in Calls |-> "new"] /\ run' = run
  BY DEF FindUnstarted, NoBatch, GoTo, bounds, threads
<1>3. \A c \in Open : c \in Current(log) /\ c \in Calls /\ c \notin Answered(log)
  BY <1>1, <1>2, Asked, AnsweredIs DEF Executing, Open
<1>4. log' = log /\ row' = row BY <1>2 DEF store
<1>5. ASSUME NEW o \in todo'
      PROVE  \E c \in Current(log) : /\ o.op = "start" /\ o.msg = Unstarted(c) /\ AptFor(o, c) /\ c \in Calls
  <2>1. PICK c \in Open : o = StoreCall("start", Unstarted(c)) BY <1>2
  <2>2. o.op = "start" /\ o.msg = Unstarted(c) BY <2>1 DEF StoreCall
  <2>3. o.msg.role = "tool" /\ o.msg.calls = {c} /\ o.msg.kind = "not_started"
    BY <2>2 DEF Unstarted, Result, Message
  <2>4. AptFor(o, c) BY <1>3, <2>2, <2>3 DEF AptFor, Terminal
  <2> QED BY <1>3, <2>2, <2>4
<1>6. ASSUME NEW o \in orphans
      PROVE  o.op \in {"start", "settle"} /\ o.msg.role = "tool" /\ \E c \in Calls : Asks(o, c)
  <2>1. PICK c \in Current(log) : Asks(o, c) BY <1>1, <1>2 DEF Executing
  <2> QED BY <1>1, <2>1, Asked, AsksApt
<1>7. \A o \in todo' : o.op = "start" /\ o.msg.role = "tool" BY <1>5 DEF AptFor
<1>8. Queued'
  <2>1. \A o \in todo' : Apt(o)' BY <1>4, <1>5 DEF Apt, AptFor
  <2>2. \A o \in orphans' : Apt(o)' BY <1>1, <1>2, <1>4 DEF Queued, Apt, AptFor, Fits
  <2>3. \A o, p \in orphans : o # p => Compatible(o, p)' BY <1>1 DEF Queued, Compatible
  <2>4. \A o, p \in orphans \cup todo' : o \in todo' \/ p \in todo' => Compatible(o, p)'
    <3> SUFFICES ASSUME NEW o \in orphans \cup todo', NEW p \in orphans \cup todo', o \in todo' \/ p \in todo'
                 PROVE  Compatible(o, p)'
      OBVIOUS
    <3>1. /\ o.op \in {"start", "settle"} /\ o.msg.role = "tool"
          /\ p.op \in {"start", "settle"} /\ p.msg.role = "tool" /\ "start" \in {o.op, p.op}
      BY <1>6, <1>7
    <3> QED BY <3>1 DEF Compatible
  <2> QED BY <1>2, <2>1, <2>2, <2>3, <2>4 DEF Queued
<1>9. Places' BY <1>2 DEF Places
<1>10. Closing' BY <1>2, <1>5, <1>6, RunSame DEF Closing
<1>11. Repairing' /\ Executing' BY <1>2 DEF Repairing, Executing
<1>12. Orderly(log') /\ Story' BY <1>1, <1>4 DEF Story
<1> QED BY <1>8, <1>9, <1>10, <1>11, <1>12 DEF Settling

LEMMA CloseCallSettles ==
    ASSUME FInv, NEW o \in todo, CloseCall(o)
    PROVE  Settling'
<1>1. Places /\ Closing /\ Orderly(log) /\ Story /\ Queued /\ StoreOK BY DEF FInv, Settling, IInv
<1>2. pc = "close" /\ Perform(o) /\ run' = run /\ UNCHANGED <<orphans, draft, bundle, cpc>>
  BY DEF CloseCall, Await, batch, bounds, threads
<1>3. bundle = {} /\ \A c \in Calls : cpc[c] = "new" BY <1>1, <1>2 DEF Places
<1>4. o.op \in {"start", "settle"} BY <1>1, <1>2 DEF Closing
<1>5. CASE todo' \subseteq todo \ {o} /\ pc' \in {"close", "read"}
  <2>1. Orderly(log') /\ Story' /\ Queued' BY <1>2, <1>5, Apart, OneDone
  <2>2. todo' # {} => pc' = "close"
    <3>1. pc' = "read" => todo' = {} BY <1>2 DEF CloseCall
    <3> QED BY <1>5, <3>1
  <2>3. Places' BY <1>2, <1>3, <1>5, <2>2 DEF Places
  <2>4. Closing' BY <1>1, <1>2, <1>5, RunSame DEF Closing
  <2>5. Repairing' /\ Executing' BY <1>5 DEF Repairing, Executing
  <2> QED BY <2>1, <2>3, <2>4, <2>5 DEF Settling
<1>6. CASE o.op = "start" /\ Accepted(o) /\ pc' = pc /\ stage' = stage
           /\ todo' = (todo \ {o}) \cup {StoreCall("settle", o.msg)}
  <2> DEFINE s == StoreCall("settle", o.msg)
  <2>1. s.op = "settle" /\ s.msg = o.msg BY DEF StoreCall
  <2> HIDE DEF s
  <2>2. Apt(o) BY <1>1 DEF Queued
  <2>3. PICK c \in Current(log) : AptFor(o, c) BY <1>6, <2>2 DEF Apt
  <2>4. Orderly(log') /\ Story' /\ Performed(o, c) BY <1>1, <1>2, <1>6, <2>3, Performs
  <2>5. c \in Calls BY <1>1, Asked
  <2>6. log' = log /\ row'[c] = "running" /\ (\A d \in Calls \ {c} : row'[d] = row[d])
    BY <1>6, <2>4 DEF Performed
  <2>7. AptFor(s, c)' BY <2>1, <2>3, <2>6 DEF AptFor, Terminal
  <2>8. ASSUME NEW p \in (orphans \cup todo) \ {o} PROVE /\ Apt(p)' /\ Compatible(s, p)' /\ Compatible(p, s)'
    <3>1. Apt(p) /\ Compatible(o, p) BY <1>1 DEF Queued
    <3>2. p.msg.role = "tool" BY <3>1 DEF Compatible
    <3>3. PICK d \in Current(log) : AptFor(p, d) BY <3>1, <3>2 DEF Apt, Fits
    <3>4. AptFor(p, d)' BY <1>1, <1>6, <2>3, <2>4, <3>1, <3>3, StaysApt
    <3>5. Apt(p)' BY <2>6, <3>1, <3>3, <3>4 DEF Apt
    <3>6. PICK f \in Calls : o.msg = Unstarted(f) BY <1>1, <1>2 DEF Closing
    <3>7. p.op = "settle" /\ o.msg.calls = p.msg.calls /\ o.msg.kind = p.msg.kind => o.msg = p.msg
      <4>1. CASE p \in todo
        <5>1. PICK e \in Calls : p.msg = Unstarted(e) BY <1>1, <1>2, <4>1 DEF Closing
        <5> QED BY <3>6, <5>1 DEF Unstarted, Result, Message
      <4>2. CASE p \in orphans
        <5>1. PICK e \in Calls : Asks(p, e) BY <1>1, <1>2, <4>2 DEF Closing
        <5>2. p.op = "settle" => p.msg.kind \in {"ran", "cancelled"} BY <5>1 DEF Asks, StoreCall, Result, Message
        <5>3. o.msg.kind = "not_started" BY <3>6 DEF Unstarted, Result, Message
        <5> QED BY <5>2, <5>3
      <4> QED BY <4>1, <4>2
    <3>8. Compatible(s, p) /\ Compatible(p, s) BY <1>6, <2>1, <3>1, <3>7 DEF Compatible
    <3> QED BY <3>5, <3>8 DEF Compatible
  <2>9. Queued'
    <3>1. orphans' \cup todo' = ((orphans \cup todo) \ {o}) \cup {s} BY <1>2, <1>6, Apart DEF s
    <3>2. Apt(s)' BY <2>1, <2>6, <2>7 DEF Apt
    <3>3. \A p, q \in (orphans \cup todo) \ {o} : p # q => Compatible(p, q)' BY <1>1 DEF Queued, Compatible
    <3> QED BY <2>8, <3>1, <3>2, <3>3 DEF Queued
  <2>10. Places' BY <1>2, <1>3, <1>6 DEF Places
  <2>11. Closing'
    <3>1. \A p \in todo' : p \in todo \/ p = s BY <1>6 DEF s
    <3>2. s.op = "settle" /\ \E d \in Calls : s.msg = Unstarted(d) BY <1>1, <1>2, <2>1 DEF Closing
    <3> QED BY <1>1, <1>2, <3>1, <3>2, RunSame DEF Closing
  <2>12. Repairing' /\ Executing' BY <1>2, <1>6 DEF Repairing, Executing
  <2> QED BY <2>4, <2>9, <2>10, <2>11, <2>12 DEF Settling
<1>7. \/ todo' \subseteq todo \ {o} /\ pc' \in {"close", "read"}
      \/ /\ o.op = "start" /\ Accepted(o) /\ pc' = pc /\ stage' = stage
         /\ todo' = (todo \ {o}) \cup {StoreCall("settle", o.msg)}
  <2>1. CASE Accepted(o) /\ o.op = "start" BY <1>2, <2>1 DEF CloseCall
  <2>2. CASE (Accepted(o) /\ o.op = "settle") \/ (~Accepted(o) /\ row[CallOf(o.msg)] \in Terminal)
    BY <1>2, <2>2 DEF CloseCall
  <2>3. CASE ~Accepted(o) /\ row[CallOf(o.msg)] \notin Terminal BY <1>2, <2>3 DEF CloseCall, Finalize
  <2> QED BY <1>4, <2>1, <2>2, <2>3
<1> QED BY <1>5, <1>6, <1>7

-----------------------------------------------------------------------------
(* The calls of a batch                                                     *)

LEMMA InBatch ==
    ASSUME FInv, NEW c \in Calls, cpc[c] \in ActiveAt \/ Eligible(c)
    PROVE  pc = "batch" /\ c \in bundle /\ cpc[c] # "recorded"
BY DEF FInv, Settling, Places, Executing, Eligible, ActiveAt

\* A step of the batch that leaves the store alone: it may abandon what its coroutines asked for.
LEMMA BatchGoesOn ==
    ASSUME FInv, pc = "batch", pc' = "batch", UNCHANGED <<store, todo, bundle, run>>,
           \A c \in Calls : /\ cpc'[c] = "recorded" => cpc[c] = "recorded"
                            /\ cpc[c] \in LetGo => cpc'[c] \in LetGo
                            /\ cpc'[c] # "new" => c \in bundle,
           \A o \in orphans' : o \in orphans \/ \E c \in bundle : Asks(o, c) /\ cpc'[c] \in LetGo
    PROVE  Settling'
<1>1. Places /\ Executing /\ Orderly(log) /\ Story /\ Queued BY DEF FInv, Settling
<1>2. log' = log /\ row' = row BY DEF store
<1>3. bundle = Current(log) /\ bundle \subseteq Calls BY <1>1, Asked DEF Executing
<1>4. \A o \in orphans' : \E c \in bundle : Asks(o, c) /\ cpc'[c] \in LetGo BY <1>1, <1>3 DEF Executing
<1>5. todo = {} /\ todo' = {} BY <1>1, Empty
<1>6. Queued'
  <2>1. ASSUME NEW o \in orphans' PROVE Apt(o)'
    <3>1. PICK c \in bundle : Asks(o, c) BY <1>4
    <3>2. Found(c) BY <1>1 DEF Executing
    <3>3. AptFor(o, c) /\ o.op \in {"start", "settle"} BY <3>1, <3>2, AsksApt
    <3> QED BY <1>2, <1>3, <3>3 DEF Apt, AptFor
  <2>2. \A o, p \in orphans' : Compatible(o, p)' BY <1>4, AsksCompatible DEF Compatible
  <2> QED BY <1>5, <2>1, <2>2 DEF Queued
<1>7. Places' BY <1>5 DEF Places
<1>8. Executing'
  <2>1. \A c \in bundle : Found(c)' /\ (cpc'[c] = "recorded" => c \in Answered(log'))
    <3>1. \A c \in bundle : Found(c) /\ (cpc[c] = "recorded" => c \in Answered(log)) BY <1>1 DEF Executing
    <3>2. \A c : Found(c)' <=> Found(c) BY <1>2, RunSame DEF Found
    <3> QED BY <1>2, <1>3, <3>1, <3>2
  <2>2. \A o \in orphans' : \E c \in bundle' : Asks(o, c)' /\ cpc'[c] \in LetGo BY <1>3, <1>4, RunSame
  <2> QED BY <1>2, <1>3, <2>1, <2>2 DEF Executing
<1>9. Repairing' /\ Closing' BY DEF Repairing, Closing
<1>10. Orderly(log') /\ Story' BY <1>1, <1>2 DEF Story
<1> QED BY <1>6, <1>7, <1>8, <1>9, <1>10 DEF Settling

LEMMA CallMoved ==
    ASSUME FInv, NEW c \in bundle, NEW p, MoveTo(c, p), pc = "batch"
    PROVE  /\ c \in Calls /\ bundle' = bundle /\ cpc'[c] = p
           /\ \A d \in Calls \ {c} : cpc'[d] = cpc[d]
           /\ p # "new" => \A d \in Calls : cpc'[d] # "new" => d \in bundle
<1>1. bundle \subseteq Calls /\ cpc \in [Calls -> CallStates] BY DEF FInv, IInv, Submitted, Placed
<1> QED BY <1>1 DEF MoveTo, FInv, Settling, Executing

LEMMA QuietCallsSettle ==
    ASSUME FInv, NEW c \in Calls,
           Begin(c) \/ EnterTool(c) \/ ToolReturns(c) \/ HostFails(c) \/ StopOnEvent(c) \/ Refuse(c)
    PROVE  Settling'
<1>1. pc = "batch" /\ c \in bundle /\ cpc[c] \in {"new", "started", "running"}
  <2>1. cpc[c] \in {"new", "started", "running"}
    BY DEF Begin, EnterTool, ToolReturns, HostFails, StopOnEvent, Refuse, Eligible
  <2>2. cpc[c] \in ActiveAt \/ Eligible(c)
    BY DEF Begin, EnterTool, ToolReturns, HostFails, StopOnEvent, Refuse, ActiveAt
  <2> QED BY <2>1, <2>2, InBatch
<1>2. pc' = pc /\ UNCHANGED <<store, todo, orphans, run>>
  BY DEF Begin, EnterTool, ToolReturns, HostFails, StopOnEvent, Refuse, callUnchanged, bounds, threads
<1>3. \/ \E p \in {"starting", "running", "returned", "failed", "stopping"} : MoveTo(c, p)
      \/ UNCHANGED <<cpc, bundle>>
  BY DEF Begin, EnterTool, ToolReturns, HostFails, StopOnEvent, Refuse
<1>4. CASE \E p \in {"starting", "running", "returned", "failed", "stopping"} : MoveTo(c, p)
  <2>1. PICK p \in {"starting", "running", "returned", "failed", "stopping"} : MoveTo(c, p) BY <1>4
  <2>2. /\ bundle' = bundle /\ cpc'[c] = p /\ \A d \in Calls \ {c} : cpc'[d] = cpc[d]
        /\ p # "new" => \A d \in Calls : cpc'[d] # "new" => d \in bundle
    BY <1>1, <2>1, CallMoved
  <2>3. \A d \in Calls : /\ cpc'[d] = "recorded" => cpc[d] = "recorded"
                         /\ cpc[d] \in LetGo => cpc'[d] \in LetGo
    BY <1>1, <2>2 DEF LetGo
  <2> QED BY <1>1, <1>2, <2>2, <2>3, BatchGoesOn
<1>5. CASE UNCHANGED <<cpc, bundle>>
  <2>1. \A d \in Calls : cpc[d] # "new" => d \in bundle BY <1>1 DEF FInv, Settling, Executing
  <2> QED BY <1>1, <1>2, <1>5, <2>1, BatchGoesOn
<1> QED BY <1>3, <1>4, <1>5

LEMMA GraceExpiresSettles ==
    ASSUME FInv, NEW c \in Calls, GraceExpires(c)
    PROVE  Settling'
<1>1. pc = "batch" /\ c \in bundle
  <2>1. cpc[c] \in ActiveAt BY DEF GraceExpires, ActiveAt
  <2> QED BY <2>1, InBatch
<1>2. /\ pc' = pc /\ UNCHANGED <<store, todo, run>> /\ MoveTo(c, "lost")
      /\ orphans' = orphans \cup {StoreCall("settle", Result(c, "ran", "exec"))}
  BY DEF GraceExpires, Abandon, RanResult, callUnchanged, bounds
<1>3. /\ bundle' = bundle /\ cpc'[c] = "lost" /\ \A d \in Calls \ {c} : cpc'[d] = cpc[d]
      /\ \A d \in Calls : cpc'[d] # "new" => d \in bundle
  BY <1>1, <1>2, CallMoved
<1>4. Asks(StoreCall("settle", Result(c, "ran", "exec")), c) BY DEF Asks
<1>5. \A d \in Calls : /\ cpc'[d] = "recorded" => cpc[d] = "recorded"
                       /\ cpc[d] \in LetGo => cpc'[d] \in LetGo
  BY <1>3 DEF LetGo
<1>6. cpc'[c] \in LetGo BY <1>3 DEF LetGo
<1> QED BY <1>1, <1>2, <1>3, <1>4, <1>5, <1>6, BatchGoesOn

LEMMA DeliverSettles ==
    ASSUME FInv, pc = "batch", pc' = "batch", NEW S \in SUBSET Active, Deliver(S), UNCHANGED <<todo, run>>
    PROVE  Settling'
<1>1. \A c \in S : c \in bundle /\ c \in Calls /\ cpc[c] \in ActiveAt
  BY DEF Active, FInv, IInv, Submitted
<1>2. /\ cpc' = [c \in Calls |-> IF c \in S THEN Interrupted(cpc[c]) ELSE cpc[c]]
      /\ orphans' = orphans \cup UNION {Left(c) : c \in S}
      /\ UNCHANGED <<store, bundle>>
  BY DEF Deliver, Abandon, threads
<1>3. \A c \in Calls : cpc[c] # "new" => c \in bundle BY DEF FInv, Settling, Executing
<1>4. \A c \in Calls : /\ cpc'[c] = "recorded" => cpc[c] = "recorded"
                       /\ cpc[c] \in LetGo => cpc'[c] \in LetGo
                       /\ cpc'[c] # "new" => c \in bundle
  <2> SUFFICES ASSUME NEW c \in Calls
               PROVE  /\ cpc'[c] = "recorded" => cpc[c] = "recorded"
                      /\ cpc[c] \in LetGo => cpc'[c] \in LetGo
                      /\ cpc'[c] # "new" => c \in bundle
    OBVIOUS
  <2>1. CASE c \in S
    <3>1. cpc'[c] = Interrupted(cpc[c]) BY <1>2, <2>1
    <3>2. cpc'[c] \in {"stopped", "stopping", "grace", "lost"} BY <1>1, <2>1, <3>1, InterruptedAt
    <3>3. cpc[c] \in LetGo => cpc[c] = "lost" BY <1>1, <2>1 DEF LetGo, ActiveAt
    <3>4. cpc[c] = "lost" => cpc'[c] = "stopped" BY <3>1 DEF Interrupted
    <3> QED BY <1>1, <2>1, <3>2, <3>3, <3>4 DEF LetGo
  <2>2. CASE c \notin S BY <1>2, <1>3, <2>2
  <2> QED BY <2>1, <2>2
<1>5. ASSUME NEW c \in S, NEW o \in Left(c) PROVE Asks(o, c) /\ cpc'[c] \in LetGo
  <2>1. /\ cpc[c] \in {"starting", "stopping", "grace", "lost"}
        /\ \/ o = StoreCall("start", Result(c, "not_started", "exec"))
           \/ o = StoreCall("settle", Result(c, "cancelled", "exec"))
           \/ o = StoreCall("settle", Result(c, "ran", "exec"))
    BY DEF Left, RanResult
  <2>2. cpc'[c] = Interrupted(cpc[c]) BY <1>1, <1>2
  <2>3. cpc'[c] \in {"stopped", "lost"} BY <2>1, <2>2 DEF Interrupted
  <2> QED BY <2>1, <2>3 DEF Asks, LetGo
<1>6. \A o \in orphans' : o \in orphans \/ \E c \in bundle : Asks(o, c) /\ cpc'[c] \in LetGo
  BY <1>1, <1>2, <1>5
<1> QED BY <1>2, <1>4, <1>6, BatchGoesOn

\* What a coroutine finds, after a call to the store about a call of the batch.
LEMMA StaysFound ==
    ASSUME FInv, pc = "batch", NEW o, NEW c \in bundle, Asks(o, c), Performed(o, c), run' = run
    PROVE  \A d \in bundle : Found(d)' /\ (d \in Answered(log) => d \in Answered(log'))
<1>1. \A d \in bundle : Found(d) /\ d \in Calls BY DEF FInv, Settling, Executing, IInv, Submitted
<1> SUFFICES ASSUME NEW d \in bundle
             PROVE  Found(d)' /\ (d \in Answered(log) => d \in Answered(log'))
  OBVIOUS
<1>2. Found(d)' <=> /\ row'[d] = "absent" => d \notin Answered(log')
                    /\ row'[d] \in Terminal => /\ row'[d] \in {"ran", "cancelled"}
                                               /\ InLog(log', Result(d, row'[d], "exec"))
  BY RunSame DEF Found
<1>3. \A m : InLog(log, m) => InLog(log', m) BY DEF Performed
<1>4. CASE d # c
  <2>1. row'[d] = row[d] /\ Kinds(log', d) = Kinds(log, d) BY <1>1, <1>4 DEF Performed
  <2>2. d \in Answered(log') <=> d \in Answered(log) BY <1>1, <2>1 DEF Answered
  <2> QED BY <1>1, <1>2, <1>3, <2>1, <2>2 DEF Found
<1>5. CASE d = c
  <2>1. d \in Answered(log) => d \in Answered(log') BY <1>5 DEF Performed
  <2>2. CASE ~Accepted(o)
    <3>1. log' = log /\ row' = row BY <2>2 DEF Performed
    <3> QED BY <1>1, <1>2, <3>1 DEF Found
  <2>3. CASE Accepted(o) /\ o = StoreCall("start", Result(c, "not_started", "exec"))
    <3>1. row'[c] = "running" BY <2>3 DEF Performed, StoreCall
    <3> QED BY <1>2, <1>5, <2>1, <3>1 DEF Terminal
  <2>4. ASSUME NEW k \in {"ran", "cancelled"}, Accepted(o), o = StoreCall("settle", Result(c, k, "exec"))
        PROVE Found(d)'
    <3>1. o.op = "settle" /\ o.msg = Result(c, k, "exec") /\ o.msg.kind = k BY <2>4 DEF StoreCall, Result, Message
    <3>2. row'[c] = k /\ InLog(log', Result(c, k, "exec")) BY <2>4, <3>1 DEF Performed
    <3> QED BY <1>2, <1>5, <3>2 DEF Terminal
  <2> QED BY <2>1, <2>2, <2>3, <2>4 DEF Asks
<1> QED BY <1>4, <1>5

\* The coroutine of a call writes to the store, whatever else is on its way there.
LEMMA BatchWrites ==
    ASSUME FInv, pc = "batch", pc' = "batch", NEW c \in bundle, NEW o, Asks(o, c), Await(o),
           UNCHANGED <<todo, run>>, NEW p, p # "new", MoveTo(c, p),
           p = "recorded" => o.op = "settle" /\ Accepted(o), cpc[c] \in LetGo => p \in LetGo
    PROVE  Settling'
<1>1. Places /\ Executing /\ Orderly(log) /\ Story /\ Queued /\ StoreOK BY DEF FInv, Settling, IInv
<1>2. orphans' = orphans /\ Perform(o) BY DEF Await, threads
<1>3. todo = {} /\ todo' = {} BY <1>1, Empty
<1>4. bundle = Current(log) /\ Found(c) BY <1>1 DEF Executing
<1>5. AptFor(o, c) /\ o.op \in {"start", "settle", "append"} BY <1>4, AsksApt
<1>6. Orderly(log') /\ Story' /\ Performed(o, c) BY <1>1, <1>2, <1>4, <1>5, Performs
<1>7. /\ c \in Calls /\ bundle' = bundle /\ cpc'[c] = p
      /\ \A d \in Calls \ {c} : cpc'[d] = cpc[d]
      /\ \A d \in Calls : cpc'[d] # "new" => d \in bundle
  BY CallMoved
<1>8. \A d \in bundle : Found(d)' /\ (d \in Answered(log) => d \in Answered(log')) BY <1>6, StaysFound
<1>9. p = "recorded" => c \in Answered(log') BY <1>6 DEF Performed
<1>10. \A d \in bundle : cpc'[d] = "recorded" => d \in Answered(log')
  <2> SUFFICES ASSUME NEW d \in bundle, cpc'[d] = "recorded" PROVE d \in Answered(log') OBVIOUS
  <2>1. CASE d = c BY <1>7, <1>9, <2>1
  <2>2. CASE d # c
    <3>1. d \in Calls BY DEF FInv, IInv, Submitted
    <3>2. cpc[d] = "recorded" BY <1>7, <2>2, <3>1
    <3>3. d \in Answered(log) BY <1>1, <3>2 DEF Executing
    <3> QED BY <1>8, <3>3
  <2> QED BY <2>1, <2>2
<1>11. Current(log') = Current(log) BY <1>6 DEF Performed
<1>12. Executing'
  <2>1. \A q \in orphans' : \E d \in bundle' : Asks(q, d)' /\ cpc'[d] \in LetGo
    <3> SUFFICES ASSUME NEW q \in orphans PROVE \E d \in bundle : Asks(q, d) /\ cpc'[d] \in LetGo
      BY <1>2, <1>7, RunSame
    <3>1. PICK d \in bundle : Asks(q, d) /\ cpc[d] \in LetGo BY <1>1 DEF Executing
    <3>2. d \in Calls BY DEF FInv, IInv, Submitted
    <3> QED BY <1>7, <3>1, <3>2
  <2> QED BY <1>4, <1>7, <1>8, <1>10, <1>11, <2>1 DEF Executing
<1>13. Queued'
  <2>1. ASSUME NEW q \in orphans PROVE Apt(q)'
    <3>1. PICK d \in bundle : Asks(q, d) BY <1>1 DEF Executing
    <3>2. Found(d) /\ d \in Current(log) BY <1>1, <1>4 DEF Executing
    <3>3. AptFor(q, d) /\ q.op \in {"start", "settle", "append"} BY <3>1, <3>2, AsksApt
    <3>4. Compatible(o, q) BY <3>1, AsksCompatible
    <3>5. AptFor(q, d)' BY <1>1, <1>4, <1>5, <1>6, <3>2, <3>3, <3>4, StaysApt
    <3> QED BY <1>11, <3>2, <3>3, <3>5 DEF Apt
  <2>2. \A q, v \in orphans : q # v => Compatible(q, v)' BY <1>1 DEF Queued, Compatible
  <2> QED BY <1>2, <1>3, <2>1, <2>2 DEF Queued
<1>14. Places' BY <1>3 DEF Places
<1>15. Repairing' /\ Closing' BY DEF Repairing, Closing
<1> QED BY <1>6, <1>12, <1>13, <1>14, <1>15 DEF Settling

LEMMA WritingCallsSettle ==
    ASSUME FInv, NEW c \in Calls, StartCall(c) \/ RecordResult(c) \/ Unwind(c)
    PROVE  Settling'
<1>1. pc = "batch" /\ c \in bundle
  <2>1. cpc[c] \in ActiveAt BY DEF StartCall, RecordResult, Unwind, ActiveAt
  <2> QED BY <2>1, InBatch
<1>2. pc' = pc /\ UNCHANGED <<todo, run>> BY DEF StartCall, RecordResult, Unwind, callUnchanged, bounds
<1>3. CASE StartCall(c)
  <2> DEFINE o == StoreCall("start", Result(c, "not_started", "exec"))
  <2>1. Await(o) /\ cpc[c] \notin LetGo /\ \E p \in {"started", "failed"} : MoveTo(c, p) BY <1>3 DEF StartCall, LetGo
  <2>2. Asks(o, c) BY DEF Asks
  <2> HIDE DEF o
  <2> QED BY <1>1, <1>2, <2>1, <2>2, BatchWrites
<1>4. CASE RecordResult(c)
  <2> DEFINE o == StoreCall("settle", Result(c, "ran", "exec"))
  <2>1. /\ Await(o) /\ cpc[c] \notin LetGo
        /\ \/ \E p \in {"failed", "lost"} : MoveTo(c, p)
           \/ Accepted(o) /\ MoveTo(c, "recorded")
    BY <1>4 DEF RecordResult, RanResult, LetGo
  <2>2. Asks(o, c) /\ o.op = "settle" BY DEF Asks, StoreCall
  <2> HIDE DEF o
  <2> QED BY <1>1, <1>2, <2>1, <2>2, BatchWrites
<1>5. CASE Unwind(c)
  <2>1. PICK k \in {"ran", "cancelled"} : Await(StoreCall("settle", Result(c, k, "exec")))
    BY <1>5 DEF Unwind, RanResult
  <2>2. \E p \in LetGo \ {"lost"} : MoveTo(c, p) BY <1>5 DEF Unwind, LetGo
  <2>3. Asks(StoreCall("settle", Result(c, k, "exec")), c) BY DEF Asks
  <2> QED BY <1>1, <1>2, <2>1, <2>2, <2>3, BatchWrites DEF LetGo
<1> QED BY <1>3, <1>4, <1>5

-----------------------------------------------------------------------------
(* Cancellation and late threads                                            *)

LEMMA TaskCancelSettles ==
    ASSUME FInv, TaskCancel
    PROVE  Settling'
<1>1. Places /\ Orderly(log) /\ Story /\ Queued /\ run' = run BY DEF FInv, Settling, TaskCancel
<1>2. CASE pc = "batch" /\ pc' = "batch" /\ Deliver(Active) /\ UNCHANGED todo
  BY <1>1, <1>2, DeliverSettles
<1>3. CASE /\ pc \in {"read", "rows", "user", "model", "record", "unstarted"} /\ pc' = "read"
           /\ NoBatch /\ todo' = {} /\ UNCHANGED store
           /\ orphans' = orphans \cup (CASE pc = "user" -> {StoreCall("append", UserMessage)}
                                         [] pc = "record" -> {StoreCall("append", draft)}
                                         [] OTHER -> {})
  <2>1. Places' BY <1>3 DEF Places, NoBatch
  <2>2. Orderly(log') /\ Story' /\ Queued'
    <3>1. CASE pc \notin {"user", "record"}
      <4>1. orphans' = orphans BY <1>3, <3>1
      <4> QED BY <1>1, <1>3, <4>1, Frame
    <3>2. ASSUME NEW m \in {UserMessage, draft}, Fits(m), orphans = {}, orphans' = {StoreCall("append", m)}
          PROVE  Orderly(log') /\ Story' /\ Queued'
      <4>1. log' = log /\ row' = row BY <1>3 DEF store
      <4>2. StoreCall("append", m).op = "append" /\ StoreCall("append", m).msg = m BY DEF StoreCall
      <4>3. \A o \in orphans' \cup todo' : o.op = "append" /\ o.msg = m BY <1>3, <3>2, <4>2
      <4>4. Queued' BY <1>3, <3>2, <4>1, <4>3 DEF Queued, Apt, Fits
      <4> QED BY <1>1, <4>1, <4>4 DEF Story
    <3>3. CASE pc = "user"
      <4>1. Unanswered(log) = {} /\ orphans = {} BY <1>1, <3>3 DEF Places
      <4>2. Fits(UserMessage) BY <4>1 DEF Fits, UserMessage, Message
      <4> QED BY <1>3, <3>2, <3>3, <4>1, <4>2
    <3>4. CASE pc = "record"
      <4>1. Fits(draft) /\ orphans = {} BY <1>1, <3>4 DEF Places
      <4> QED BY <1>3, <3>2, <3>4, <4>1
    <3> QED BY <3>1, <3>3, <3>4
  <2> QED BY <1>3, <2>1, <2>2, Settled
<1>4. CASE /\ pc \in {"repair", "close"} /\ pc' = "read" /\ UNCHANGED <<store, batch>> /\ todo' = {}
           /\ \E o \in todo : orphans' = orphans \cup {o}
  <2>1. Orderly(log') /\ Story' /\ Queued' BY <1>1, <1>4, Frame
  <2>2. Places' BY <1>1, <1>4 DEF Places, batch
  <2> QED BY <1>4, <2>1, <2>2, Settled
<1> QED BY <1>2, <1>3, <1>4 DEF TaskCancel, Abandon, Finalize

LEMMA LateStoreSettles ==
    ASSUME FInv, NEW o \in orphans, LateStore(o)
    PROVE  Settling'
<1>1. Places /\ Executing /\ Orderly(log) /\ Closing BY DEF FInv, Settling
<1>2. /\ Perform(o) /\ orphans' = orphans \ {o}
      /\ UNCHANGED <<pc, stage, seen, todo, draft, bundle, cpc, run>>
  BY DEF LateStore, batch, bounds
<1>3. pc \in {"batch", "unstarted", "close", "read"} /\ o \notin todo BY <1>1, Apart DEF Places
<1>4. orphans' \cup todo' \subseteq (orphans \cup todo) \ {o} BY <1>2, <1>3
<1>5. /\ Orderly(log') /\ Story' /\ Queued'
      /\ o.msg.role = "tool" => \E c \in Current(log) : AptFor(o, c) /\ Performed(o, c)
  BY <1>2, <1>4, OneDone DEF Fits
<1>6. Places' BY <1>1, <1>2, <1>3 DEF Places
<1>7. CASE pc = "read" BY <1>2, <1>5, <1>6, <1>7, Settled
<1>8. CASE pc = "close"
  <2>1. Closing' BY <1>1, <1>2, RunSame DEF Closing
  <2>2. Repairing' /\ Executing' BY <1>2, <1>8 DEF Repairing, Executing
  <2> QED BY <1>5, <1>6, <2>1, <2>2 DEF Settling
<1>9. CASE pc \in {"batch", "unstarted"}
  <2>1. PICK c \in bundle : Asks(o, c) BY <1>1, <1>9 DEF Executing
  <2>2. o.msg.role = "tool" /\ o.msg.calls = {c} BY <2>1, AsksApt
  <2>3. Performed(o, c)
    <3>1. PICK d \in Current(log) : AptFor(o, d) /\ Performed(o, d) BY <1>5, <2>2
    <3>2. c = d BY <2>2, <3>1 DEF AptFor
    <3> QED BY <3>1, <3>2
  <2>4. bundle' = Current(log') BY <1>1, <1>2, <1>9, <2>3 DEF Executing, Performed
  <2>5. \A p \in orphans' : \E d \in bundle' : Asks(p, d)' /\ cpc'[d] \in LetGo
    BY <1>1, <1>2, <1>9, RunSame DEF Executing
  <2>6. pc = "batch" => \A d \in bundle' : Found(d)' /\ (cpc'[d] = "recorded" => d \in Answered(log'))
    BY <1>1, <1>2, <2>1, <2>3, StaysFound DEF Executing
  <2>7. Executing' BY <1>1, <1>2, <2>4, <2>5, <2>6 DEF Executing
  <2>8. Repairing' /\ Closing' BY <1>2, <1>9 DEF Repairing, Closing
  <2> QED BY <1>5, <1>6, <2>7, <2>8 DEF Settling
<1> QED BY <1>3, <1>7, <1>8, <1>9

\* One that a repair did not wait for leaves the store as it is, or there is a race.
LEMMA LateStepsSettle ==
    ASSUME FInv, ~raced', NEW o \in orphans \cup passed, LateStore(o) \/ Withdraw(o)
    PROVE  Settling'
<1>1. CASE o \in orphans /\ LateStore(o) BY <1>1, LateStoreSettles
<1>2. CASE (o \in passed /\ LateStore(o)) \/ Withdraw(o)
  <2>1. UNCHANGED <<store, todo, pc, stage, seen, draft, bundle, cpc, run>> /\ orphans' \subseteq orphans
    BY <1>2 DEF LateStore, Withdraw, store, batch, bounds
  <2> QED BY <2>1, Still DEF FInv
<1> QED BY <1>1, <1>2

-----------------------------------------------------------------------------
LEMMA InitFInv == Init => FInv
<1> SUFFICES ASSUME Init PROVE FInv OBVIOUS
<1>1. IInv BY InitInv
<1>2. log = <<>> /\ orphans = {} /\ todo = {} /\ pc = "rest" /\ bundle = {} /\ cpc = [c \in Calls |-> "new"]
      /\ row = [c \in Calls |-> "absent"]
  BY DEF Init
<1>3. DOMAIN log = {} /\ log \in Seq({}) /\ Len(log) = 0 BY <1>2
<1>4. LastTurn(log) = 0 BY <1>3 DEF LastTurn
<1>5. Unanswered(log) = {} BY <1>4 DEF Unanswered
<1>6. \A c \in Calls : Kinds(log, c) = {} BY <1>3 DEF Kinds
<1>7. Orderly(log)
  <2>1. Messages(log) BY <1>3 DEF Messages
  <2>2. IsTurn(log, 0) BY <1>3 DEF IsTurn
  <2>3. ResultsFollow(log) /\ ResultsOnce(log) /\ BundlesApart(log) /\ BundlesDone(log)
    BY <1>3 DEF ResultsFollow, ResultsOnce, BundlesApart, BundlesDone
  <2> QED BY <1>3, <2>1, <2>2, <2>3 DEF Orderly
<1>8. Story BY <1>2, <1>6 DEF Story, Terminal
<1>9. Queued /\ Places BY <1>2, <1>5 DEF Queued, Places
<1>10. Repairing /\ Closing /\ Executing BY <1>2 DEF Repairing, Closing, Executing
<1> QED BY <1>1, <1>7, <1>8, <1>9, <1>10 DEF FInv, Settling

LEMMA StepFInv == FInv /\ [Next]_vars /\ ~raced' => FInv'
<1> SUFFICES ASSUME FInv, [Next]_vars, ~raced' PROVE FInv' OBVIOUS
<1>1. IInv' BY StepInv DEF FInv
<1>2. Settling'
  <2>1. CASE UNCHANGED vars \/ CancelEvent
    <3>1. UNCHANGED <<store, orphans, todo, pc, stage, seen, draft, bundle, cpc, run>>
      BY <2>1 DEF vars, store, CancelEvent, batch, threads
    <3> QED BY <3>1, Still DEF FInv
  <2>2. CASE StartRun BY <2>2, StartRunSettles
  <2>3. CASE RunStep
    <3>1. CASE ReadMessages \/ ReadRows
      BY <3>1, LedgerAssumption, ReadMessagesSettles, ReadRowsSettles
    <3>2. CASE ModelStops \/ ModelAnswers \/ Repaired \/ Closed \/ \E B \in (SUBSET Calls) \ {{}} : ModelAsks(B)
      BY <3>2, PassingSettles
    <3>3. CASE AppendUser \/ PublishResult BY <3>3, AppendsSettle
    <3>4. CASE \E o \in todo : Repair(o) \/ CloseCall(o) BY <3>4, RepairSettles, CloseCallSettles
    <3>5. CASE RecordAssistant BY <3>5, RecordAssistantSettles
    <3>6. CASE DrainReads
      <4>1. /\ pc = "batch" /\ pc' = "batch" /\ Deliver(Active \cap Reads) /\ UNCHANGED <<todo, run>>
        BY <3>6 DEF DrainReads, callUnchanged, bounds
      <4> QED BY <4>1, DeliverSettles
    <3>7. CASE BatchDone \/ BatchStopped BY <3>7, BatchDoneSettles, BatchStoppedSettles
    <3>8. CASE FindUnstarted BY <3>8, FindUnstartedSettles
    <3> QED BY <2>3, <3>1, <3>2, <3>3, <3>4, <3>5, <3>6, <3>7, <3>8 DEF RunStep
  <2>4. ASSUME NEW c \in Calls, CallStep(c) PROVE Settling'
    BY <2>4, QuietCallsSettle, GraceExpiresSettles, WritingCallsSettle DEF CallStep
  <2>5. ASSUME NEW o \in orphans \cup passed, LateStore(o) \/ Withdraw(o) PROVE Settling' BY <2>5, LateStepsSettle
  <2>6. CASE TaskCancel \/ Crash BY <2>6, TaskCancelSettles, CrashSettles
  <2> QED BY <2>1, <2>2, <2>3, <2>4, <2>5, <2>6 DEF Next, Idle
<1> QED BY <1>1, <1>2 DEF FInv

\* A race is not undone.
LEMMA Races == [Next]_vars => (raced => raced')
<1> SUFFICES ASSUME [Next]_vars PROVE raced => raced' OBVIOUS
<1>1. CASE UNCHANGED vars BY <1>1 DEF vars
<1>2. CASE StartRun \/ CancelEvent \/ Crash BY <1>2 DEF StartRun, CancelEvent, Crash, threads
<1>3. CASE RunStep
  BY <1>3 DEF RunStep, ReadMessages, ReadRows, Repaired, AppendUser, Repair, CloseCall, ModelAsks, ModelAnswers,
              ModelStops, RecordAssistant, PublishResult, DrainReads, Deliver, Abandon, BatchDone, BatchStopped,
              FindUnstarted, Closed, Await, threads
<1>4. ASSUME NEW c \in Calls, CallStep(c) PROVE raced => raced'
  BY <1>4 DEF CallStep, Begin, Refuse, StartCall, EnterTool, ToolReturns, HostFails, StopOnEvent, RecordResult,
              GraceExpires, Unwind, Abandon, Await, threads
<1>5. CASE TaskCancel BY <1>5 DEF TaskCancel, Deliver, Abandon
<1>6. ASSUME NEW o \in orphans \cup passed, LateStore(o) \/ Withdraw(o) PROVE raced => raced'
  BY <1>6 DEF LateStore, Withdraw
<1> QED BY <1>1, <1>2, <1>3, <1>4, <1>5, <1>6 DEF Next, Idle

LEMMA Settles == Spec => [](raced \/ FInv)
<1>1. Init => raced \/ FInv BY InitFInv
<1>2. (raced \/ FInv) /\ [Next]_vars => (raced \/ FInv)' BY StepFInv, Races
<1> QED BY <1>1, <1>2, PTL DEF Spec

\* _abandoned_tool_call_results never raises: wherever a run is interrupted, the durable
\* transcript can be repaired, unless a store call has changed it behind a repair.
THEOREM AlwaysRepairable == Spec => []TranscriptRepairable
<1>1. raced \/ FInv => TranscriptRepairable
  BY LedgerAssumption, OrderlyIsRepairable DEF FInv, Settling, TranscriptRepairable
<1> QED BY <1>1, Settles, PTL

\* finalize leaves a transcript that needs no repair and no row that is still running,
\* whatever has been abandoned to the store's threads.
THEOREM RestsSettled == Spec => []SettledAtRest
<1>1. raced \/ FInv => SettledAtRest
  <2> SUFFICES ASSUME FInv, pc = "rest", stage = "final"
               PROVE  ValidOrder(log) /\ \A c \in Calls : row[c] # "running"
    BY DEF SettledAtRest
  <2>1. Orderly(log) /\ Story /\ Unanswered(log) = {} BY DEF FInv, Settling, Places
  <2>2. ValidOrder(log) BY <2>1, LedgerAssumption, CompleteIsValid
  <2> QED BY <2>1, <2>2 DEF Story
<1> QED BY <1>1, Settles, PTL

\* The row and the messages of a call agree at every moment, whichever finalizer wrote them.
THEOREM RowsAgree == Spec => []RowMatchesResult
<1>1. raced \/ FInv => RowMatchesResult
  <2> SUFFICES ASSUME FInv, NEW c \in Calls
               PROVE  \/ row[c] \in Terminal /\ Kinds(log, c) = {row[c]}
                      \/ row[c] = "running" /\ Kinds(log, c) = {}
                      \/ row[c] = "absent" /\ Kinds(log, c) \subseteq {"not_started"}
    BY DEF RowMatchesResult, ResultOf, Kinds
  <2>1. row[c] \in Rows /\ Story /\ Orderly(log) BY DEF FInv, IInv, StoreOK, Settling
  <2>2. c \in Unanswered(log) => Kinds(log, c) = {} BY <2>1, UnansweredIs DEF Answered
  <2> QED BY <2>1, <2>2 DEF Rows, Story
<1> QED BY <1>1, Settles, PTL

-----------------------------------------------------------------------------
(* What is said of a call is true                                           *)

\* A result to be stored about a call says what is true of it.
Honest(o) == o.op # "start" /\ o.msg.role = "tool" =>
                \A c \in Calls : o.msg.calls = {c} => Abstract!Truthful(c, o.msg.kind)

\* What the place of a call in its coroutine says of its execution and of its row.
EnteredAt(c) ==
    /\ cpc[c] \in {"new", "starting", "started"} => c \notin executed /\ c \notin Answered(log)
    /\ cpc[c] \in {"running", "returned", "grace", "lost"} => c \in executed
    /\ cpc[c] \in {"recorded", "stopped", "failed"} /\ c \in executed =>
          \/ row[c] \in Terminal \/ c \in forgotten \/ why = "error"
          \/ \E o \in orphans : o.op = "settle" /\ o.msg.calls = {c}
Entered == \A c \in bundle : EnteredAt(c)

Truth ==
    /\ \A o \in orphans \cup todo : Honest(o)
    /\ pc \in {"batch", "unstarted"} => Entered
    /\ pc = "close" => \A o \in todo : \A c \in executed \ forgotten : o.msg.calls # {c}
    /\ why = "error" => pc = "batch" /\ halt \notin {"no", "cancelled"}

TInv == FInv /\ Truth

-----------------------------------------------------------------------------
LEMMA EntriesAre ==
    ASSUME IInv, NEW c \in Calls
    PROVE  entries[c] \in Nat /\ (c \in executed <=> entries[c] > 0) /\ (c \notin executed <=> entries[c] = 0)
<1>1. entries[c] \in Nat BY DEF IInv, Intent
<1>2. c \in executed <=> entries[c] > 0 BY DEF executed
<1> QED BY <1>1, <1>2

LEMMA HonestIs ==
    ASSUME IInv, NEW o, NEW c \in Calls, o.msg.calls = {c}, o.msg.kind = "ran" => c \in executed,
           o.op # "start" /\ o.msg.kind = "not_started" => c \notin executed \ forgotten
    PROVE  Honest(o)
<1>1. \A d \in Calls : o.msg.calls = {d} => d = c OBVIOUS
<1>2. o.op # "start" => Abstract!Truthful(c, o.msg.kind) BY EntriesAre DEF Abstract!Truthful
<1> QED BY <1>1, <1>2 DEF Honest

LEMMA HonestKept ==
    ASSUME entries' = entries, forgotten \subseteq forgotten'
    PROVE  /\ executed' = executed
           /\ \A o : Honest(o) => Honest(o)'
BY DEF executed, Honest, Abstract!Truthful

\* Away from the batch, calls that are on their way stay true.
LEMMA TruthAway ==
    ASSUME Truth, entries' = entries, forgotten \subseteq forgotten', pc' \notin {"batch", "unstarted", "close"},
           NoBatch \/ (why' = why /\ pc # "batch"),
           \A o \in orphans' \cup todo' : o \in orphans \cup todo \/ Honest(o)
    PROVE  Truth'
<1>1. why' # "error" BY DEF NoBatch, Truth
<1> QED BY <1>1, HonestKept DEF Truth

LEMMA TruthStill ==
    ASSUME Truth, UNCHANGED <<store, entries, forgotten, todo, pc, bundle, cpc, halt, why>>, orphans' = orphans
    PROVE  Truth'
<1>1. log' = log /\ row' = row /\ executed' = executed BY HonestKept DEF store
<1>2. Entered => Entered' BY <1>1 DEF Entered, EnteredAt
<1> QED BY <1>1, <1>2, HonestKept DEF Truth

\* A batch goes on in which one call has moved, with its row, its result or what it asked for.
LEMMA OthersStay ==
    ASSUME FInv, Entered, NEW c \in bundle, bundle' = bundle,
           \A d \in Calls \ {c} : /\ cpc'[d] = cpc[d] /\ row'[d] = row[d] /\ Kinds(log', d) = Kinds(log, d)
                                  /\ d \in executed' <=> d \in executed,
           \A o : o.msg.calls # {c} => (o \in orphans' <=> o \in orphans),
           forgotten \subseteq forgotten', why = "error" => why' = "error",
           EnteredAt(c)'
    PROVE  Entered'
<1> SUFFICES ASSUME NEW d \in bundle PROVE EnteredAt(d)' BY DEF Entered
<1>1. CASE d = c BY <1>1
<1>2. CASE d # c
  <2>1. d \in Calls /\ EnteredAt(d) BY DEF FInv, IInv, Submitted, Entered
  <2>2. /\ cpc'[d] = cpc[d] /\ row'[d] = row[d] /\ Kinds(log', d) = Kinds(log, d)
        /\ d \in executed' <=> d \in executed
    BY <1>2, <2>1
  <2>3. d \in Answered(log') <=> d \in Answered(log) BY <2>1, <2>2 DEF Answered
  <2>4. \A o : o.msg.calls = {d} => (o \in orphans' <=> o \in orphans) BY <1>2
  <2> QED BY <2>1, <2>2, <2>3, <2>4 DEF EnteredAt
<1> QED BY <1>1, <1>2

\* What every step of the batch has to show.
LEMMA TruthInBatch ==
    ASSUME FInv, Truth, pc = "batch", pc' = "batch", todo' = todo, entries' = entries, forgotten \subseteq forgotten',
           why' = "error" => halt' \notin {"no", "cancelled"},
           Entered', \A o \in orphans' : o \in orphans \/ Honest(o)
    PROVE  Truth'
BY HonestKept DEF Truth

\* An error is the end of its batch.
LEMMA ErrorStays ==
    ASSUME Truth, UNCHANGED <<halt, why>> \/ \E reason : Fail(reason)
    PROVE  /\ why = "error" => why' = "error"
           /\ why' = "error" => halt' \notin {"no", "cancelled"}
<1>1. CASE UNCHANGED <<halt, why>> BY <1>1 DEF Truth
<1>2. ASSUME NEW reason, Fail(reason) PROVE /\ why = "error" => why' = "error"
                                            /\ why' = "error" => halt' \notin {"no", "cancelled"}
  <2>1. CASE halt \in {"no", "cancelled"}
    <3>1. why # "error" BY <2>1 DEF Truth
    <3>2. halt' = "fatal" BY <1>2, <2>1 DEF Fail
    <3> QED BY <3>1, <3>2
  <2>2. CASE halt \notin {"no", "cancelled"} BY <1>2, <2>2 DEF Fail
  <2> QED BY <2>1, <2>2
<1> QED BY <1>1, <1>2

LEMMA RowOf ==
    ASSUME IInv, NEW c \in Calls
    PROVE  row[c] \in {"absent", "running"} \cup Terminal /\ (c \in executed => row[c] # "absent")
BY DEF IInv, StoreOK, Intent, Rows

LEMMA QuietCallsTrue ==
    ASSUME TInv, NEW c \in Calls,
           Begin(c) \/ ToolReturns(c) \/ HostFails(c) \/ StopOnEvent(c) \/ Refuse(c) \/ GraceExpires(c)
    PROVE  Truth'
<1>1. pc = "batch" /\ c \in bundle /\ cpc[c] # "recorded"
  <2>1. cpc[c] \in ActiveAt \/ Eligible(c)
    BY DEF Begin, ToolReturns, HostFails, StopOnEvent, Refuse, GraceExpires, ActiveAt
  <2> QED BY <2>1, InBatch DEF TInv
<1>2. Entered /\ EnteredAt(c) /\ FInv /\ Truth /\ IInv BY <1>1 DEF TInv, FInv, Truth, Entered
<1>3. UNCHANGED <<store, entries, pc, todo>> /\ forgotten \subseteq forgotten'
  BY DEF Begin, ToolReturns, HostFails, StopOnEvent, Refuse, GraceExpires, Abandon, callUnchanged, world
<1>4. log' = log /\ row' = row /\ executed' = executed BY <1>3, HonestKept DEF store
<1>5. UNCHANGED <<halt, why>> \/ \E reason : Fail(reason)
  BY DEF Begin, ToolReturns, HostFails, StopOnEvent, Refuse, GraceExpires
<1>6. /\ why = "error" => why' = "error"
      /\ why' = "error" => halt' \notin {"no", "cancelled"}
  BY <1>2, <1>5, ErrorStays
<1>7. CASE Refuse(c)
  <2>1. UNCHANGED <<orphans, bundle, cpc>> BY <1>7 DEF Refuse, threads
  <2>2. Entered' BY <1>2, <1>3, <1>4, <1>6, <2>1 DEF Entered, EnteredAt
  <2> QED BY <1>1, <1>2, <1>3, <1>6, <2>1, <2>2, TruthInBatch
<1>8. CASE GraceExpires(c)
  <2> DEFINE o == StoreCall("settle", Result(c, "ran", "exec"))
  <2>1. orphans' = orphans \cup {o} /\ MoveTo(c, "lost") /\ cpc[c] \in {"returned", "grace"}
    BY <1>8 DEF GraceExpires, Abandon, RanResult
  <2>2. o.op = "settle" /\ o.msg.calls = {c} /\ o.msg.kind = "ran" BY DEF StoreCall, Result, Message
  <2> HIDE DEF o
  <2>3. bundle' = bundle /\ cpc'[c] = "lost" /\ \A d \in Calls \ {c} : cpc'[d] = cpc[d]
    BY <1>1, <1>2, <2>1, CallMoved
  <2>4. c \in executed BY <1>2, <2>1 DEF EnteredAt
  <2>5. EnteredAt(c)' BY <1>4, <2>3, <2>4 DEF EnteredAt
  <2>6. Entered' BY <1>1, <1>2, <1>3, <1>4, <1>6, <2>1, <2>2, <2>3, <2>5, OthersStay
  <2>7. Honest(o) BY <1>2, <2>2, <2>4, HonestIs
  <2> QED BY <1>1, <1>2, <1>3, <1>6, <2>1, <2>6, <2>7, TruthInBatch
<1>9. CASE Begin(c) \/ ToolReturns(c) \/ StopOnEvent(c) \/ HostFails(c)
  <2>1. /\ orphans' = orphans
        /\ \/ cpc[c] = "new" /\ MoveTo(c, "starting")
           \/ cpc[c] = "running" /\ MoveTo(c, "returned")
           \/ cpc[c] \in {"started", "running"} /\ MoveTo(c, "stopping")
           \/ /\ cpc[c] \in {"started", "running"} /\ MoveTo(c, "failed")
              /\ cpc[c] = "running" => why' = "error" \/ c \in forgotten'
    BY <1>9 DEF Begin, Eligible, ToolReturns, StopOnEvent, HostFails, threads
  <2>2. PICK p \in {"starting", "returned", "stopping", "failed"} :
          /\ MoveTo(c, p)
          /\ \/ cpc[c] = "new" /\ p = "starting"
             \/ cpc[c] = "running" /\ p = "returned"
             \/ cpc[c] \in {"started", "running"} /\ p = "stopping"
             \/ /\ cpc[c] \in {"started", "running"} /\ p = "failed"
                /\ cpc[c] = "running" => why' = "error" \/ c \in forgotten'
    BY <2>1
  <2>3. bundle' = bundle /\ cpc'[c] = p /\ \A d \in Calls \ {c} : cpc'[d] = cpc[d]
    BY <1>1, <1>2, <2>2, CallMoved
  <2>4. EnteredAt(c)' BY <1>2, <1>4, <2>2, <2>3 DEF EnteredAt
  <2>5. Entered' BY <1>1, <1>2, <1>3, <1>4, <1>6, <2>1, <2>3, <2>4, OthersStay
  <2> QED BY <1>1, <1>2, <1>3, <1>6, <2>1, <2>5, TruthInBatch
<1> QED BY <1>7, <1>8, <1>9

\* A tool is entered once: its call has neither been executed nor answered before.
LEMMA EnterToolTrue ==
    ASSUME TInv, NEW c \in Calls, EnterTool(c)
    PROVE  Truth' /\ entries[c] = 0 /\ c \in Unanswered(log)
<1>1. pc = "batch" /\ c \in bundle /\ cpc[c] = "started"
  <2>1. cpc[c] = "started" BY DEF EnterTool
  <2> QED BY <2>1, InBatch DEF TInv, ActiveAt
<1>2. Entered /\ EnteredAt(c) /\ FInv /\ Truth /\ IInv BY <1>1 DEF TInv, FInv, Truth, Entered
<1>3. /\ UNCHANGED <<store, forgotten, orphans, pc, todo, halt, why>> /\ MoveTo(c, "running")
      /\ entries' = [entries EXCEPT ![c] = @ + 1]
  BY DEF EnterTool, callUnchanged, threads
<1>4. log' = log /\ row' = row BY <1>3 DEF store
<1>5. bundle' = bundle /\ cpc'[c] = "running" /\ \A d \in Calls \ {c} : cpc'[d] = cpc[d]
  BY <1>1, <1>2, <1>3, CallMoved
<1>6. c \notin executed /\ c \notin Answered(log) BY <1>1, <1>2 DEF EnteredAt
<1>7. entries[c] = 0 BY <1>2, <1>6, EntriesAre
<1>8. c \in Unanswered(log)
  <2>1. bundle = Current(log) /\ Orderly(log) BY <1>1, <1>2 DEF FInv, Settling, Executing
  <2> QED BY <1>1, <1>6, <2>1, UnansweredIs
<1>9. \A d \in Calls : entries'[d] = IF d = c THEN 1 ELSE entries[d]
  BY <1>2, <1>3, <1>7 DEF IInv, Intent
<1>10. c \in executed' /\ \A d \in Calls \ {c} : d \in executed' <=> d \in executed
  BY <1>9 DEF executed
<1>11. EnteredAt(c)' BY <1>5, <1>10 DEF EnteredAt
<1>12. Entered' BY <1>1, <1>2, <1>3, <1>4, <1>5, <1>10, <1>11, OthersStay
<1>13. ASSUME NEW o \in orphans' PROVE Honest(o)'
  <2>1. Honest(o) BY <1>2, <1>3 DEF Truth
  <2>2. PICK d \in bundle : Asks(o, d) BY <1>1, <1>2, <1>3 DEF FInv, Settling, Executing
  <2>3. o.op = "start" \/ o.msg.kind \in {"ran", "cancelled"} BY <2>2 DEF Asks, StoreCall, Result, Message
  <2>4. \A e \in Calls : entries[e] > 0 => entries'[e] > 0 BY <1>9
  <2> QED BY <2>1, <2>3, <2>4 DEF Honest, Abstract!Truthful
<1>14. todo' = {} BY <1>1, <1>2, <1>3, Empty DEF FInv, Settling
<1>15. Truth' BY <1>1, <1>2, <1>3, <1>12, <1>13, <1>14 DEF Truth
<1> QED BY <1>7, <1>8, <1>15

\* A coroutine that writes to the store: what the row of its call says afterwards.
LEMMA WritingCallsTrue ==
    ASSUME TInv, NEW c \in Calls, StartCall(c) \/ RecordResult(c) \/ Unwind(c)
    PROVE  Truth' /\ \E o : Perform(o) /\ Honest(o) /\ \E d \in Current(log) : AptFor(o, d) /\ o.op \in {"start", "settle"}
<1>1. pc = "batch" /\ c \in bundle
  <2>1. cpc[c] \in ActiveAt BY DEF StartCall, RecordResult, Unwind, ActiveAt
  <2> QED BY <2>1, InBatch DEF TInv
<1>2. Entered /\ EnteredAt(c) /\ FInv /\ Truth /\ IInv BY <1>1 DEF TInv, Truth, Entered, FInv
<1>3. pc' = pc /\ UNCHANGED <<entries, forgotten, todo>> /\ executed' = executed
  BY HonestKept DEF StartCall, RecordResult, Unwind, callUnchanged, world
<1>4. PICK o, p :
        /\ Await(o) /\ MoveTo(c, p) /\ Asks(o, c)
        /\ \/ /\ cpc[c] = "starting" /\ o.op = "start"
              /\ (p = "started" /\ Accepted(o)) \/ p = "failed"
           \/ /\ cpc[c] \in {"returned", "grace", "lost", "stopping"} /\ o.op = "settle"
              /\ o.msg.kind = "ran" => c \in executed
              /\ \/ p \in {"recorded", "stopped"} /\ (Accepted(o) \/ row[c] \in Terminal)
                 \/ p = "failed" /\ ~Accepted(o)
                 \/ p = "lost" /\ c \in executed
  <2>1. CASE StartCall(c)
    <3> DEFINE o == StoreCall("start", Result(c, "not_started", "exec"))
    <3>1. o.op = "start" /\ Asks(o, c) BY DEF StoreCall, Asks
    <3>2. Await(o) /\ cpc[c] = "starting" /\ ((MoveTo(c, "started") /\ Accepted(o)) \/ MoveTo(c, "failed"))
      BY <2>1 DEF StartCall
    <3> HIDE DEF o
    <3> QED BY <3>1, <3>2
  <2>2. CASE RecordResult(c)
    <3> DEFINE o == StoreCall("settle", Result(c, "ran", "exec"))
    <3>1. o.op = "settle" /\ Asks(o, c) BY DEF StoreCall, Asks
    <3>2. Await(o) /\ cpc[c] \in {"returned", "grace"}
          /\ \/ MoveTo(c, "recorded") /\ Accepted(o)
             \/ MoveTo(c, "failed") /\ ~Accepted(o)
             \/ MoveTo(c, "lost")
      BY <2>2 DEF RecordResult, RanResult
    <3>3. c \in executed BY <1>2, <3>2 DEF EnteredAt
    <3> HIDE DEF o
    <3> QED BY <3>1, <3>2, <3>3
  <2>3. CASE Unwind(c)
    <3> DEFINE k == IF cpc[c] = "lost" THEN "ran" ELSE "cancelled"
               o == StoreCall("settle", Result(c, k, "exec"))
    <3>1. o.op = "settle" /\ o.msg.kind = k /\ Asks(o, c) BY DEF StoreCall, Asks, Result, Message
    <3>2. Await(o) /\ cpc[c] \in {"lost", "stopping"}
          /\ \/ MoveTo(c, "stopped") /\ (Accepted(o) \/ row[c] \in Terminal)
             \/ MoveTo(c, "failed") /\ ~Accepted(o)
      BY <2>3 DEF Unwind, RanResult
    <3>3. k = "ran" => c \in executed BY <1>2, <3>2 DEF EnteredAt
    <3> HIDE DEF o, k
    <3> QED BY <3>1, <3>2, <3>3
  <2> QED BY <2>1, <2>2, <2>3
<1>5. orphans' = orphans /\ Perform(o) BY <1>4 DEF Await, threads
<1>6. /\ o.msg.role = "tool" /\ o.msg.calls = {c} /\ o.op \in {"start", "settle"}
      /\ Found(c) /\ c \in Current(log) /\ AptFor(o, c)
  <2>1. Found(c) /\ c \in Current(log) BY <1>1, <1>2 DEF FInv, Settling, Executing
  <2> QED BY <1>4, <2>1, AsksApt
<1>7. Performed(o, c) /\ CallOf(o.msg) = c BY <1>2, <1>5, <1>6, Performs DEF FInv, IInv, Settling
<1>8. /\ bundle' = bundle /\ cpc'[c] = p /\ \A d \in Calls \ {c} : cpc'[d] = cpc[d]
  BY <1>1, <1>2, <1>4, CallMoved
<1>9. row[c] \in {"absent", "running"} \cup Terminal /\ (c \in executed => row[c] # "absent")
  BY <1>2, RowOf
<1>10. Honest(o)
  <2>1. o.op = "settle" => o.msg.kind \in {"ran", "cancelled"} BY <1>4 DEF Asks, StoreCall, Result, Message
  <2>2. o.op = "start" => o.msg.kind = "not_started" BY <1>4 DEF Asks, StoreCall, Result, Message
  <2> QED BY <1>2, <1>4, <1>6, <2>1, <2>2, HonestIs
<1>11. EnteredAt(c)'
  <2>1. CASE cpc[c] = "starting" /\ o.op = "start" /\ ((p = "started" /\ Accepted(o)) \/ p = "failed")
    <3>1. log' = log BY <2>1, <1>7 DEF Performed
    <3>2. c \notin executed /\ c \notin Answered(log) BY <1>2, <2>1 DEF EnteredAt
    <3> QED BY <1>3, <1>5, <1>8, <2>1, <3>1, <3>2 DEF EnteredAt
  <2>2. CASE o.op = "settle" /\ p \in {"recorded", "stopped"} /\ (Accepted(o) \/ row[c] \in Terminal)
    <3>1. row'[c] \in Terminal
      <4>1. CASE Accepted(o) BY <1>6, <1>7, <2>2, <4>1 DEF Performed, AptFor
      <4>2. CASE ~Accepted(o) BY <1>7, <2>2, <4>2 DEF Performed
      <4> QED BY <4>1, <4>2
    <3> QED BY <1>3, <1>5, <1>8, <2>2, <3>1 DEF EnteredAt
  <2>3. CASE o.op = "settle" /\ p = "failed" /\ ~Accepted(o)
    <3>1. row[c] # "running" BY <1>7, <2>3 DEF Accepted, SettleAccepted
    <3>2. row' = row BY <1>7, <2>3 DEF Performed
    <3> QED BY <1>3, <1>5, <1>8, <1>9, <2>3, <3>1, <3>2 DEF EnteredAt
  <2>4. CASE p = "lost" /\ c \in executed BY <1>3, <1>5, <1>8, <2>4 DEF EnteredAt
  <2> QED BY <1>4, <2>1, <2>2, <2>3, <2>4
<1>12. \A d \in Calls \ {c} : row'[d] = row[d] /\ Kinds(log', d) = Kinds(log, d) BY <1>7 DEF Performed
<1>13. UNCHANGED <<halt, why>> \/ \E reason : Fail(reason) BY DEF StartCall, RecordResult, Unwind
<1>14. /\ why = "error" => why' = "error"
       /\ why' = "error" => halt' \notin {"no", "cancelled"}
  BY <1>2, <1>13, ErrorStays
<1>15. Entered' BY <1>1, <1>2, <1>3, <1>5, <1>8, <1>11, <1>12, <1>14, OthersStay
<1>16. Truth' BY <1>1, <1>2, <1>3, <1>5, <1>14, <1>15, TruthInBatch
<1> QED BY <1>5, <1>6, <1>10, <1>16

LEMMA DeliverTrue ==
    ASSUME TInv, pc = "batch", pc' = "batch", NEW S \in SUBSET Active, Deliver(S),
           UNCHANGED <<todo, entries, forgotten>>,
           why = "error" => why' = "error", why' = "error" => halt' \notin {"no", "cancelled"}
    PROVE  Truth'
<1>1. Entered /\ FInv /\ Truth /\ IInv BY DEF TInv, FInv, Truth
<1>2. \A c \in S : c \in bundle /\ c \in Calls /\ cpc[c] \in ActiveAt
  BY <1>1 DEF Active, FInv, IInv, Submitted
<1>3. /\ cpc' = [c \in Calls |-> IF c \in S THEN Interrupted(cpc[c]) ELSE cpc[c]]
      /\ orphans' = orphans \cup UNION {Left(c) : c \in S}
      /\ UNCHANGED <<store, bundle>>
  BY DEF Deliver, Abandon, threads
<1>4. log' = log /\ row' = row /\ executed' = executed BY <1>3, HonestKept DEF store
<1>5. ASSUME NEW c \in S, NEW o \in Left(c)
      PROVE  /\ Honest(o) /\ o.msg.calls = {c}
             /\ cpc[c] \in {"stopping", "grace", "lost"} => o.op = "settle"
             /\ cpc[c] \in {"starting", "stopping", "grace", "lost"}
  <2>1. PICK k, op : /\ o = StoreCall(op, Result(c, k, "exec"))
                     /\ \/ cpc[c] = "starting" /\ op = "start" /\ k = "not_started"
                        \/ cpc[c] = "stopping" /\ op = "settle" /\ k = "cancelled"
                        \/ cpc[c] \in {"grace", "lost"} /\ op = "settle" /\ k = "ran"
    <3>1. CASE cpc[c] = "starting" BY <3>1 DEF Left
    <3>2. CASE cpc[c] = "stopping" BY <3>2 DEF Left
    <3>3. CASE cpc[c] \in {"grace", "lost"} BY <3>3 DEF Left, RanResult
    <3>4. CASE cpc[c] \notin {"starting", "stopping", "grace", "lost"} BY <3>4 DEF Left
    <3> QED BY <3>1, <3>2, <3>3, <3>4
  <2>2. o.op = op /\ o.msg.calls = {c} /\ o.msg.kind = k BY <2>1 DEF StoreCall, Result, Message
  <2>3. EnteredAt(c) BY <1>1, <1>2 DEF Entered
  <2>4. k = "ran" => c \in executed BY <2>1, <2>3 DEF EnteredAt
  <2>5. Honest(o) BY <1>1, <1>2, <2>1, <2>2, <2>4, HonestIs
  <2> QED BY <2>1, <2>2, <2>5
<1>6. \A c \in S : cpc[c] \in {"stopping", "lost"} => \E o \in Left(c) : o.op = "settle" /\ o.msg.calls = {c}
  <2> SUFFICES ASSUME NEW c \in S, cpc[c] \in {"stopping", "lost"} PROVE \E o \in Left(c) : o.op = "settle" /\ o.msg.calls = {c}
    OBVIOUS
  <2>1. \E k : Left(c) = {StoreCall("settle", Result(c, k, "exec"))} BY DEF Left, RanResult
  <2> QED BY <2>1 DEF StoreCall, Result, Message
<1>7. Entered'
  <2> SUFFICES ASSUME NEW c \in bundle PROVE EnteredAt(c)' BY <1>3 DEF Entered
  <2>1. EnteredAt(c) /\ c \in Calls BY <1>1 DEF Entered, FInv, IInv, Submitted
  <2>2. CASE c \notin S
    <3>1. cpc'[c] = cpc[c] BY <1>3, <2>1, <2>2
    <3>2. \A o \in orphans' : o.msg.calls = {c} => o \in orphans BY <1>3, <1>5, <2>2
    <3>3. orphans \subseteq orphans' BY <1>3
    <3> QED BY <1>4, <2>1, <3>1, <3>2, <3>3 DEF EnteredAt
  <2>3. CASE c \in S
    <3>1. cpc'[c] = Interrupted(cpc[c]) /\ cpc[c] \in ActiveAt BY <1>2, <1>3, <2>1, <2>3
    <3>2. \A o \in orphans' : o.msg.calls = {c} => o \in orphans \/ o \in Left(c) BY <1>3, <1>5, <2>3
    <3>3. Left(c) \subseteq orphans' BY <1>3, <2>3
    <3>4. CASE cpc[c] = "starting"
      <4>1. cpc'[c] = "stopped" BY <3>1, <3>4 DEF Interrupted
      <4>2. c \notin executed BY <2>1, <3>4 DEF EnteredAt
      <4> QED BY <1>4, <4>1, <4>2 DEF EnteredAt
    <3>5. CASE cpc[c] \in {"stopping", "lost"}
      <4>1. cpc'[c] = "stopped" BY <3>1, <3>5 DEF Interrupted
      <4>2. \E o \in orphans' : o.op = "settle" /\ o.msg.calls = {c} BY <1>6, <2>3, <3>3, <3>5
      <4> QED BY <1>4, <4>1, <4>2 DEF EnteredAt
    <3>6. CASE cpc[c] \in {"started", "running", "returned"}
      <4>1. \/ cpc'[c] = "stopping"
            \/ cpc'[c] = "grace" /\ cpc[c] = "returned"
        BY <3>1, <3>6 DEF Interrupted
      <4>2. cpc'[c] = "grace" => c \in executed BY <2>1, <4>1 DEF EnteredAt
      <4> QED BY <1>4, <4>1, <4>2 DEF EnteredAt
    <3>7. CASE cpc[c] = "grace"
      <4>1. cpc'[c] = "lost" BY <3>1, <3>7 DEF Interrupted
      <4>2. c \in executed BY <2>1, <3>7 DEF EnteredAt
      <4> QED BY <1>4, <4>1, <4>2 DEF EnteredAt
    <3> QED BY <3>1, <3>4, <3>5, <3>6, <3>7 DEF ActiveAt
  <2> QED BY <2>2, <2>3
<1> QED BY <1>1, <1>3, <1>5, <1>7, TruthInBatch

\* An abandoned write that takes effect during the batch settles its call.
LEMMA LateStoreTrue ==
    ASSUME TInv, NEW o \in orphans, LateStore(o)
    PROVE  Truth'
<1>1. /\ Perform(o) /\ orphans' = orphans \ {o}
      /\ UNCHANGED <<pc, stage, entries, forgotten, todo, bundle, cpc, halt, why>>
  BY DEF LateStore, batch, world
<1>2. FInv /\ Truth /\ IInv /\ Places /\ Executing BY DEF TInv, FInv, Settling
<1>3. pc \in {"batch", "unstarted", "close", "read"} /\ o \notin todo BY <1>2, Apart DEF Places
<1>4. CASE pc \in {"read", "close"}
  <2>1. \A p \in orphans' \cup todo' : Honest(p)' BY <1>1, <1>2, HonestKept DEF Truth
  <2> QED BY <1>1, <1>2, <1>4, <2>1, HonestKept DEF Truth
<1>5. CASE pc \in {"batch", "unstarted"}
  <2>1. PICK c \in bundle : Asks(o, c) BY <1>2, <1>5 DEF Executing
  <2>2. o.op \in {"start", "settle"} /\ o.msg.role = "tool" /\ o.msg.calls = {c} BY <2>1, AsksApt
  <2>3. Entered /\ EnteredAt(c) BY <1>2, <1>5 DEF Truth, Entered
  <2>4. PICK d \in Current(log) : AptFor(o, d) /\ Performed(o, d) /\ CallOf(o.msg) = d
    <3>1. orphans' \cup todo' \subseteq (orphans \cup todo) \ {o} BY <1>1, <1>3
    <3> QED BY <1>1, <1>2, <2>2, <3>1, OneDone DEF Fits
  <2>5. d = c BY <2>2, <2>4 DEF AptFor
  <2>6. c \in Calls BY <1>2 DEF IInv, Submitted
  <2>7. executed' = executed BY <1>1, HonestKept
  <2>8. row[c] \in {"absent", "running"} \cup Terminal /\ (c \in executed => row[c] # "absent")
    BY <1>2, <2>6, RowOf
  <2>9. row[c] \in Terminal => row'[c] = row[c]
    <3>1. Proper(o) BY <1>2 DEF IInv, Submitted
    <3>2. Keeps BY <1>1, <1>2, <3>1, PerformKeeps DEF IInv
    <3> QED BY <2>6, <3>2 DEF Keeps
  <2>10. o.op = "settle" /\ c \in executed => row'[c] \in Terminal
    <3> SUFFICES ASSUME o.op = "settle", c \in executed PROVE row'[c] \in Terminal OBVIOUS
    <3>1. CASE Accepted(o) BY <2>4, <2>5, <3>1 DEF Performed, AptFor
    <3>2. CASE ~Accepted(o)
      <4>1. row[c] # "running" BY <2>4, <2>5, <3>2 DEF Accepted, SettleAccepted
      <4> QED BY <2>8, <2>9, <4>1
    <3> QED BY <3>1, <3>2
  <2>11. EnteredAt(c)'
    <3>1. /\ cpc[c] \in LetGo
          /\ c \in Answered(log) => c \in Answered(log')
      <4>1. PICK e \in bundle : Asks(o, e) /\ cpc[e] \in LetGo BY <1>2, <1>5 DEF Executing
      <4>2. e = c BY <2>2, <4>1, AsksApt
      <4> QED BY <2>4, <2>5, <4>1, <4>2 DEF Performed
    <3>2. ASSUME c \in executed, NEW p \in orphans, p.op = "settle", p.msg.calls = {c}
          PROVE  row'[c] \in Terminal \/ \E q \in orphans' : q.op = "settle" /\ q.msg.calls = {c}
      <4>1. CASE p = o BY <2>10, <3>2, <4>1
      <4>2. CASE p # o BY <1>1, <3>2, <4>2
      <4> QED BY <4>1, <4>2
    <3> QED BY <1>1, <2>3, <2>7, <2>9, <3>1, <3>2 DEF EnteredAt, LetGo
  <2>12. \A e \in Calls \ {c} : row'[e] = row[e] /\ Kinds(log', e) = Kinds(log, e)
    BY <2>4, <2>5 DEF Performed
  <2>13. \A p : p.msg.calls # {c} => (p \in orphans' <=> p \in orphans) BY <1>1, <2>2
  <2>14. Entered' BY <1>1, <1>2, <2>3, <2>7, <2>11, <2>12, <2>13, OthersStay
  <2>15. \A p \in orphans' \cup todo' : Honest(p)' BY <1>1, <1>2, HonestKept DEF Truth
  <2> QED BY <1>1, <1>2, <1>5, <2>14, <2>15 DEF Truth
<1> QED BY <1>3, <1>4, <1>5

\* A settlement that is withdrawn is forgotten.
LEMMA WithdrawTrue ==
    ASSUME TInv, NEW o \in orphans, Withdraw(o)
    PROVE  Truth' /\ \E C \in SUBSET Current(log) : forgotten' = forgotten \cup C
<1>1. /\ orphans' = orphans \ {o} /\ UNCHANGED <<store, pc, entries, todo, bundle, cpc, halt, why>>
      /\ forgotten' = forgotten \cup (IF o.op = "settle" THEN {CallOf(o.msg)} ELSE {})
  BY DEF Withdraw, batch
<1>2. FInv /\ Truth /\ Apt(o) BY DEF TInv, FInv, Settling, Queued
<1>3. log' = log /\ row' = row /\ executed' = executed /\ forgotten \subseteq forgotten'
  BY <1>1, HonestKept DEF store
<1>4. o.op = "settle" => CallOf(o.msg) \in Current(log) BY <1>2 DEF Apt, AptFor, CallOf
<1>5. \A c : o.op = "settle" /\ o.msg.calls = {c} => c \in forgotten' BY <1>1 DEF CallOf
<1>6. Entered => Entered'
  <2> SUFFICES ASSUME NEW c \in bundle, EnteredAt(c) PROVE EnteredAt(c)' BY <1>1 DEF Entered
  <2>1. (\E p \in orphans : p.op = "settle" /\ p.msg.calls = {c}) =>
           c \in forgotten' \/ \E p \in orphans' : p.op = "settle" /\ p.msg.calls = {c}
    BY <1>1, <1>5
  <2> QED BY <1>1, <1>3, <2>1 DEF EnteredAt
<1>7. Truth' BY <1>1, <1>2, <1>3, <1>6, HonestKept DEF Truth
<1>8. \E C \in SUBSET Current(log) : forgotten' = forgotten \cup C
  <2>1. CASE o.op = "settle" BY <1>1, <1>4, <2>1
  <2>2. CASE o.op # "settle" BY <1>1, <2>2
  <2> QED BY <2>1, <2>2
<1> QED BY <1>7, <1>8

\* A call without a row has not been executed, and only such calls are repaired as not started.
LEMMA ReadRowsTrue ==
    ASSUME TInv, ReadRows
    PROVE  Truth'
<1> DEFINE running == {c \in Calls : row[c] = "running"}
<1>1. FInv /\ Truth /\ IInv /\ Places /\ Story /\ Orderly(log) BY DEF TInv, FInv, Settling
<1>2. pc = "rows" /\ seen = log BY <1>1 DEF ReadRows, Places
<1>3. /\ UNCHANGED <<entries, forgotten, orphans, why>> /\ pc' \in {"repair", "rest", "read"}
      /\ \A o \in todo' : \E m \in Repairs(log, running, stage) : \E op : o = StoreCall(op, m)
  BY <1>2 DEF ReadRows, GoTo, Raise, Finalize, bounds, world, threads, batch
<1> HIDE DEF running
<1>4. ASSUME NEW o \in todo' PROVE Honest(o)
  <2>1. PICK m \in Repairs(log, running, stage) : o.msg = m BY <1>3 DEF StoreCall
  <2>2. PICK c \in Unanswered(log) : m = Result(c, IF c \in running THEN "unknown" ELSE "not_started", stage)
    BY <2>1 DEF Repairs
  <2>3. o.msg.calls = {c} /\ o.msg.kind = IF c \in running THEN "unknown" ELSE "not_started"
    BY <2>1, <2>2 DEF Result, Message
  <2>4. c \in Calls /\ c \notin Answered(log) BY <1>1, UnansweredIs, Asked
  <2>5. c \notin running => c \notin executed
    <3> SUFFICES ASSUME c \notin running PROVE c \notin executed OBVIOUS
    <3>1. row[c] # "running" BY <2>4 DEF running
    <3>2. Kinds(log, c) = {} BY <2>4 DEF Answered
    <3>3. row[c] \notin Terminal BY <1>1, <2>4, <3>2 DEF Story
    <3> QED BY <1>1, <2>4, <3>1, <3>3, RowOf
  <2>6. o.msg.kind # "ran" /\ (o.msg.kind = "not_started" => c \notin executed) BY <2>3, <2>5
  <2> QED BY <1>1, <2>3, <2>4, <2>6, HonestIs
<1> QED BY <1>1, <1>2, <1>3, <1>4, TruthAway

\* No call of a new bundle has been executed: it has no row.
LEMMA RecordAssistantTrue ==
    ASSUME TInv, RecordAssistant
    PROVE  Truth'
<1>1. FInv /\ Truth /\ IInv /\ Places /\ Story /\ Orderly(log) /\ StoreOK BY DEF TInv, FInv, Settling, IInv
<1>2. /\ pc = "record" /\ Perform(StoreCall("append", draft))
      /\ UNCHANGED <<entries, forgotten, orphans, todo, cpc, why>>
  BY DEF RecordAssistant, Await, batch, bounds, world, threads
<1>3. orphans = {} /\ todo = {} /\ (\A c \in Calls : cpc[c] = "new") /\ Fits(draft)
  BY <1>1, <1>2 DEF Places
<1>4. CASE draft.calls = {}
  <2>1. pc' = "read" BY <1>4 DEF RecordAssistant, Finalize
  <2> QED BY <1>1, <1>2, <2>1, TruthAway
<1>5. CASE draft.calls # {}
  <2>1. pc' = "batch" /\ bundle' = draft.calls BY <1>5 DEF RecordAssistant, GoTo
  <2>2. \A c \in draft.calls : row[c] = "absent" /\ c \notin Answered(log')
    BY <1>1, <1>2, <1>3, <1>5, TurnPerformed
  <2>3. draft.calls \subseteq Calls BY <1>3 DEF Fits
  <2>4. \A c \in draft.calls : c \notin executed BY <1>1, <2>2, <2>3, RowOf
  <2>5. executed' = executed BY <1>2, HonestKept
  <2>6. Entered' BY <1>2, <1>3, <2>1, <2>2, <2>3, <2>4, <2>5 DEF Entered, EnteredAt
  <2>7. why' # "error" BY <1>1, <1>2 DEF Truth
  <2> QED BY <1>1, <1>2, <1>3, <2>1, <2>6, <2>7 DEF Truth
<1> QED BY <1>4, <1>5

LEMMA BatchStoppedTrue ==
    ASSUME TInv, BatchStopped
    PROVE  Truth'
<1>1. Truth /\ pc = "batch" /\ UNCHANGED <<store, entries, forgotten, orphans, todo>>
  BY DEF TInv, BatchStopped, world, threads
<1>2. CASE pc' = "read" /\ NoBatch BY <1>1, <1>2, TruthAway
<1>3. CASE pc' = "unstarted" /\ UNCHANGED batch /\ why # "error"
  <2>1. executed' = executed BY <1>1, HonestKept
  <2>2. Entered' BY <1>1, <1>3, <2>1 DEF Truth, Entered, EnteredAt, batch, store
  <2>3. \A o \in orphans' \cup todo' : Honest(o)' BY <1>1, HonestKept DEF Truth
  <2> QED BY <1>3, <2>2, <2>3 DEF Truth, batch
<1> QED BY <1>2, <1>3 DEF BatchStopped, Finalize, GoTo

\* Calls of a stopped batch that have no result have not been executed, or are forgotten.
LEMMA FindUnstartedTrue ==
    ASSUME TInv, FindUnstarted
    PROVE  Truth'
<1>1. FInv /\ Truth /\ IInv /\ Executing /\ Story /\ Orderly(log) BY DEF TInv, FInv, Settling
<1>2. /\ pc = "unstarted" /\ pc' = "close" /\ UNCHANGED <<entries, orphans>> /\ why' = "-"
      /\ todo' = {StoreCall("start", Unstarted(c)) : c \in Open}
      /\ forgotten' = forgotten \cup {c \in Open : \E o \in orphans : o.op = "settle" /\ o.msg.calls = {c}}
  BY DEF FindUnstarted, GoTo, NoBatch, threads
<1>3. ASSUME NEW c \in Open PROVE c \notin executed \ forgotten'
  <2>1. c \in bundle /\ c \in Calls /\ c \notin Answered(log)
    BY <1>1, <1>2, Asked, AnsweredIs DEF Executing, Open
  <2>2. EnteredAt(c) BY <1>1, <1>2, <2>1 DEF Truth, Entered
  <2>3. cpc[c] \in {"new", "recorded", "stopped", "failed"}
    <3>1. cpc[c] \in CallStates /\ cpc[c] \notin ActiveAt BY <1>1, <1>2, <2>1 DEF IInv, Placed, Executing
    <3> QED BY <3>1 DEF CallStates
  <2>4. row[c] \notin Terminal
    <3>1. Kinds(log, c) = {} BY <2>1 DEF Answered
    <3> QED BY <1>1, <2>1, <3>1 DEF Story
  <2>5. why # "error" BY <1>1, <1>2 DEF Truth
  <2>6. (\E o \in orphans : o.op = "settle" /\ o.msg.calls = {c}) => c \in forgotten' BY <1>2, <1>3
  <2>7. c \in forgotten => c \in forgotten' BY <1>2
  <2> QED BY <2>2, <2>3, <2>4, <2>5, <2>6, <2>7 DEF EnteredAt
<1>4. \A o \in todo' : \E c \in Open : o.op = "start" /\ o.msg.calls = {c}
  BY <1>2 DEF StoreCall, Unstarted, Result, Message
<1>5. forgotten \subseteq forgotten' BY <1>2
<1>6. executed' = executed BY <1>2, <1>5, HonestKept
<1>7. \A o \in orphans' \cup todo' : Honest(o)'
  <2>1. \A o \in orphans' : Honest(o)' BY <1>1, <1>2, <1>5, HonestKept DEF Truth
  <2>2. \A o \in todo' : Honest(o)' BY <1>4 DEF Honest
  <2> QED BY <2>1, <2>2
<1>8. \A o \in todo' : \A c \in executed' \ forgotten' : o.msg.calls # {c} BY <1>3, <1>4, <1>6
<1> QED BY <1>2, <1>7, <1>8 DEF Truth

LEMMA CloseCallTrue ==
    ASSUME TInv, NEW o \in todo, CloseCall(o)
    PROVE  Truth'
<1>1. FInv /\ Truth /\ IInv BY DEF TInv, FInv
<1>2. pc = "close" /\ UNCHANGED <<entries, forgotten, orphans, why>>
  BY DEF CloseCall, Await, world, threads, batch
<1>3. \A p \in todo : \A c \in executed \ forgotten : p.msg.calls # {c} BY <1>1, <1>2 DEF Truth
<1>4. why' # "error" /\ executed' = executed BY <1>1, <1>2, HonestKept DEF Truth
<1>5. CASE todo' \subseteq todo /\ pc' \in {"close", "read"}
  <2>1. \A p \in orphans' \cup todo' : Honest(p)' BY <1>1, <1>2, <1>5, HonestKept DEF Truth
  <2> QED BY <1>2, <1>3, <1>4, <1>5, <2>1 DEF Truth
<1>6. CASE pc' = pc /\ todo' = (todo \ {o}) \cup {StoreCall("settle", o.msg)}
  <2> DEFINE s == StoreCall("settle", o.msg)
  <2>1. s.msg = o.msg BY DEF StoreCall
  <2>2. \A c \in executed \ forgotten : s.msg.calls # {c} BY <1>3, <2>1
  <2>3. PICK c \in Calls : o.msg = Unstarted(c) BY <1>1, <1>2 DEF FInv, Settling, Closing
  <2>4. s.msg.kind = "not_started" /\ s.msg.calls = {c} BY <2>1, <2>3 DEF Unstarted, Result, Message
  <2>5. \A p \in todo' : p \in todo \/ p = s BY <1>6
  <2> HIDE DEF s
  <2>6. c \notin executed \ forgotten BY <2>2, <2>4
  <2>7. Honest(s) BY <1>1, <2>4, <2>6, HonestIs
  <2>8. \A p \in orphans' \cup todo' : Honest(p)' BY <1>1, <1>2, <2>5, <2>7, HonestKept DEF Truth
  <2> QED BY <1>2, <1>3, <1>4, <1>6, <2>2, <2>5, <2>8 DEF Truth
<1>7. \/ todo' \subseteq todo /\ pc' \in {"close", "read"}
      \/ pc' = pc /\ todo' = (todo \ {o}) \cup {StoreCall("settle", o.msg)}
  <2>1. CASE Accepted(o) /\ o.op = "start" BY <1>2, <2>1 DEF CloseCall
  <2>2. CASE (Accepted(o) /\ o.op = "settle") \/ (~Accepted(o) /\ row[CallOf(o.msg)] \in Terminal)
    BY <1>2, <2>2 DEF CloseCall
  <2>3. CASE ~(Accepted(o) /\ o.op \in {"start", "settle"}) /\ ~(~Accepted(o) /\ row[CallOf(o.msg)] \in Terminal)
    BY <1>2, <2>3 DEF CloseCall, Finalize
  <2> QED BY <2>1, <2>2, <2>3
<1> QED BY <1>5, <1>6, <1>7

LEMMA TaskCancelTrue ==
    ASSUME TInv, TaskCancel
    PROVE  Truth'
<1>1. FInv /\ Truth /\ Places BY DEF TInv, FInv, Settling
<1>2. UNCHANGED <<entries, forgotten>> BY DEF TaskCancel, world
<1>3. CASE /\ pc = "batch" /\ pc' = "batch" /\ Deliver(Active) /\ UNCHANGED todo
           /\ halt \in {"no", "cancelled"} /\ (Fail("stop") \/ why' \in {"stop", why})
  <2>1. why # "error" BY <1>1, <1>3 DEF Truth
  <2>2. why' # "error" BY <1>3, <2>1 DEF Fail
  <2> QED BY <1>2, <1>3, <2>1, <2>2, DeliverTrue
<1>4. CASE /\ pc \in {"read", "rows", "user", "model", "record", "unstarted"} /\ pc' = "read" /\ todo' = {} /\ NoBatch
           /\ orphans' = orphans \cup (CASE pc = "user" -> {StoreCall("append", UserMessage)}
                                         [] pc = "record" -> {StoreCall("append", draft)}
                                         [] OTHER -> {})
  <2>1. \A m : m.role # "tool" => Honest(StoreCall("append", m)) BY DEF Honest, StoreCall
  <2>2. UserMessage.role # "tool" BY DEF UserMessage, Message
  <2>3. pc = "record" => draft.role # "tool" BY <1>1 DEF Places
  <2>4. \A o \in orphans' : o \in orphans \/ Honest(o)
    <3>1. CASE pc = "user" BY <1>4, <2>1, <2>2, <3>1
    <3>2. CASE pc = "record" BY <1>4, <2>1, <2>3, <3>2
    <3>3. CASE pc \notin {"user", "record"} BY <1>4, <3>3
    <3> QED BY <3>1, <3>2, <3>3
  <2> QED BY <1>1, <1>2, <1>4, <2>4, TruthAway
<1>5. CASE /\ pc \in {"repair", "close"} /\ pc' = "read" /\ UNCHANGED batch /\ todo' = {}
           /\ \E o \in todo : orphans' = orphans \cup {o}
  BY <1>1, <1>2, <1>5, TruthAway DEF batch
<1> QED BY <1>3, <1>4, <1>5 DEF TaskCancel, Abandon, Finalize

LEMMA InitTInv == Init => TInv
BY InitFInv DEF TInv, Init, Truth

LEMMA StepTInv == TInv /\ [Next]_vars /\ ~raced' => TInv'
<1> SUFFICES ASSUME TInv, [Next]_vars, ~raced' PROVE TInv' OBVIOUS
<1>1. FInv' /\ Truth BY StepFInv DEF TInv
<1>2. Truth'
  <2>1. CASE UNCHANGED vars \/ CancelEvent
    <3>1. UNCHANGED <<store, entries, forgotten, orphans, todo, pc, bundle, cpc, halt, why>>
      BY <2>1 DEF vars, store, CancelEvent, batch, world, threads
    <3> QED BY <1>1, <3>1, TruthStill
  <2>2. CASE \/ StartRun \/ ReadMessages \/ ModelStops \/ ModelAnswers \/ Repaired \/ Closed \/ AppendUser \/ PublishResult
             \/ BatchDone \/ Crash \/ (\E o \in todo : Repair(o)) \/ \E B \in (SUBSET Calls) \ {{}} : ModelAsks(B)
    <3>1. UNCHANGED <<entries, forgotten>> /\ orphans' \cup todo' \subseteq orphans \cup todo
      BY <2>2 DEF StartRun, ReadMessages, ModelStops, ModelAnswers, Repaired, Closed, AppendUser, PublishResult,
                  BatchDone, Crash, Repair, ModelAsks, Await, world, threads
    <3>2. pc' \notin {"batch", "unstarted", "close"}
      BY <2>2 DEF StartRun, ReadMessages, ModelStops, ModelAnswers, Repaired, Closed, AppendUser, PublishResult,
                  BatchDone, Crash, Repair, ModelAsks, GoTo, Finalize, Raise
    <3>3. NoBatch \/ (why' = why /\ pc # "batch")
      BY <2>2 DEF StartRun, ReadMessages, ModelStops, ModelAnswers, Repaired, Closed, AppendUser, PublishResult,
                  BatchDone, Crash, Repair, ModelAsks, batch
    <3> QED BY <1>1, <3>1, <3>2, <3>3, TruthAway
  <2>3. CASE ReadRows \/ RecordAssistant BY <2>3, ReadRowsTrue, RecordAssistantTrue
  <2>4. CASE BatchStopped \/ FindUnstarted BY <2>4, BatchStoppedTrue, FindUnstartedTrue
  <2>5. CASE \E o \in todo : CloseCall(o) BY <2>5, CloseCallTrue
  <2>6. CASE DrainReads
    <3>1. /\ pc = "batch" /\ pc' = "batch" /\ Deliver(Active \cap Reads) /\ UNCHANGED <<todo, entries, forgotten, why>>
          /\ halt' = "drained"
      BY <2>6 DEF DrainReads, callUnchanged, world
    <3> QED BY <3>1, DeliverTrue
  <2>7. ASSUME NEW c \in Calls, CallStep(c) PROVE Truth'
    BY <2>7, QuietCallsTrue, EnterToolTrue, WritingCallsTrue DEF CallStep
  <2>8. ASSUME NEW o \in orphans \cup passed, LateStore(o) \/ Withdraw(o) PROVE Truth'
    <3>1. CASE o \in orphans BY <2>8, <3>1, LateStoreTrue, WithdrawTrue
    <3>2. CASE o \notin orphans
      <4>1. UNCHANGED <<store, entries, forgotten, orphans, todo, pc, bundle, cpc, halt, why>>
        BY <2>8, <3>2 DEF LateStore, Withdraw, store, world, batch
      <4> QED BY <1>1, <4>1, TruthStill
    <3> QED BY <3>1, <3>2
  <2>9. CASE TaskCancel BY <2>9, TaskCancelTrue
  <2> QED BY <2>1, <2>2, <2>3, <2>4, <2>5, <2>6, <2>7, <2>8, <2>9 DEF Next, RunStep, Idle
<1> QED BY <1>1, <1>2 DEF TInv

-----------------------------------------------------------------------------
(* The refinement of ToolOutcome, step by step                              *)

LEMMA CallIdsAppended ==
    ASSUME NEW t, Messages(t), NEW m
    PROVE  CallIds(Append(t, m)) = CallIds(t) \cup (IF IsBundle(m) THEN m.calls ELSE {})
<1> DEFINE r == Append(t, m)
           n == Len(t)
<1>1. /\ n \in Nat /\ DOMAIN t = 1 .. n /\ DOMAIN r = 1 .. (n + 1)
      /\ (\A i \in 1 .. n : r[i] = t[i]) /\ r[n + 1] = m
  BY AppendIs
<1> HIDE DEF r, n
<1>2. ASSUME NEW c PROVE c \in CallIds(r) <=> c \in CallIds(t) \/ (IsBundle(m) /\ c \in m.calls)
  <2>1. c \in CallIds(r) <=> \E i \in 1 .. (n + 1) : IsBundle(r[i]) /\ c \in r[i].calls BY <1>1 DEF CallIds
  <2>2. c \in CallIds(t) <=> \E i \in 1 .. n : IsBundle(t[i]) /\ c \in t[i].calls BY <1>1 DEF CallIds
  <2>3. \A i : i \in 1 .. (n + 1) <=> i \in 1 .. n \/ i = n + 1 BY <1>1
  <2> QED BY <1>1, <2>1, <2>2, <2>3
<1> QED BY <1>2 DEF r

\* Only the calls of the last bundle can be without an answer.
LEMMA OpenIs ==
    ASSUME NEW t, Orderly(t)
    PROVE  CallIds(t) \ Answered(t) = Unanswered(t)
<1>1. Unanswered(t) = Current(t) \ Answered(t) /\ Messages(t) BY UnansweredIs DEF Orderly
<1>2. Current(t) \subseteq CallIds(t) BY Asked
<1>3. ASSUME NEW c \in CallIds(t) \ Answered(t) PROVE c \in Current(t)
  <2>0. Len(t) \in Nat /\ DOMAIN t = 1 .. Len(t) BY <1>1, SeqIs
  <2>1. PICK i \in 1 .. Len(t) : IsBundle(t[i]) /\ c \in t[i].calls BY <2>0 DEF CallIds
  <2>2. c \in Calls BY <2>0, <2>1 DEF Orderly, Messages
  <2>3. ~\E j \in DOMAIN t : t[j].role = "tool" /\ t[j].calls = {c} BY <2>2 DEF Answered, Kinds
  <2>4. \A k \in (i + 1) .. Len(t) : t[k].role = "tool" BY <2>0, <2>1, <2>3 DEF Orderly, BundlesDone
  <2>5. IsTurn(t, i) BY <2>0, <2>1, <2>4 DEF IsTurn, IsBundle
  <2>6. LastTurn(t) = i BY <1>1, <2>5, TurnIs
  <2> QED BY <2>0, <2>1, <2>6 DEF Current
<1> QED BY <1>1, <1>2, <1>3

\* What the transcript says of a call.
OneOf(K) == IF K = {} THEN "none" ELSE CHOOSE k \in K : TRUE
Says(t, c) == OneOf(Kinds(t, c))
Outcomes(t) == [c \in Calls |-> Says(t, c)]

LEMMA OutcomesAre ==
    Outcomes(log) = [c \in Calls |-> IF ResultOf(c) = {} THEN "none" ELSE CHOOSE k \in ResultOf(c) : TRUE]
BY DEF Outcomes, Says, OneOf, Kinds, ResultOf

LEMMA AbstractIs ==
    /\ Abstract!Pending = {c \in CallIds(log) : Outcomes(log)[c] = "none"}
    /\ \A B : Abstract!Ask(B) <=> /\ Abstract!Pending = {} /\ B \cap CallIds(log) = {}
                                  /\ CallIds(log') = CallIds(log) \cup B
                                  /\ UNCHANGED world /\ Outcomes(log') = Outcomes(log)
    /\ \A c : Abstract!Execute(c) <=> /\ c \in Abstract!Pending /\ entries[c] = 0
                                      /\ entries' = [entries EXCEPT ![c] = 1] /\ forgotten' = forgotten
                                      /\ CallIds(log') = CallIds(log) /\ Outcomes(log') = Outcomes(log)
    /\ \A C : Abstract!Forget(C) <=> /\ forgotten' = forgotten \cup C /\ entries' = entries
                                     /\ CallIds(log') = CallIds(log) /\ Outcomes(log') = Outcomes(log)
    /\ \A c, k : Abstract!Resolve(c, k) <=> /\ c \in Abstract!Pending /\ Abstract!Truthful(c, k)
                                            /\ Outcomes(log') = [Outcomes(log) EXCEPT ![c] = k]
                                            /\ CallIds(log') = CallIds(log) /\ UNCHANGED world
    /\ UNCHANGED Abstract!absVars <=> /\ CallIds(log') = CallIds(log) /\ UNCHANGED world
                                      /\ Outcomes(log') = Outcomes(log)
<1>1. Outcomes(log) = [c \in Calls |-> IF ResultOf(c) = {} THEN "none" ELSE CHOOSE k \in ResultOf(c) : TRUE]
  BY OutcomesAre
<1>2. Outcomes(log') = [c \in Calls |-> IF ResultOf(c)' = {} THEN "none" ELSE CHOOSE k \in ResultOf(c)' : TRUE]
  BY DEF Outcomes, Says, OneOf, Kinds, ResultOf
<1>3. CallIds(log)' = CallIds(log') BY DEF CallIds
<1> QED BY <1>1, <1>2, <1>3
    DEF Abstract!Pending, Abstract!Ask, Abstract!Execute, Abstract!Forget, Abstract!Resolve, Abstract!absVars, world

LEMMA SameOutcomes ==
    ASSUME \A c \in Calls : Kinds(log', c) = Kinds(log, c)
    PROVE  Outcomes(log') = Outcomes(log)
BY DEF Outcomes, Says

\* Results say how a call ended.
LEMMA KindsTerminal ==
    ASSUME FInv, NEW c \in Calls
    PROVE  Kinds(log, c) \subseteq Terminal
<1>1. row[c] \in Rows /\ Story /\ Orderly(log) BY DEF FInv, IInv, StoreOK, Settling
<1>2. c \in Unanswered(log) => Kinds(log, c) = {} BY <1>1, UnansweredIs DEF Answered
<1> QED BY <1>1, <1>2 DEF Rows, Terminal, Story

LEMMA PendingIs ==
    ASSUME FInv
    PROVE  Abstract!Pending = Unanswered(log)
<1>1. Orderly(log) BY DEF FInv, Settling
<1>2. CallIds(log) \subseteq Calls BY <1>1, Asked
<1>3. ASSUME NEW c \in Calls PROVE Outcomes(log)[c] = "none" <=> c \notin Answered(log)
  <2>1. Kinds(log, c) \subseteq Terminal BY KindsTerminal
  <2>2. Kinds(log, c) # {} => Says(log, c) \in Terminal BY <2>1 DEF Says, OneOf
  <2>3. "none" \notin Terminal BY DEF Terminal
  <2>4. Outcomes(log)[c] = Says(log, c) BY DEF Outcomes
  <2> QED BY <2>2, <2>3, <2>4 DEF Answered, Says, OneOf
<1> QED BY <1>1, <1>2, <1>3, OpenIs, AbstractIs

LEMMA StoreStill ==
    ASSUME UNCHANGED <<store, world>>
    PROVE  UNCHANGED Abstract!absVars
<1>1. log' = log /\ UNCHANGED world BY DEF store
<1> QED BY <1>1, AbstractIs

\* Only calls of the last bundle are forgotten.
LEMMA Forgets ==
    ASSUME FInv, UNCHANGED <<store, entries>>, NEW C \in SUBSET Current(log), forgotten' = forgotten \cup C
    PROVE  Abstract!Next
<1>1. log' = log BY DEF store
<1>2. Abstract!Forget(C) BY <1>1, AbstractIs
<1>3. C \in SUBSET CallIds(log) BY Asked DEF FInv, Settling
<1> QED BY <1>2, <1>3 DEF Abstract!Next

\* A result resolves its call, or is there already.
LEMMA ResultResolves ==
    ASSUME TInv, NEW o, NEW c \in Current(log), AptFor(o, c), o.op \in {"start", "settle", "append"},
           Perform(o), Honest(o), UNCHANGED world
    PROVE  [Abstract!Next]_(Abstract!absVars)
<1>1. Orderly(log) /\ Story /\ StoreOK /\ FInv BY DEF TInv, FInv, Settling, IInv
<1>2. Performed(o, c) BY <1>1, Performs
<1>3. CASE log' = log BY <1>3, AbstractIs
<1>4. CASE log' = Append(log, o.msg) /\ c \in Unanswered(log) /\ log' # log
  <2>0. c \in Calls BY <1>1, Asked
  <2>1. o.op # "start" BY <1>2, <1>4 DEF Performed
  <2>2. o.msg.role = "tool" /\ o.msg.calls = {c} /\ o.msg.kind \in Terminal BY DEF AptFor
  <2>3. CallIds(log') = CallIds(log)
    <3>1. ~IsBundle(o.msg) BY <2>2 DEF IsBundle
    <3> QED BY <1>1, <1>4, <3>1, CallIdsAppended DEF Orderly
  <2>4. (\A d \in Calls \ {c} : Kinds(log', d) = Kinds(log, d)) /\ Kinds(log', c) = {o.msg.kind}
    BY <1>1, <1>4, <2>2, ResultAppended
  <2>5. Says(log', c) = o.msg.kind BY <2>4 DEF Says, OneOf
  <2>6. \A d \in Calls \ {c} : Says(log', d) = Says(log, d) BY <2>4 DEF Says
  <2>7. Outcomes(log') = [Outcomes(log) EXCEPT ![c] = o.msg.kind] BY <2>0, <2>5, <2>6 DEF Outcomes
  <2>8. Abstract!Truthful(c, o.msg.kind) BY <2>0, <2>1, <2>2 DEF Honest
  <2>9. c \in Abstract!Pending BY <1>1, <1>4, PendingIs
  <2>10. Abstract!Resolve(c, o.msg.kind) BY <2>3, <2>7, <2>8, <2>9, AbstractIs
  <2>11. o.msg.kind \in Abstract!Kinds BY <2>2 DEF Terminal, Abstract!Kinds
  <2> QED BY <2>0, <2>10, <2>11 DEF Abstract!Next
<1> QED BY <1>2, <1>3, <1>4 DEF Performed

\* A bundle asks for its calls when every earlier one is answered.
LEMMA TurnAsks ==
    ASSUME TInv, NEW m, Fits(m), Perform(StoreCall("append", m)), UNCHANGED world
    PROVE  [Abstract!Next]_(Abstract!absVars)
<1>1. Orderly(log) /\ FInv BY DEF TInv, FInv, Settling
<1>2. log' = WithMessage(m) BY DEF Perform, Accepted, StoreCall
<1>3. CASE log' = log BY <1>3, AbstractIs
<1>4. CASE log' = Append(log, m)
  <2>1. /\ Unanswered(log) = {} /\ m.role \in {"user", "assistant"} /\ m.calls \subseteq Calls
        /\ m.role = "user" => m.calls = {}
        /\ m.calls \cap CallIds(log) = {}
    BY DEF Fits
  <2>2. \A c \in Calls : Kinds(log', c) = Kinds(log, c) BY <1>1, <1>4, <2>1, TurnAppended
  <2>3. Outcomes(log') = Outcomes(log) BY <2>2, SameOutcomes
  <2>4. CallIds(log') = CallIds(log) \cup m.calls
    <3>1. CallIds(log') = CallIds(log) \cup (IF IsBundle(m) THEN m.calls ELSE {})
      BY <1>1, <1>4, CallIdsAppended DEF Orderly
    <3> QED BY <2>1, <3>1 DEF IsBundle
  <2>5. CASE m.calls = {} BY <2>3, <2>4, <2>5, AbstractIs
  <2>6. CASE m.calls # {}
    <3>1. Abstract!Ask(m.calls) BY <1>1, <2>1, <2>3, <2>4, PendingIs, AbstractIs
    <3>2. m.calls \in (SUBSET Calls) \ {{}}
      <4>1. m.calls \in SUBSET Calls BY <2>1
      <4> QED BY <2>6, <4>1
    <3> QED BY <3>1, <3>2 DEF Abstract!Next
  <2> QED BY <2>5, <2>6
<1> QED BY <1>2, <1>3, <1>4 DEF WithMessage

\* A call that is on its way to the store is one or the other.
LEMMA QueuedRefines ==
    ASSUME TInv, NEW o \in orphans \cup todo, Perform(o), UNCHANGED world
    PROVE  [Abstract!Next]_(Abstract!absVars)
<1>1. Apt(o) /\ Honest(o) BY DEF TInv, FInv, Settling, Queued, Truth
<1>2. CASE o.op = "append" /\ Fits(o.msg)
  <2>1. Perform(StoreCall("append", o.msg)) BY <1>2 DEF Perform, Accepted, StoreCall
  <2> QED BY <1>2, <2>1, TurnAsks
<1>3. CASE \E c \in Current(log) : AptFor(o, c) BY <1>1, <1>3, ResultResolves DEF Apt
<1> QED BY <1>1, <1>2, <1>3 DEF Apt

LEMMA InitRefines == Init => Abstract!Init
<1> SUFFICES ASSUME Init PROVE Abstract!Init OBVIOUS
<1>1. log = <<>> /\ entries = [c \in Calls |-> 0] /\ forgotten = {} BY DEF Init
<1>2. DOMAIN log = {} BY <1>1
<1>3. CallIds(log) = {} BY <1>2 DEF CallIds
<1>4. \A c \in Calls : ResultOf(c) = {} BY <1>2 DEF ResultOf
<1> QED BY <1>1, <1>3, <1>4 DEF Abstract!Init

LEMMA StepRefines ==
    ASSUME TInv, [Next]_vars, ~raced'
    PROVE  [Abstract!Next]_(Abstract!absVars)
<1>1. CASE \/ UNCHANGED vars \/ CancelEvent \/ StartRun \/ ReadMessages \/ ReadRows \/ ModelStops \/ ModelAnswers
           \/ Repaired \/ Closed \/ BatchDone \/ BatchStopped \/ DrainReads \/ TaskCancel \/ Crash
           \/ \E B \in (SUBSET Calls) \ {{}} : ModelAsks(B)
  <2>1. UNCHANGED <<store, world>>
    BY <1>1 DEF vars, store, CancelEvent, StartRun, ReadMessages, ReadRows, ModelStops, ModelAnswers, Repaired,
                Closed, BatchDone, BatchStopped, DrainReads, TaskCancel, Crash, ModelAsks,
                Deliver, Abandon, world
  <2> QED BY <2>1, StoreStill
<1>2. CASE AppendUser \/ PublishResult \/ RecordAssistant
  <2>1. UNCHANGED world BY <1>2 DEF AppendUser, PublishResult, RecordAssistant, world
  <2>2. pc \in {"user", "publish", "record"} BY <1>2 DEF AppendUser, PublishResult, RecordAssistant
  <2>3. Unanswered(log) = {} /\ (pc = "record" => Fits(draft)) BY <2>2 DEF TInv, FInv, Settling, Places
  <2>4. Fits(UserMessage) /\ Fits(Answer("final")) BY <2>3 DEF Fits, UserMessage, Answer, Message
  <2>5. UNCHANGED store \/ \E m : Fits(m) /\ Perform(StoreCall("append", m))
    BY <1>2, <2>3, <2>4 DEF AppendUser, PublishResult, RecordAssistant, Await
  <2> QED BY <2>1, <2>5, TurnAsks, StoreStill
<1>3. ASSUME NEW o \in todo, Repair(o) \/ CloseCall(o) PROVE [Abstract!Next]_(Abstract!absVars)
  <2>1. Perform(o) /\ UNCHANGED world BY <1>3 DEF Repair, CloseCall, Await, world
  <2> QED BY <2>1, QueuedRefines
<1>4. ASSUME NEW o \in orphans \cup passed, LateStore(o) PROVE [Abstract!Next]_(Abstract!absVars)
  <2>1. Perform(o) /\ UNCHANGED world BY <1>4 DEF LateStore, world
  <2>2. CASE o \in orphans BY <2>1, <2>2, QueuedRefines
  <2>3. CASE o \in passed
    <3>1. UNCHANGED store BY <1>4, <2>3 DEF LateStore
    <3> QED BY <2>1, <3>1, StoreStill
  <2> QED BY <2>2, <2>3
<1>5. ASSUME NEW o \in orphans \cup passed, Withdraw(o) PROVE [Abstract!Next]_(Abstract!absVars)
  <2>1. UNCHANGED <<store, entries>> BY <1>5 DEF Withdraw, store
  <2>2. CASE o \in orphans
    <3>1. PICK C \in SUBSET Current(log) : forgotten' = forgotten \cup C BY <1>5, <2>2, WithdrawTrue
    <3> QED BY <2>1, <3>1, Forgets DEF TInv
  <2>3. CASE o \notin orphans
    <3>1. UNCHANGED <<store, world>> BY <1>5, <2>3 DEF Withdraw, store, world
    <3> QED BY <3>1, StoreStill
  <2> QED BY <2>2, <2>3
<1>6. CASE FindUnstarted
  <2>1. pc = "unstarted" /\ UNCHANGED <<store, entries>> BY <1>6 DEF FindUnstarted
  <2>2. Open \subseteq Current(log) BY <2>1 DEF Open, TInv, FInv, Settling, Executing
  <2>3. \E C \in SUBSET Current(log) : forgotten' = forgotten \cup C
    <3>1. forgotten' = forgotten \cup {c \in Open : \E o \in orphans : o.op = "settle" /\ o.msg.calls = {c}}
      BY <1>6 DEF FindUnstarted
    <3> QED BY <2>2, <3>1
  <2> QED BY <2>1, <2>3, Forgets DEF TInv
<1>7. ASSUME NEW c \in Calls, CallStep(c) PROVE [Abstract!Next]_(Abstract!absVars)
  <2>1. CASE Begin(c) \/ Refuse(c) \/ ToolReturns(c) \/ StopOnEvent(c) \/ GraceExpires(c)
    <3>1. UNCHANGED <<store, world>>
      BY <2>1 DEF Begin, Refuse, ToolReturns, StopOnEvent, GraceExpires, Abandon, world
    <3> QED BY <3>1, StoreStill
  <2>2. CASE HostFails(c)
    <3>1. UNCHANGED <<store, entries>> /\ (forgotten' = forgotten \/ forgotten' = forgotten \cup {c})
      BY <2>2 DEF HostFails, store
    <3>2. cpc[c] \in ActiveAt BY <2>2 DEF HostFails, ActiveAt
    <3>3. c \in bundle /\ pc = "batch" BY <3>2, InBatch DEF TInv
    <3>4. c \in Current(log) BY <3>3 DEF TInv, FInv, Settling, Executing
    <3>5. CASE forgotten' = forgotten BY <3>1, <3>5, StoreStill DEF world
    <3>6. CASE forgotten' = forgotten \cup {c}
      <4>1. {c} \in SUBSET Current(log) BY <3>4
      <4> QED BY <3>1, <3>6, <4>1, Forgets DEF TInv
    <3> QED BY <3>1, <3>5, <3>6
  <2>3. CASE EnterTool(c)
    <3>1. entries[c] = 0 /\ c \in Unanswered(log) BY <2>3, EnterToolTrue
    <3>2. log' = log /\ forgotten' = forgotten /\ entries' = [entries EXCEPT ![c] = 1]
      BY <2>3, <3>1 DEF EnterTool, store
    <3>3. Abstract!Execute(c) BY <3>1, <3>2, PendingIs, AbstractIs DEF TInv
    <3> QED BY <3>3 DEF Abstract!Next
  <2>4. CASE StartCall(c) \/ RecordResult(c) \/ Unwind(c)
    <3>1. PICK o : Perform(o) /\ Honest(o) /\ \E d \in Current(log) : AptFor(o, d) /\ o.op \in {"start", "settle"}
      BY <2>4, WritingCallsTrue
    <3>2. UNCHANGED world BY <2>4 DEF StartCall, RecordResult, Unwind, world
    <3> QED BY <3>1, <3>2, ResultResolves
  <2> QED BY <1>7, <2>1, <2>2, <2>3, <2>4 DEF CallStep
<1> QED BY <1>1, <1>2, <1>3, <1>4, <1>5, <1>6, <1>7 DEF Next, RunStep, Idle

\* Every bundle is answered before the next, the tool of a call is entered at most once, and
\* what the transcript says of a call is what happened to it, but for the calls the host has
\* lost track of, whatever is cancelled, fails or crashes, until a store call that a repair
\* did not wait for changes the store behind it.
THEOREM Implements == Spec => ImplementsToolOutcome
<1>1. Init => Abstract!Init /\ (raced \/ TInv) BY InitRefines, InitTInv
<1>2. (raced \/ TInv) /\ [Next]_vars => (raced \/ TInv)' BY StepTInv, Races
<1>3. (raced \/ TInv) /\ [Next]_vars => [Abstract!Next \/ raced']_(Abstract!absVars) BY StepRefines, Races
<1> QED BY <1>1, <1>2, <1>3, PTL DEF Spec, ImplementsToolOutcome
=============================================================================
