----------------------------- MODULE AgentRunner ----------------------------
(***************************************************************************)
(* The agent loop of crates/zeta-agent/src/runner.rs, as the executor of   *)
(* crates/zeta/src/runtime.rs runs it for the attempts of one queue item:  *)
(* model turns, batches of tool calls, the trace and the facts written     *)
(* around them, cancellation, and what a later attempt finds in the        *)
(* journal.                                                                *)
(*                                                                         *)
(* The runner hands every write to the actor and waits for it, so the      *)
(* writes a step asks for are a queue that is emptied one by one before    *)
(* the run goes on; a crash or a refused write may fall between any two.   *)
(* A tool stands for a capability with its arguments: it is what names an  *)
(* effect within the queue item.                                           *)
(*                                                                         *)
(* A definition named X_Y is X with a plausible mistake Y; it is never     *)
(* used by the specification.                                              *)
(***************************************************************************)
EXTENDS Naturals, Sequences, FiniteSets, SequencesExt

CONSTANTS
  Messages,      \* assistant messages: sequences of tool calls [id, tool]
  Kind,          \* tool -> what it does; a tool outside is not granted
  Results,       \* results of external tools, "error" and "stop" among them
  MaxModelCalls, \* max_model_calls
  MaxAttempts,   \* bound: attempts of the queue item
  NoId           \* a call without an id

Effectful(tool) == Kind[tool] \in {"unsafe", "idempotent"}
External(tool) == Kind[tool] \in {"plain", "unsafe", "idempotent"}
Effects == {t \in DOMAIN Kind : Effectful(t)}

VARIABLES
  attempt,    \* attempts begun
  state,      \* of the latest: idle, running, completed, failed
  stage,      \* loop, model, execute, executing, after, aborting, finish
  abort,      \* the reason the run sees: none, cancelled, deadline_exceeded
  turn,       \* RunState, the result, and every call the model asked for
  writes,     \* writes the run still waits for
  journal,    \* events, in order
  effects,    \* the effects projection
  objects,    \* retained trace objects
  executions  \* tools set off, in order: what the outside world saw

vars == <<attempt, state, stage, abort, turn, writes, journal, effects,
          objects, executions>>

Fresh == [modelCalls |-> 0, pending |-> <<>>, index |-> 0, position |-> 0,
          answered |-> {}, asked |-> <<>>, proposals |-> <<>>, stop |-> FALSE]

Init ==
  /\ attempt = 0 /\ state = "idle" /\ stage = "loop" /\ abort = "none"
  /\ turn = Fresh /\ writes = <<>> /\ journal = <<>>
  /\ effects = [t \in Effects |-> [status |-> "absent", causedBy |-> NoId]]
  /\ objects = {} /\ executions = <<>>

Running == state = "running" /\ writes = <<>>

(* RunAbort::reason: a cancellation, or else the deadline.                 *)
Aborting == abort # "none"

-----------------------------------------------------------------------------
(* Objects of the trace are named by content; those of one attempt's turn  *)
(* stand for it.                                                           *)
Object(kind, name) == <<kind, attempt, turn.modelCalls, name>>
Trace(names) == [kind |-> "trace", objects |-> names]
Draft(id, type, payload, needs) ==
  [kind |-> "draft", attempt |-> attempt, id |-> id, type |-> type,
   payload |-> payload, needs |-> needs]

(* tool_call_id: the provider's id, else one made of the place in the      *)
(* batch.                                                                  *)
IdAt(call, index) == IF call.id = NoId THEN <<"call", index>> ELSE call.id
CallId(call) == IdAt(call, turn.index)

(* model, call and result traces are stored before the event that names    *)
(* them.  The id of a call is its event id; a model or a result event gets *)
(* a fresh one.                                                            *)
ModelWrites_EventFirst(message) ==
  <<Draft(NoId, "model", message, {Object("prompt", 0), Object("assistant", 0)}),
    Trace({Object("assistant", 0)})>>
ModelWrites(message) ==
  <<Trace({Object("assistant", 0)}),
    Draft(NoId, "model", message, {Object("prompt", 0), Object("assistant", 0)})>>
CallWrites(call) ==
  <<Trace({Object("call", CallId(call))}),
    Draft(CallId(call), "call", [call |-> CallId(call), tool |-> call.tool],
          {Object("call", CallId(call))})>>
ResultWrites(call, result) ==
  <<Trace({Object("result", CallId(call))}),
    Draft(NoId, "result", [call |-> CallId(call), tool |-> call.tool, result |-> result],
          {Object("result", CallId(call))})>>

(* record_effect: the id and the key of an effect fact name its status and *)
(* the effect, not the attempt.                                            *)
EffectWrite(call, status, result) ==
  Draft(<<status, call.tool>>, "effect",
        [tool |-> call.tool, status |-> status, causedBy |-> CallId(call),
         result |-> result], {})

TerminalStatus(tool, result) ==
  IF result \notin {"error", "aborted"} THEN "completed"
  ELSE IF Kind[tool] = "unsafe" THEN "ambiguous" ELSE "failed"

-----------------------------------------------------------------------------
(* The executor resolves hosts, model, gateway, capabilities and grants,   *)
(* any of which may fail before the run begins.                            *)
Setup == {"running", "failed"}
Begin ==
  /\ state \in {"idle", "failed"} /\ attempt < MaxAttempts
  /\ attempt' = attempt + 1
  /\ state' \in Setup
  /\ UNCHANGED <<stage, abort, turn, writes, journal, effects, objects, executions>>

(* The attempt ends without a result, and what it kept in memory is gone.  *)
Fails ==
  /\ state' = "failed" /\ stage' = "loop" /\ abort' = "none"
  /\ turn' = Fresh /\ writes' = <<>>
  /\ UNCHANGED <<attempt, journal, effects, objects, executions>>

(* abort_run: the fact that the turn failed, then the error.               *)
AbortRun ==
  /\ stage' = "aborting"
  /\ writes' = <<Draft(<<"turn.failed", attempt>>, "failed", abort, {})>>
  /\ UNCHANGED <<attempt, state, abort, turn, journal, effects, objects, executions>>

Aborted ==
  Running /\ stage = "aborting" /\ Fails

(* The result becomes the completion of the attempt, unless the executor   *)
(* cannot clean up or the result does not convert.                         *)
Completed ==
  \/ Fails
  \/ /\ state' = "completed"
     /\ UNCHANGED <<attempt, stage, abort, turn, writes, journal, effects, objects, executions>>

(* The head of the loop, when no tool call is pending.                     *)
AtLimit == turn.modelCalls >= MaxModelCalls
FinishAtLimit ==
  Running /\ stage = "loop" /\ turn.pending = <<>> /\ AtLimit /\ Completed

AbortInLoop ==
  /\ Running /\ stage = "loop" /\ Aborting
  /\ turn.pending # <<>> \/ ~AtLimit
  /\ AbortRun

AskModel ==
  /\ Running /\ stage = "loop" /\ turn.pending = <<>> /\ ~AtLimit /\ ~Aborting
  /\ stage' = "model" /\ writes' = <<Trace({Object("prompt", 0)})>>
  /\ UNCHANGED <<attempt, state, abort, turn, journal, effects, objects, executions>>

(* The model answers.  Only a cancellation drops the answer; a deadline    *)
(* that passed meanwhile is noticed after the message is recorded.         *)
ModelAnswers(message) ==
  /\ Running /\ stage = "model" /\ abort # "cancelled"
  /\ writes' = ModelWrites(message)
  /\ stage' = IF message = <<>> THEN "finish" ELSE "loop"
  /\ turn' = [turn EXCEPT !.modelCalls = @ + 1, !.pending = message, !.index = 0,
                !.asked = @ \o [i \in DOMAIN message |->
                   [id |-> IdAt(message[i], i - 1), tool |-> message[i].tool]]]
  /\ UNCHANGED <<attempt, state, abort, journal, effects, objects, executions>>

AnswerDropped == Running /\ stage = "model" /\ abort = "cancelled" /\ AbortRun

ModelFails ==
  /\ Running /\ stage = "model"
  /\ \/ Aborting /\ AbortRun
     \/ ~Aborting /\ Fails

Finish == Running /\ stage = "finish" /\ Completed

-----------------------------------------------------------------------------
(* One call of the batch.  Its position counts every call, skipped or not. *)
Call == Head(turn.pending)
Advanced == [turn EXCEPT !.pending = Tail(@), !.index = @ + 1, !.position = @ + 1]

(* A call id this run has already answered is not executed again.          *)
SkipAnswered_Retained ==
  /\ Running /\ stage = "loop" /\ turn.pending # <<>> /\ ~Aborting
  /\ \/ CallId(Call) \in turn.answered
     \/ \E n \in DOMAIN journal : journal[n].id = CallId(Call)
  /\ turn' = Advanced
  /\ UNCHANGED <<attempt, state, stage, abort, writes, journal, effects, objects, executions>>
SkipAnswered ==
  /\ Running /\ stage = "loop" /\ turn.pending # <<>> /\ ~Aborting
  /\ CallId(Call) \in turn.answered
  /\ turn' = Advanced
  /\ UNCHANGED <<attempt, state, stage, abort, writes, journal, effects, objects, executions>>

ToProcess ==
  /\ Running /\ stage = "loop" /\ turn.pending # <<>> /\ ~Aborting
  /\ CallId(Call) \notin turn.answered

(* CapabilitySet::validate finds a granted external tool.                  *)
Routed == Call.tool \in DOMAIN Kind /\ External(Call.tool)

(* A refused call, or a control tool: the answer is computed, the proposal *)
(* kept for the completion.  wait_for ends the run.                        *)
ControlResult(tool) ==
  IF tool \notin DOMAIN Kind THEN {"error"} ELSE {"ok", "error"}

Proposal(tool) == [tool |-> tool, position |-> turn.position]

AnswerControl(result) ==
  /\ ToProcess /\ ~Routed
  /\ result \in ControlResult(Call.tool)
  /\ writes' = CallWrites(Call) \o ResultWrites(Call, result)
  /\ stage' = "after"
  /\ turn' = IF result = "ok" /\ Kind[Call.tool] \in {"wait", "publish", "cancel"}
             THEN [turn EXCEPT !.proposals = Append(@, Proposal(Call.tool)),
                               !.stop = Kind[Call.tool] = "wait"]
             ELSE turn
  /\ UNCHANGED <<attempt, state, abort, journal, effects, objects, executions>>

(* An external tool: its effect is planned and started before it is set    *)
(* off.                                                                    *)
PrepareTool ==
  /\ ToProcess /\ Routed
  /\ writes' = CallWrites(Call) \o
       (IF Effectful(Call.tool)
        THEN <<EffectWrite(Call, "planned", ""), EffectWrite(Call, "started", "")>>
        ELSE <<>>)
  /\ stage' = "execute"
  /\ UNCHANGED <<attempt, state, abort, turn, journal, effects, objects, executions>>

ExecuteTool ==
  /\ Running /\ stage = "execute"
  /\ stage' = "executing"
  /\ executions' = Append(executions, [tool |-> Call.tool, attempt |-> attempt,
                                       abort |-> abort])
  /\ UNCHANGED <<attempt, state, abort, turn, writes, journal, effects, objects>>

ToolReturns(result) ==
  /\ Running /\ stage = "executing"
  /\ result = "aborted" => Aborting
  /\ writes' = ResultWrites(Call, result) \o
       (IF Effectful(Call.tool)
        THEN <<EffectWrite(Call, TerminalStatus(Call.tool, result), result)>> ELSE <<>>)
  /\ stage' = "after" /\ turn' = [turn EXCEPT !.stop = result = "stop"]
  /\ UNCHANGED <<attempt, state, abort, journal, effects, objects, executions>>

(* After the result is recorded: cancellation first, then a tool that      *)
(* stops the run, then the next call.                                      *)
AfterCall ==
  /\ Running /\ stage = "after"
  /\ \/ Aborting /\ AbortRun
     \/ ~Aborting /\ turn.stop /\ Completed
     \/ /\ ~Aborting /\ ~turn.stop
        /\ stage' = "loop" /\ turn' = Advanced
        /\ UNCHANGED <<attempt, state, abort, writes, journal, effects, objects, executions>>

-----------------------------------------------------------------------------
(* The actor's answer to a write: a retained id with the same payload is   *)
(* answered with the retained event, with another payload it is refused.   *)
(* A payload does not hold causedBy.                                       *)
SameFact(e, w) ==
  /\ e.type = w.type
  /\ IF w.type = "effect" THEN e.payload.result = w.payload.result
     ELSE e.payload = w.payload
Retained(w) == {n \in DOMAIN journal : w.id # NoId /\ journal[n].id = w.id}

(* index_effect: the transition and the identity of the effect, its cause  *)
(* included, must fit the row.                                             *)
EffectFits(p) ==
  LET row == effects[p.tool] IN
  \/ p.status = "planned" /\ row.status = "absent"
  \/ /\ row.causedBy = p.causedBy
     /\ \/ p.status = "started" /\ row.status \in {"planned", "failed"}
        \/ p.status \in {"completed", "failed", "ambiguous"} /\ row.status = "started"

Fits(w) == w.type = "effect" => EffectFits(w.payload)

RecordTrace ==
  /\ state = "running" /\ writes # <<>> /\ Head(writes).kind = "trace"
  /\ objects' = objects \union Head(writes).objects
  /\ writes' = Tail(writes)
  /\ UNCHANGED <<attempt, state, stage, abort, turn, journal, effects, executions>>

Answered(w) ==
  IF w.type = "result" THEN [turn EXCEPT !.answered = @ \union {w.payload.call}] ELSE turn

RecordDraft ==
  /\ state = "running" /\ writes # <<>> /\ Head(writes).kind = "draft"
  /\ LET w == Head(writes) IN
     /\ turn' = Answered(w) /\ writes' = Tail(writes)
     /\ \/ /\ \E n \in Retained(w) : SameFact(journal[n], w)
           /\ UNCHANGED <<journal, effects>>
        \/ /\ Retained(w) = {} /\ Fits(w)
           /\ journal' = Append(journal, w)
           /\ effects' = IF w.type # "effect" THEN effects
                         ELSE [effects EXCEPT ![w.payload.tool] =
                                 [status |-> w.payload.status,
                                  causedBy |-> w.payload.causedBy]]
  /\ UNCHANGED <<attempt, state, stage, abort, objects, executions>>

(* A refused write, or one the actor cannot make, fails the run.           *)
WriteRefused == state = "running" /\ writes # <<>> /\ Fails

-----------------------------------------------------------------------------
(* The actor cancels the token, or the deadline of the invocation passes.  *)
Cancel ==
  /\ state = "running" /\ abort # "cancelled"
  /\ abort' = "cancelled"
  /\ UNCHANGED <<attempt, state, stage, turn, writes, journal, effects, objects, executions>>

DeadlinePasses ==
  /\ state = "running" /\ abort = "none"
  /\ abort' = "deadline_exceeded"
  /\ UNCHANGED <<attempt, state, stage, turn, writes, journal, effects, objects, executions>>

(* The process ends, or the lease of the attempt does.                     *)
Crash == state = "running" /\ Fails

RunStep ==
  \/ Aborted \/ FinishAtLimit \/ AbortInLoop \/ AskModel
  \/ \E message \in Messages : ModelAnswers(message)
  \/ AnswerDropped \/ ModelFails \/ Finish \/ SkipAnswered
  \/ \E result \in {"ok", "error"} : AnswerControl(result)
  \/ PrepareTool \/ ExecuteTool
  \/ \E result \in Results : ToolReturns(result)
  \/ AfterCall \/ RecordTrace \/ RecordDraft

Next == Begin \/ RunStep \/ WriteRefused \/ Cancel \/ DeadlinePasses \/ Crash

Spec == Init /\ [][Next]_vars

(* The worker thread runs on, models and tools return, and the actor       *)
(* answers every write, with a refusal if need be.                         *)
FairSpec == Spec /\ WF_vars(RunStep) /\ WF_vars(WriteRefused)

-----------------------------------------------------------------------------
TypeOK ==
  /\ attempt \in 0..MaxAttempts
  /\ state \in {"idle", "running", "completed", "failed"}
  /\ stage \in {"loop", "model", "execute", "executing", "after", "aborting", "finish"}
  /\ abort \in {"none", "cancelled", "deadline_exceeded"}
  /\ turn.modelCalls \in 0..MaxModelCalls /\ turn.index <= turn.position
  /\ \A t \in Effects : effects[t].status \in
       {"absent", "planned", "started", "completed", "failed", "ambiguous"}

(* A tool with an effect is set off only when the journal says its effect  *)
(* was started: what the outside world saw, a later attempt can find.      *)
StartedBeforeExecuted ==
  \A i \in DOMAIN executions :
    Effectful(executions[i].tool) =>
      effects[executions[i].tool].status \notin {"absent", "planned"}

ResultsOf(id) ==
  {n \in DOMAIN journal : /\ journal[n].type = "result" /\ journal[n].attempt = attempt
                          /\ journal[n].payload.call = id}

(* A batch is done, and the model asked again, only when every call of the *)
(* run so far has one result under its id, whatever earlier attempts left  *)
(* in the journal; and that result is of the call which used the id first. *)
(* A later call under the same id is passed over and has no result of its  *)
(* own: that befalls a call without an id when an earlier turn had one     *)
(* without an id at its place.                                             *)
CallsAreAnswered ==
  Running /\ stage \in {"loop", "model"} /\ turn.pending = <<>> =>
    \A i \in DOMAIN turn.asked :
      LET call == turn.asked[i]
          first == SelectInSeq(turn.asked, LAMBDA c : c.id = call.id) IN
      /\ Cardinality(ResultsOf(call.id)) = 1
      /\ \A n \in ResultsOf(call.id) : journal[n].payload.tool = turn.asked[first].tool

(* After a cancellation or the deadline a run sets off at most the tool it *)
(* was already committed to, and no other.                                 *)
AbortStopsTools ==
  \A i, j \in DOMAIN executions :
    i < j /\ executions[i].attempt = executions[j].attempt
      => executions[i].abort = "none"

(* An event never names a trace object that is not retained, wherever the  *)
(* process ends.                                                           *)
TraceBeforeEvent ==
  \A n \in DOMAIN journal : journal[n].needs \subseteq objects

(* Every run ends: by an answer, a stop, the limit, an abort or an error.  *)
RunEnds == []<>(state # "running")

BeginsWithoutUnsafeEffects ==
  state' = "running" /\ attempt' # attempt =>
    \A t \in Effects : Kind[t] = "unsafe" =>
      effects[t].status \notin {"started", "ambiguous"}

(* The documented rule that an unsafe effect which is started or ambiguous *)
(* ends the queue item: no later attempt invokes the agent.                *)
UnsafeEffectStopsRetry == [][BeginsWithoutUnsafeEffects]_vars

(* The documented rule that repeating an idempotent operation is safe: the *)
(* fact that reports its result is never refused.                          *)
IdempotentEffectMayRepeat ==
  writes # <<>> =>
    LET w == Head(writes) IN
    w.kind = "draft" /\ w.type = "effect" /\ Kind[w.payload.tool] = "idempotent" =>
      \/ Retained(w) = {} /\ Fits(w)
      \/ \E n \in Retained(w) : SameFact(journal[n], w)
=============================================================================
