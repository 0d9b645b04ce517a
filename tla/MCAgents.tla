------------------------------ MODULE MCAgents ------------------------------
(***************************************************************************)
(* Agents, and what travels between processes, on small instances for TLC: *)
(* the run of an agent, the host of its provider, the stream of its model, *)
(* its file tools, the terminal client, the IPC session between two ends,  *)
(* its framing, a connection of the local socket, and the commands that    *)
(* start, stop and probe the process behind it.  A behaviour exercises the *)
(* one that `part' names, and the others stay as they start; a component   *)
(* that is asked two questions appears under two parts.  The constants of  *)
(* the module itself are those of the commands.                            *)
(***************************************************************************)
EXTENDS RuntimeOwner, Sequences, SequencesExt, TLC

CONSTANTS
  NoId,
  u1, u2, d1, q1, \* processes that run up, down and status
  w1, w2,        \* worker threads
  i1, i2         \* request identifiers

VARIABLES
  part,
  attempt, state, stage, abort, turn, writes, journal, effects, objects, executions,
  registered, holder, phase, worker, process, requested, answered, starts, running, sandboxes,
  source, arrived, generating, now, deadline, received, sse, answer, shown, raised,
  outcome, message,
  files, seen, call, editing, changes, todo, diff, report, touched, disturbed, previous,
  calls, others,
  log, broadcast, connection, requests, answers, pending, refreshes, replay, repair, view,
  mode, sessions, draft, submissions, known, cursor, texts, sent, breaks,
  session, channel, faults, asked, resolved, foreign,
  stream, input, buffer, eof, discarding, frames, ended,
  written, wire, available, line, overlong, initialized, status, stopping, replies, events

runnerVars == <<attempt, state, stage, abort, turn, writes, journal, effects, objects, executions>>
hostVars == <<registered, holder, phase, worker, process, requested, answered, starts, running,
              sandboxes>>
modelVars == <<source, arrived, generating, now, deadline, received, sse, answer, shown,
               raised, outcome, message>>
editVars == <<files, seen, call, editing, changes, todo, diff, report, touched, disturbed,
              previous, calls, others>>
terminalVars == <<log, broadcast, connection, requests, answers, pending, refreshes, replay,
                  repair, view, mode, sessions, draft, submissions, known, cursor, texts,
                  sent, breaks>>
ipcVars == <<session, channel, faults, asked, resolved, foreign>>
frameVars == <<stream, input, buffer, eof, discarding, frames, ended>>
socketVars == <<written, wire, available, line, overlong, initialized, status, stopping,
                replies, events>>
runVars == <<runnerVars, hostVars, modelVars, editVars>>
wireVars == <<terminalVars, ipcVars, frameVars, socketVars>>
agentsVars == <<part, runVars, wireVars, vars>>
-----------------------------------------------------------------------------
(* A run that may be tried again: messages that call an unsafe tool and an *)
(* idempotent one, and one that waits before it publishes.                 *)
Call(id, tool) == [id |-> id, tool |-> tool]
Kind == [bash |-> "unsafe", write |-> "idempotent",
         wait_for |-> "wait", publish_event |-> "publish"]
Messages ==
  {<<>>,
   <<Call(NoId, "bash"), Call(<<"a", 0>>, "write")>>,
   <<Call(NoId, "ls"), Call(<<"b", 0>>, "wait_for"), Call(<<"c", 0>>, "publish_event")>>}
Results == {"ok", "error", "aborted"}
Runner == INSTANCE AgentRunner WITH MaxModelCalls <- 1, MaxAttempts <- 2

(* Two turns of one run whose calls repeat their ids.                      *)
TurnMessages ==
  {<<>>, <<Call(NoId, "ls"), Call(<<"a", 0>>, "write")>>, <<Call(<<"a", 0>>, "bash")>>}
Turns == INSTANCE AgentRunner WITH
  Messages <- TurnMessages, MaxModelCalls <- 2, MaxAttempts <- 2

(* Two workers that share a provider host, one with a sandbox per call.    *)
Reuse == [w \in {w1, w2} |-> IF w = w1 THEN "call" ELSE "session"]
Host == INSTANCE ProviderHost WITH
  Workers <- {w1, w2}, MaxCalls <- 2, MaxStarts <- 2, Faults <- TRUE
-----------------------------------------------------------------------------
(* Streams of both protocols: complete, cut off, refused halfway, with     *)
(* calls out of order, two kinds of line end and an overlong event.        *)
Meaning ==
  [hello |-> [kind |-> "text", text |-> "hello"],
   think |-> [kind |-> "reasoning", text |-> "think"],
   open0 |-> [kind |-> "call", index |-> 0, id |-> <<"c", 0>>, args |-> <<"x">>],
   open1 |-> [kind |-> "call", index |-> 1, id |-> None, args |-> <<"y">>],
   more0 |-> [kind |-> "call", index |-> 0, id |-> None, args |-> <<"z">>],
   usage |-> [kind |-> "usage"], bare |-> [kind |-> "no choices"],
   other |-> [kind |-> "other choice"], error |-> [kind |-> "error"],
   message |-> [kind |-> "message", texts |-> <<"hello">>],
   final |-> [kind |-> "message", texts |-> <<"final">>],
   call |-> [kind |-> "function_call", id |-> <<"c", 0>>, args |-> <<"x">>],
   completed |-> [kind |-> "completed"]]
Data(e) == <<"data", e, "newline", "newline">>
Chat(t) == [protocol |-> "chat", text |-> t]
Responses(t) == [protocol |-> "responses", text |-> t]
ModelStreams ==
  {Chat(Data("hello") \o Data("usage") \o Data("[DONE]")),
   Chat(Data("open1") \o Data("open0") \o Data("more0") \o Data("[DONE]")),
   Chat(<<"data", "hello", "return", "newline", "return", "newline", ":", "newline",
          "data", "[DONE]">>),
   Chat(Data("bare") \o Data("think")),
   Chat(Data("think") \o Data("other") \o Data("error")),
   Chat(<<"data", "hello", "newline">> \o Data("hello") \o Data("[DONE]")),
   Chat(<<"data", "hello", "hello", "hello", "hello", "newline">>),
   Chat(Data("bad")),
   Responses(Data("think") \o Data("hello") \o Data("message") \o Data("completed")),
   Responses(Data("hello") \o Data("final") \o Data("completed")),
   Responses(Data("call") \o Data("completed") \o Data("[DONE]") \o Data("error")),
   Responses(Data("hello") \o Data("error"))}
Model == INSTANCE ModelStream WITH
  stream <- source, sent <- arrived, stage <- generating, abort <- raised, result <- outcome,
  Streams <- ModelStreams, First <- 3, Idle <- 2, Total <- 5, MaxEvent <- 4
-----------------------------------------------------------------------------
(* Edits of one text, of up to two operations or hunks.                    *)
a == 97
b == 98
NL == 10
A == <<a, NL>>
B == <<b, NL>>
ThreeLines == {<<>>, A, A \o B, A \o <<b>>, A \o B \o A, B \o B \o A}
Op(kind, start, end, body) == [kind |-> kind, start |-> start, end |-> end, body |-> body]
Ranges == {range \in (1..3) \X (1..3) : range[1] <= range[2]} \cup {<<2, 1>>}
Operations ==
  {Op("SWAP", range[1], range[2], body) : range \in Ranges, body \in {<<A>>, <<B, A>>}}
    \cup {Op("DEL", range[1], range[2], <<>>) : range \in Ranges}
    \cup {Op(kind, s, s, <<B>>) : kind \in {"INS.PRE", "INS.POST"}, s \in 0..3}
Hash(operations) == [tool |-> "hashline", path |-> "f", operations |-> operations]
Exact(path, old, new) == [tool |-> "exact", path |-> path, old |-> old, new |-> new]
Write(path, text) == [tool |-> "write", path |-> path, text |-> text]
Line(sign, c) == [sign |-> sign, text |-> <<c>>]
Hunk(context, lines, eof_) == [context |-> context, lines |-> lines, eof |-> eof_]
Section(kind, path, text, hunks, move, malformed) ==
  [kind |-> kind, path |-> path, text |-> text, hunks |-> hunks, move |-> move,
   malformed |-> malformed]
Update(path, hunks, move) == Section("update", path, <<>>, hunks, move, FALSE)
Patch(sections) == [tool |-> "patch", sections |-> sections]
Hunks ==
  {Hunk(c, lines, e) : c \in {<<>>, <<a>>}, e \in BOOLEAN,
     lines \in {<<Line("-", a), Line("+", b)>>, <<Line("-", a), Line("+", a), Line("+", b)>>,
                <<Line(" ", b), Line("+", a)>>, <<Line("+", a), Line("+", b)>>,
                <<Line("-", b), Line("-", a)>>}}
TextCalls ==
  {Hash(<<o>>) : o \in Operations} \cup {Hash(<<o, q>>) : o, q \in Operations}
    \cup {Exact("f", old, new) : old \in {<<a>>, <<b>>, <<NL, b>>}, new \in {<<>>, <<a, b>>, B}}
    \cup {Patch(<<Update("f", <<h>>, None)>>) : h \in Hunks}
    \cup {Patch(<<Update("f", <<h, i>>, None)>>) : h, i \in Hunks}
EditTexts == INSTANCE EditTools WITH
  stage <- editing, result <- report,
  Paths <- {"f"}, Orphans <- {}, Contents <- ThreeLines, Calls <- TextCalls,
  Context <- 1, Faults <- FALSE, MaxCalls <- 1, MaxOther <- 0

(* Patches of up to two sections over three files, one of them in a        *)
(* directory that does not exist; writes fail and others change files.     *)
FixA == <<Hunk(<<>>, <<Line("-", a), Line("+", b)>>, FALSE)>>
FixB == <<Hunk(<<>>, <<Line("-", b), Line("+", a)>>, FALSE)>>
Sections ==
  {Update("f", FixA, None), Update("f", FixB, None), Update("f", FixA, "g"),
   Update("g", FixA, None),
   Section("add", "g", A, <<>>, None, FALSE), Section("add", "f", B, <<>>, None, TRUE),
   Section("add", "o", B, <<>>, None, FALSE), Section("add", "..", B, <<>>, None, FALSE),
   Section("delete", "f", <<>>, <<>>, None, FALSE),
   Section("delete", "g", <<>>, <<>>, None, FALSE)}
FileCalls ==
  {Patch(<<>>)} \cup {Patch(<<s>>) : s \in Sections} \cup {Patch(<<s, t>>) : s, t \in Sections}
    \cup {Hash(<<Op("DEL", 1, 1, <<>>)>>), Exact("f", <<a>>, <<a, b>>), Exact("g", <<b>>, <<a>>),
          Write("f", B), Write("o", B)}
EditFiles == INSTANCE EditTools WITH
  stage <- editing, result <- report,
  Paths <- {"f", "g", "o"}, Orphans <- {"o"}, Contents <- {A, A \o B}, Calls <- FileCalls,
  Context <- 1, Faults <- TRUE, MaxCalls <- 1, MaxOther <- 1
-----------------------------------------------------------------------------
(* A terminal that sends two drafts, or one draft again, while an event of *)
(* the runtime itself arrives, or that only follows three events; the      *)
(* connection is lost once.                                                *)
Drafts == INSTANCE TerminalClient WITH
  PageSize <- 1, MaxTexts <- 2, MaxSent <- 2, MaxEvents <- 0, MaxBreaks <- 1
Following == INSTANCE TerminalClient WITH
  PageSize <- 1, MaxTexts <- 1, MaxSent <- 2, MaxEvents <- 1, MaxBreaks <- 1
Gaps == INSTANCE TerminalClient WITH
  PageSize <- 1, MaxTexts <- 0, MaxSent <- 2, MaxEvents <- 3, MaxBreaks <- 1

(* Two ends of this implementation; and one end with a foreign peer.       *)
Ends == INSTANCE IpcSession WITH
  sent <- asked,
  Ids <- {i1, i2}, PeerRoles <- {"client", "provider"},
  SupportedRoles <- {"source", "client", "provider"},
  PeerLimit <- 1, RuntimeLimit <- 2, Supervisor <- "peer",
  ForeignMessages <- {}, MaxForeign <- 0, MaxSent <- 3, MaxQueued <- 2
ForeignMessages ==
  {Ends!Request(i1, method, params) :
     method \in {"initialize", "ping", "shutdown", "events.list", "unknown"},
     params \in {"valid", "invalid"}}
  \cup {Ends!Request(i1, "initialize", "another version"), Ends!Request(i2, "events.list", "valid"),
        Ends!Success(i1, TRUE), Ends!Success(i1, FALSE),
        Ends!Error(i1, "foreign"), Ends!Error(None, "foreign"),
        Ends!Notification("event"), Ends!Notification("model.observation")}
Foreign == INSTANCE IpcSession WITH
  sent <- asked,
  Ids <- {i1, i2}, PeerRoles <- {"client", "provider"},
  SupportedRoles <- {"source", "client", "provider"},
  PeerLimit <- 2, RuntimeLimit <- 1, Supervisor <- None,
  MaxForeign <- 2, MaxSent <- 1, MaxQueued <- 1

ByteStreams == BoundedSeq({"data", "return", "newline"}, 6)
Frames == INSTANCE FrameReader WITH MaxFrameBytes <- 2, Streams <- ByteStreams

Kinds == {"initialize", "list", "shutdown", "oversized"}
Application == INSTANCE LocalConnection WITH
  Purpose <- "application", MaxRequests <- 3, MaxEvents <- 1
Control == INSTANCE LocalConnection WITH
  Purpose <- "control", MaxRequests <- 3, MaxEvents <- 1
-----------------------------------------------------------------------------
AgentsInit ==
  /\ part \in {"runner", "turns", "host", "model", "edit texts", "edit files", "drafts",
              "following", "gaps", "ends", "foreign", "frames", "application", "control", "owner"}
  /\ Runner!Init /\ Host!Init
  /\ Model!Init
  /\ part = "model" \/ source = Responses(Data("hello") \o Data("error"))
  /\ IF part = "edit files" THEN EditFiles!Init ELSE EditTexts!Init
  /\ part \in {"edit texts", "edit files"} \/ files = [f |-> None]
  /\ Drafts!Init
  /\ IF part = "foreign" THEN Foreign!Init ELSE Ends!Init
  /\ Frames!Init
  /\ part = "frames" \/ stream = <<>>
  /\ Application!Init
  /\ Init

RunnerNext == part = "runner" /\ Runner!Next
TurnsNext == part = "turns" /\ Turns!Next
HostNext == part = "host" /\ Host!Next
ModelNext == part = "model" /\ Model!Next
EditTextsNext == part = "edit texts" /\ EditTexts!Next
EditFilesNext == part = "edit files" /\ EditFiles!Next
DraftsNext == part = "drafts" /\ Drafts!Next
FollowingNext == part = "following" /\ Following!Next
GapsNext == part = "gaps" /\ Gaps!Next
EndsNext == part = "ends" /\ Ends!Next
ForeignNext == part = "foreign" /\ Foreign!Next
FramesNext == part = "frames" /\ Frames!Next
ApplicationNext == part = "application" /\ Application!Next
ControlNext == part = "control" /\ Control!Next
(* Any three of the four commands run beside each other.                   *)
Unbegun(p) == pc'[p] = IF p \in Ups THEN "acquire" ELSE "probe"
OwnerNext == part = "owner" /\ Next /\ \E p \in Processes : Unbegun(p)

AgentsNext ==
  \/ /\ RunnerNext \/ TurnsNext
     /\ UNCHANGED <<part, hostVars, modelVars, editVars, wireVars, vars>>
  \/ HostNext /\ UNCHANGED <<part, runnerVars, modelVars, editVars, wireVars, vars>>
  \/ ModelNext /\ UNCHANGED <<part, runnerVars, hostVars, editVars, wireVars, vars>>
  \/ /\ EditTextsNext \/ EditFilesNext
     /\ UNCHANGED <<part, runnerVars, hostVars, modelVars, wireVars, vars>>
  \/ /\ DraftsNext \/ FollowingNext \/ GapsNext
     /\ UNCHANGED <<part, runVars, ipcVars, frameVars, socketVars, vars>>
  \/ /\ EndsNext \/ ForeignNext
     /\ UNCHANGED <<part, runVars, terminalVars, frameVars, socketVars, vars>>
  \/ /\ FramesNext
     /\ UNCHANGED <<part, runVars, terminalVars, ipcVars, socketVars, vars>>
  \/ /\ ApplicationNext \/ ControlNext
     /\ UNCHANGED <<part, runVars, terminalVars, ipcVars, frameVars, vars>>
  \/ OwnerNext /\ UNCHANGED <<part, runVars, wireVars>>

AgentsSpec == AgentsInit /\ [][AgentsNext]_agentsVars
-----------------------------------------------------------------------------
(* What others see is recorded first, wherever the process ends: a tool    *)
(* with an effect is set off only when the journal says its effect was     *)
(* started, and an event never names a trace object that is not retained.  *)
RecordedBeforeSeen ==
  part \in {"runner", "turns"} => Runner!StartedBeforeExecuted /\ Runner!TraceBeforeEvent

(* A batch is done, and the model asked again, only when every call of the *)
(* run so far has one result under its id, of the call that used the id    *)
(* first, whatever earlier attempts left in the journal (a later call      *)
(* under the same id is passed over and has none of its own); and after an *)
(* abort a run sets off at most the tool it was already committed to.      *)
CallsAreAnswered ==
  part \in {"runner", "turns"} => Runner!CallsAreAnswered /\ Runner!AbortStopsTools

(* What runtime-semantics.md promises of an effect that is unsafe to       *)
(* retry: once it is started or ambiguous, no later attempt invokes the    *)
(* agent.  The runner does not ask blocking_unsafe_effect.                 *)
UnsafeEffectStopsRetry == [][part = "runner" => Runner!BeginsWithoutUnsafeEffects]_agentsVars

(* Two workers share a provider host without mixing or leaking anything:   *)
(* an answer in the channel belongs to the call that waits, the process    *)
(* the host refers to is the only one that runs, and a sandbox that can    *)
(* still be closed has its handle with the worker that opened it.          *)
HostIsShared ==
  part = "host" => Host!RepliesMatch /\ Host!OneProcess /\ Host!SandboxIsHeld

(* The answer is what parse_sse_lines makes of the whole text, wherever    *)
(* the transport cut it; a listener saw every delta once and in order, and *)
(* they are the text unless the server also sent whole messages; and a     *)
(* stream that was cut off is never taken for an answer.                   *)
AnswersAreFaithful ==
  part = "model" =>
    Model!ChunksDoNotMatter /\ Model!ShownIsStreamed /\ Model!OnlyCompleteAnswers

(* Interleaved fragments of parallel tool calls end up in the call they    *)
(* belong to, and in the next request every output of a tool stands behind *)
(* the call it answers.                                                    *)
CallsAreAssembled ==
  part = "model" => Model!CallsAreAssembled /\ Model!OutputsFollowCalls

(* A call refused for what it asks has changed no file; a patch that is    *)
(* answered "ok", while nobody else changed a file, left every file as its *)
(* own section said and every other file alone.                            *)
PatchesAreAllOrNothing ==
  part = "edit files" =>
    EditFiles!RefusedCallsChangeNothing /\ EditFiles!AppliedPatchIsComplete

(* An edit does what its author saw: a tagged edit overwrites the text its *)
(* tag was read from, unless others change the file while the tool works;  *)
(* line operations that are apart do not shift each other; no hunk         *)
(* rewrites what an earlier hunk has put there; and the diff kept of an    *)
(* edit leads from the old file to the new one.                            *)
EditsMeanWhatWasSeen ==
  /\ part = "edit files" => EditFiles!TagsGroundEdits
  /\ part = "edit texts" =>
       /\ EditTexts!LineOperationsAreSimultaneous /\ EditTexts!HunksRewriteInOrder
       /\ EditTexts!DiffsDescribeEdits

(* A lost connection loses nothing: a message being sent has a request     *)
(* under way or is to be sent again, never both, and is gone once its      *)
(* event is shown; and the events shown up to the cursor have no gap.      *)
TerminalLosesNothing ==
  /\ part = "drafts" =>
       /\ Drafts!UnresolvedMessagesAreKept /\ Drafts!MessagesAreShownOnce
       /\ Drafts!NothingIsSkipped
  /\ part = "following" =>
       /\ Following!UnresolvedMessagesAreKept /\ Following!MessagesAreShownOnce
       /\ Following!NothingIsSkipped
  /\ part = "gaps" => Gaps!NothingIsSkipped

(* Two ends of this implementation never accuse each other, and a request  *)
(* one of them handles is one the other awaits, whatever the interleaving  *)
(* of requests, answers, events, heartbeats and shutdown; no request is    *)
(* lost or resolved twice; with a foreign end, no more requests are        *)
(* handled than were negotiated.                                           *)
EndsAgree ==
  /\ part = "ends" =>
       /\ Ends!ConformingEndsAgree /\ Ends!HandledIsAwaited
       /\ Ends!RequestsAreConserved
  /\ part = "foreign" => Foreign!WindowHolds

(* Chunking is invisible: however the bytes are cut, the frames are the    *)
(* lines of the stream in order, the overlong ones reported once each and  *)
(* never swallowing the line after them.                                   *)
FramesAreLines == part = "frames" => Frames!FramesAreLines

(* Answers on a socket come in the order of the requests, one each, and a  *)
(* request that reached the runtime whole is answered as long as no        *)
(* notification cancels the read it is in.                                 *)
RequestsAreAnswered ==
  /\ part = "application" =>
       Application!AnswersInOrder /\ Application!UndisturbedRequestIsAnswered
  /\ part = "control" => Control!AnswersInOrder /\ Control!UndisturbedRequestIsAnswered
=============================================================================
