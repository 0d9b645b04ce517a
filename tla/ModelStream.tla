---------------------------- MODULE ModelStream -----------------------------
(***************************************************************************)
(* One streamed model request (crates/zeta-agent/src/model): the HTTP      *)
(* gateway waits for bytes under three time bounds and a cancellation, the *)
(* SSE decoder cuts them into frames, and the decoder of the protocol puts *)
(* the answer together while its pieces are shown.                         *)
(*                                                                         *)
(* The server's text is a sequence of symbols: the line ends, the prefix   *)
(* of a data line, a colon, an undecodable byte, and the names of whole    *)
(* JSON events, whose Meaning is a record.  Every symbol counts one byte.  *)
(*                                                                         *)
(* A definition named X_Y is X with a plausible mistake Y; it is never     *)
(* used by the specification.                                              *)
(***************************************************************************)
EXTENDS Naturals, Sequences, FiniteSets, SequencesExt

CONSTANTS
  Streams,     \* the texts a server may send: [protocol, text]
  Meaning,     \* event name -> record
  First, Idle, Total,  \* ModelTransportTimeouts
  MaxEvent,    \* max_sse_event_bytes
  None

VARIABLES
  stream,      \* protocol and text of the server that answers
  sent,        \* symbols of it received so far
  stage,       \* start, connecting, refused, streaming or ended
  now, deadline,  \* time since the request; end of the current wait
  received,    \* received_output
  sse,         \* SseByteDecoder
  answer,      \* accumulator of the protocol
  shown,       \* observations forwarded
  abort,       \* the abort signal is raised
  result, message  \* None, "answer" with the model output, "error" or "aborted"

vars == <<stream, sent, stage, now, deadline, received, sse, answer, shown, abort, result, message>>

-----------------------------------------------------------------------------
(* SseByteDecoder                                                          *)
NoFrames == [line |-> <<>>, data |-> <<>>, size |-> 0, frames |-> <<>>, failed |-> FALSE]

Joined(values) ==
  FoldLeft(LAMBDA text, v : IF text = <<>> THEN v ELSE text \o <<"newline">> \o v, <<>>, values)

PushFrame(s) ==
  IF s.data = <<>> THEN s
  ELSE [s EXCEPT !.frames = Append(@, Joined(s.data)), !.data = <<>>, !.size = 0]

WithoutReturn(line) ==
  IF line # <<>> /\ Last(line) = "return" THEN Front(line) ELSE line

FinishLine(s) ==
  LET line == WithoutReturn(s.line)
      size == s.size + (IF s.data = <<>> THEN 0 ELSE 1) + Len(line) - 1
      rest == [s EXCEPT !.line = <<>>] IN
  IF Contains(line, "bad") THEN [rest EXCEPT !.failed = TRUE]
  ELSE IF line = <<>> THEN PushFrame(rest)
  ELSE IF Head(line) # "data" THEN rest
  ELSE IF size > MaxEvent THEN [rest EXCEPT !.failed = TRUE]
  ELSE [rest EXCEPT !.data = Append(@, Tail(line)), !.size = size]

PushByte(s, byte) ==
  IF s.failed THEN s
  ELSE IF byte = "newline" THEN FinishLine(s)
  ELSE [s EXCEPT !.line = Append(@, byte), !.failed = Len(s.line) >= MaxEvent]

Push_DropsPartialLine(s, chunk) == FoldLeft(PushByte, [s EXCEPT !.line = <<>>], chunk)
Push(s, chunk) == FoldLeft(PushByte, s, chunk)

FinishSse(s) == PushFrame(IF s.line = <<>> THEN s ELSE FinishLine(s))

-----------------------------------------------------------------------------
(* The accumulators of both protocols.  Text is a sequence of fragments.   *)
Empty == [text |-> <<>>, reasoning |-> <<>>, calls |-> <<>>, items |-> <<>>,
          usage |-> FALSE, seen |-> FALSE, status |-> None, done |-> FALSE,
          failed |-> FALSE, news |-> <<>>]

AddText(a, text) == [a EXCEPT !.text = Append(@, text), !.news = Append(@, <<"text", text>>)]
AddReasoning(a, text) ==
  [a EXCEPT !.reasoning = Append(@, text), !.news = Append(@, <<"reasoning", text>>)]

(* add_tool_calls: the fragments of a call are found by its index; an id   *)
(* that a fragment names replaces the earlier one.                         *)
AddCall_Last(a, e) ==
  LET calls == a.calls IN
  IF calls = <<>> \/ (e.id # None /\ calls[Len(calls)].id # None)
  THEN [a EXCEPT !.calls = Append(@, [index |-> e.index, id |-> e.id, args |-> e.args])]
  ELSE [a EXCEPT !.calls[Len(calls)].args = @ \o e.args]
AddCall(a, e) ==
  LET at == SelectInSeq(a.calls, LAMBDA c : c.index = e.index)
      before == Len(SelectSeq(a.calls, LAMBDA c : c.index < e.index)) IN
  IF at = 0
  THEN [a EXCEPT !.calls = InsertAt(@, before + 1,
                             [index |-> e.index, id |-> e.id, args |-> e.args])]
  ELSE [a EXCEPT !.calls[at] = [@ EXCEPT !.id = IF e.id = None THEN @ ELSE e.id,
                                         !.args = @ \o e.args]]

(* add_chunk.  A chunk may lack choices once usage has been reported; a    *)
(* choice other than the first is passed over.                             *)
ChatEvent(a, e) ==
  CASE e.kind = "text" -> AddText([a EXCEPT !.seen = TRUE], e.text)
    [] e.kind = "reasoning" -> AddReasoning([a EXCEPT !.seen = TRUE], e.text)
    [] e.kind = "call" -> AddCall([a EXCEPT !.seen = TRUE], e)
    [] e.kind = "usage" -> [a EXCEPT !.usage = TRUE]
    [] e.kind = "other choice" -> a
    [] e.kind = "no choices" -> [a EXCEPT !.failed = ~a.usage]
    [] OTHER -> [a EXCEPT !.failed = TRUE]

(* add_event.  A kind that is not listed is ignored.                       *)
ResponsesEvent(a, e) ==
  CASE e.kind = "text" -> AddText(a, e.text)
    [] e.kind = "reasoning" -> AddReasoning(a, e.text)
    [] e.kind = "message" -> [a EXCEPT !.items = Append(@, e)]
    [] e.kind = "function_call" ->
         [a EXCEPT !.items = Append(@, e),
                   !.calls = Append(@, [index |-> Len(a.calls), id |-> e.id, args |-> e.args])]
    [] e.kind \in {"completed", "incomplete"} -> [a EXCEPT !.status = e.kind]
    [] e.kind \in {"error", "failed"} -> [a EXCEPT !.failed = TRUE]
    [] OTHER -> a

(* push_frame of either decoder: nothing counts after [DONE], and a frame  *)
(* that is not one JSON object is an error.                                *)
PushEvent(protocol, a, frame) ==
  IF a.done \/ a.failed THEN a
  ELSE IF frame = <<"[DONE]">> THEN [a EXCEPT !.done = TRUE]
  ELSE IF Len(frame) # 1 \/ frame[1] \notin DOMAIN Meaning THEN [a EXCEPT !.failed = TRUE]
  ELSE IF protocol = "chat" THEN ChatEvent(a, Meaning[frame[1]])
  ELSE ResponsesEvent(a, Meaning[frame[1]])

PushFrames(protocol, a, frames) ==
  FoldLeft(LAMBDA acc, f : PushEvent(protocol, acc, f), a, frames)

(* finish and response, then model_output.                                 *)
CompleteAnswer(protocol, a) ==
  IF protocol = "chat" THEN a.done /\ a.seen ELSE a.status # None

CallId(call) == IF call.id = None THEN <<"call", call.index>> ELSE call.id

Message(a) ==
  LET written == FlattenSeq([n \in DOMAIN a.items |->
                   IF a.items[n].kind = "message" THEN a.items[n].texts ELSE <<>>]) IN
  [text |-> IF written = <<>> THEN a.text ELSE written,
   reasoning |-> a.reasoning,
   calls |-> [n \in DOMAIN a.calls |-> [id |-> CallId(a.calls[n]), args |-> a.calls[n].args]],
   items |-> a.items]

-----------------------------------------------------------------------------
(* HttpModelGateway                                                        *)
Init ==
  /\ stream \in Streams /\ sent = 0 /\ stage = "start"
  /\ now = 0 /\ deadline = 0 /\ received = FALSE
  /\ sse = NoFrames /\ answer = Empty /\ shown = <<>>
  /\ abort = FALSE /\ result = None /\ message = None

EndWith(r) ==
  /\ stage' = "ended" /\ result' = r
  /\ UNCHANGED <<stream, sent, now, deadline, received, sse, answer, shown, abort, message>>

(* generate: the request is built and sent; wait_for begins.               *)
Generate ==
  /\ stage = "start"
  /\ \/ EndWith("error")
     \/ abort /\ EndWith("aborted")
     \/ /\ ~abort
        /\ stage' = "connecting" /\ deadline' = now + First
        /\ UNCHANGED <<stream, sent, now, received, sse, answer, shown, abort, result, message>>

Wait == IF received THEN now + Idle ELSE First

(* The headers arrive.  What is left of the first bound is for the first   *)
(* bytes; the body of an error status gets the idle bound.                 *)
Headers ==
  /\ stage = "connecting"
  /\ \/ stage' = "streaming" /\ deadline' = Wait /\ now < First
     \/ stage' = "refused" /\ deadline' = now + Idle
  /\ UNCHANGED <<stream, sent, now, received, sse, answer, shown, abort, result, message>>

Waiting == stage \in {"connecting", "refused", "streaming"}

(* Frames are decoded and what is new is forwarded, up to the first error. *)
Show(s, protocol) ==
  LET a == PushFrames(protocol, [answer EXCEPT !.news = <<>>], s.frames) IN
  IF s.failed THEN [answer EXCEPT !.failed = TRUE, !.news = <<>>] ELSE a

Chunk ==
  /\ stage = "streaming"
  /\ \E n \in (sent + 1)..Len(stream.text) :
       LET s == Push(sse, SubSeq(stream.text, sent + 1, n))
           a == Show(s, stream.protocol) IN
       /\ sent' = n /\ received' = TRUE
       /\ sse' = [s EXCEPT !.frames = <<>>]
       /\ answer' = [a EXCEPT !.news = <<>>]
       /\ shown' = shown \o a.news
       /\ deadline' = now + Idle
       /\ stage' = IF a.failed THEN "ended" ELSE "streaming"
       /\ result' = IF a.failed THEN "error" ELSE None
  /\ UNCHANGED <<stream, now, abort, message>>

(* The stream ends: what is left is flushed, the abort signal is read once *)
(* more, and the decoder is asked for the answer.                          *)
Close ==
  /\ stage = "streaming"
  /\ LET s == FinishSse(sse)
         a == Show(s, stream.protocol) IN
     /\ sse' = [s EXCEPT !.frames = <<>>]
     /\ answer' = [a EXCEPT !.news = <<>>]
     /\ shown' = shown \o a.news
     /\ result' = IF a.failed THEN "error"
                  ELSE IF abort THEN "aborted"
                  ELSE IF CompleteAnswer(stream.protocol, a) THEN "answer"
                  ELSE "error"
     /\ message' = IF result' = "answer" THEN Message(a) ELSE None
  /\ stage' = "ended"
  /\ UNCHANGED <<stream, sent, now, deadline, received, abort>>

(* The connection fails, or the body of the error status is there.         *)
Break == Waiting /\ EndWith("error")

Expire == Waiting /\ now \in {deadline, Total} /\ EndWith("error")

StopWaiting == Waiting /\ abort /\ EndWith("aborted")

Abort ==
  /\ ~abort /\ stage # "ended" /\ abort' = TRUE
  /\ UNCHANGED <<stream, sent, stage, now, deadline, received, sse, answer, shown, result, message>>

Tick ==
  /\ Waiting /\ now < deadline /\ now < Total
  /\ now' = now + 1
  /\ UNCHANGED <<stream, sent, stage, deadline, received, sse, answer, shown, abort, result, message>>

Next == Generate \/ Headers \/ Chunk \/ Close \/ Break \/ Expire \/ StopWaiting \/ Abort \/ Tick

Spec == Init /\ [][Next]_vars

(* Clocks advance and timers fire.                                         *)
FairSpec == Spec /\ WF_vars(Generate) /\ WF_vars(Tick) /\ WF_vars(Expire)

-----------------------------------------------------------------------------
(* parse_sse_lines and responses_input_items, the reference definitions    *)
(* and the next request.                                                   *)
Lines(text) ==
  LET cut == FoldLeft(LAMBDA ls, b : IF b = "newline" THEN Append(ls, <<>>)
                        ELSE [ls EXCEPT ![Len(ls)] = Append(@, b)], <<<<>>>>, text) IN
  [n \in DOMAIN cut |-> WithoutReturn(cut[n])]

ParseSseLines(lines) ==
  LET step(s, line) ==
        IF line = <<>> THEN PushFrame(s)
        ELSE IF Head(line) # "data" THEN s
        ELSE [s EXCEPT !.data = Append(@, Tail(line))] IN
  PushFrame(FoldLeft(step, NoFrames, lines)).frames

AssistantItems(m) ==
  IF m.items # <<>> THEN m.items
  ELSE (IF m.text = <<>> THEN <<>> ELSE <<[kind |-> "message", texts |-> m.text]>>)
       \o [n \in DOMAIN m.calls |->
             [kind |-> "function_call", id |-> m.calls[n].id, args |-> m.calls[n].args]]

InputItems(m) ==
  AssistantItems(m) \o [n \in DOMAIN m.calls |->
                          [kind |-> "function_call_output", id |-> m.calls[n].id]]

-----------------------------------------------------------------------------
Answered == result = "answer"

TypeOK ==
  /\ stage \in {"start", "connecting", "refused", "streaming", "ended"}
  /\ sent \in 0..Len(stream.text) /\ now \in 0..Total
  /\ received \in BOOLEAN /\ abort \in BOOLEAN
  /\ (stage = "ended") = (result # None) /\ Answered = (message # None)

(* The answer does not depend on where the transport cut the bytes: it is  *)
(* what parse_sse_lines makes of the whole text received.                  *)
ChunksDoNotMatter ==
  Answered =>
    LET frames == ParseSseLines(Lines(SubSeq(stream.text, 1, sent))) IN
    message = Message(PushFrames(stream.protocol, Empty, frames))

(* The events of a stream up to the end mark.                              *)
EventsOf(frames) ==
  LET end == SelectInSeq(frames, LAMBDA f : f = <<"[DONE]">>)
      counted == IF end = 0 THEN frames ELSE SubSeq(frames, 1, end - 1) IN
  [n \in DOMAIN counted |-> Meaning[counted[n][1]]]

(* A listener saw every delta of the stream once and in order.  The text   *)
(* of the answer is what it saw, unless the server also sent messages with *)
(* a text of their own: then it is theirs, whatever was shown before.      *)
ShownIsStreamed ==
  Answered =>
    LET events == EventsOf(ParseSseLines(Lines(SubSeq(stream.text, 1, sent))))
        deltas == SelectSeq(events, LAMBDA e : e.kind \in {"text", "reasoning"})
        text == SelectSeq(shown, LAMBDA o : o[1] = "text")
        messages == SelectSeq(events, LAMBDA e : e.kind = "message")
        whole == FlattenSeq([n \in DOMAIN messages |-> messages[n].texts]) IN
    /\ shown = [n \in DOMAIN deltas |-> <<deltas[n].kind, deltas[n].text>>]
    /\ message.text = IF whole = <<>> THEN [n \in DOMAIN text |-> text[n][2]] ELSE whole

(* Interleaved fragments of parallel tool calls end up in the call they    *)
(* belong to, in the order they came, and the calls in index order.        *)
CallsAreAssembled ==
  Answered /\ stream.protocol = "chat" =>
    LET frames == ParseSseLines(Lines(SubSeq(stream.text, 1, sent)))
        events == SelectSeq(frames, LAMBDA f : f[1] \in DOMAIN Meaning /\ Meaning[f[1]].kind = "call")
        of(i) == SelectSeq(events, LAMBDA f : Meaning[f[1]].index = i)
        indices == {Meaning[events[n][1]].index : n \in DOMAIN events} IN
    /\ Len(message.calls) = Cardinality(indices)
    /\ \A i \in indices :
         message.calls[Cardinality({j \in indices : j <= i})].args =
           FlattenSeq([n \in DOMAIN of(i) |-> Meaning[of(i)[n][1]].args])

(* A stream that was cut off is never taken for an answer: the terminal    *)
(* event of the protocol was received.                                     *)
OnlyCompleteAnswers ==
  Answered =>
    LET text == ToSet(SubSeq(stream.text, 1, sent)) IN
    IF stream.protocol = "chat" THEN "[DONE]" \in text
    ELSE \E x \in text \intersect DOMAIN Meaning : Meaning[x].kind \in {"completed", "incomplete"}

(* In the next request every output of a tool stands behind the call it    *)
(* answers, whichever protocol the calls came through.                     *)
OutputsFollowCalls ==
  Answered =>
    LET items == InputItems(message) IN
    \A n \in DOMAIN items : items[n].kind = "function_call_output" =>
      \E m \in 1..(n - 1) : items[m].kind = "function_call" /\ items[m].id = items[n].id

(* A request ends, however the server behaves.                             *)
GenerationEnds == <>(stage = "ended")
=============================================================================
