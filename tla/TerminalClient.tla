--------------------------- MODULE TerminalClient ---------------------------
(***************************************************************************)
(* The terminal interface as a client of the runtime                       *)
(* (crates/zeta-tui/src/main.rs and app.rs): messages the user sends, the  *)
(* events it follows, and the connection it loses and opens again.         *)
(*                                                                         *)
(* At the other end is the process of `zeta ipc stdio`                     *)
(* (zeta/src/zeta/ipc): every request is a task of its own, a message      *)
(* whose idempotency key is known is answered with the event it has, and   *)
(* the events this process stores are notified by other tasks, before or   *)
(* after the answer.  Each kind of message keeps its order.  A request is  *)
(* named by its purpose instead of a number: no two requests for the same  *)
(* purpose are pending.  The event that makes a message's queue item       *)
(* available is one of those the runtime stores by itself.                 *)
(*                                                                         *)
(* Rendering, scrolling, search and the editing of a draft are left out;   *)
(* every edit makes the draft a new text.  A new session is named by the   *)
(* message that starts it.                                                 *)
(*                                                                         *)
(* A definition named X_Y is X with a plausible mistake Y; it is never     *)
(* used by the specification.                                              *)
(***************************************************************************)
EXTENDS Naturals, Sequences, SequencesExt, FiniteSets, FiniteSetsExt

CONSTANTS
  PageSize,    \* events in one answer (200)
  MaxTexts,    \* bound on drafts
  MaxSent,     \* bound on messages sent
  MaxEvents,   \* bound on events of the runtime itself
  MaxBreaks,   \* bound on lost connections
  None

VARIABLES
  log,         \* the runtime's journal: [key, session]
  broadcast,   \* positions of the events notified to this client
  connection,  \* "down", "replaying" or "up"
  requests,    \* on their way to the runtime
  answers,     \* on their way to the client
  pending,     \* purposes of the requests without an answer
  refreshes,   \* pending_refreshes
  replay,      \* ids of messages to send again
  repair,      \* whether events were missed while connecting
  view,        \* the attached session, None for the list
  mode,        \* "browse" or "compose"
  sessions,    \* the listed sessions
  draft,       \* target -> text or None
  submissions, \* messages not yet seen in the journal
  known,       \* positions of the events shown
  cursor,      \* position followed up to, None before the first event
  texts, sent, breaks

client == <<view, mode, sessions, draft, submissions, known, cursor, texts, sent>>
link == <<connection, requests, answers, pending, refreshes, replay, repair, breaks>>
runtime == <<log, broadcast>>
vars == <<client, link, runtime>>

Ids == 1..MaxSent
Sessions == {0} \union Ids
Targets == Sessions \union {None}

Submit(id) == [purpose |-> "submit", id |-> id]
RefreshSessions == [purpose |-> "sessions", id |-> None]
RefreshEvents == [purpose |-> "events", id |-> None]
IsRefresh(p) == p.purpose # "submit"

SubmissionOf(id) == SelectSeq(submissions, LAMBDA s : s.id = id)

Init ==
  /\ log = <<>> /\ broadcast = <<>>
  /\ connection = "down"
  /\ requests = <<>> /\ answers = <<>>
  /\ pending = {} /\ refreshes = 0 /\ replay = <<>> /\ repair = FALSE
  /\ view = None /\ mode = "browse" /\ sessions = {}
  /\ draft = [t \in Targets |-> None]
  /\ submissions = <<>> /\ known = {} /\ cursor = None
  /\ texts = 0 /\ sent = 0 /\ breaks = 0

-----------------------------------------------------------------------------
(* The runtime.                                                            *)

(* events_list *)
Page(after) ==
  LET from == IF after = None THEN 0 ELSE after
      to == Min({Len(log), from + PageSize}) IN
  [n \in 1..(to - from) |-> from + n]

(* notify_committed_events *)
Notified(event) ==
  /\ log' = Append(log, event)
  /\ broadcast' = IF connection = "down" THEN broadcast ELSE Append(broadcast, Len(log) + 1)

SendAnswer(answer) == answers' = Append(answers, answer)

(* session_start, session_send: a message is queued once, as its key finds *)
(* the event it already has.  The owner of the session is looked up before *)
(* that, and may be gone.                                                  *)
ServeSubmit(request) ==
  LET has == {n \in 1..Len(log) : log[n].key = request.id}
      session == IF request.target = None THEN request.id ELSE request.target
      queued(n, s) == [kind |-> "queued", purpose |-> Submit(request.id), event |-> n,
                       session |-> s] IN
  \/ /\ has # {}
     /\ SendAnswer(queued(Max(has), log[Max(has)].session))
     /\ UNCHANGED runtime
  \/ /\ has = {}
     /\ Notified([key |-> request.id, session |-> session])
     /\ SendAnswer(queued(Len(log) + 1, session))
  \/ /\ SendAnswer([kind |-> "error", purpose |-> Submit(request.id)])
     /\ UNCHANGED runtime

(* _dispatch_request *)
Serve(i) ==
  /\ connection # "down" /\ i \in DOMAIN requests
  /\ requests' = RemoveAt(requests, i)
  /\ LET request == requests[i] IN
     \/ request.purpose = "submit" /\ ServeSubmit(request)
     \/ /\ request.purpose = "sessions"
        /\ SendAnswer([kind |-> "sessions", purpose |-> RefreshSessions,
                       sessions |-> {log[n].session : n \in 1..Len(log)}])
        /\ UNCHANGED runtime
     \/ /\ request.purpose = "events"
        /\ SendAnswer([kind |-> "events", purpose |-> RefreshEvents,
                       events |-> Page(request.after)])
        /\ UNCHANGED runtime
  /\ UNCHANGED <<client, connection, pending, refreshes, replay, repair, breaks>>

(* The runtime stores an event by itself: this process, which notifies it, *)
(* or another one, of which the client learns by asking.                   *)
OwnEvent ==
  LET event == [key |-> None, session |-> 0] IN
  /\ Len(SelectSeq(log, LAMBDA e : e.key = None)) < MaxEvents
  /\ \/ Notified(event)
     \/ log' = Append(log, event) /\ UNCHANGED broadcast
  /\ UNCHANGED <<client, link>>

-----------------------------------------------------------------------------
(* append_events: known events are skipped, and a message that an event    *)
(* shows to be durable is dropped from the list.                           *)
Shown(fresh) ==
  /\ known' = known \union fresh
  /\ submissions' = SelectSeq(submissions, LAMBDA s :
                        s.event \notin fresh /\ s.id \notin {log[n].key : n \in fresh})

LaterCursor(current, candidates) ==
  LET cursors == candidates \union ({current} \ {None}) IN
  IF cursors = {} THEN None ELSE Max(cursors)

(* apply_event_notification: only the event right after the cursor is      *)
(* applied; a later one asks for the events in between.                    *)
Disposition_Ahead(current, n) ==
  IF current = None THEN "repair"
  ELSE IF n <= current THEN "duplicate" ELSE "applied"

Disposition(current, n) ==
  IF current = None THEN "repair"
  ELSE IF n <= current THEN "duplicate"
  ELSE IF n = current + 1 THEN "applied" ELSE "repair"

Send(request, purpose) ==
  /\ requests' = Append(requests, request)
  /\ pending' = pending \union {purpose}

EventsRequest(after) == [purpose |-> "events", after |-> after]
MessageRequest(s) == [purpose |-> "submit", id |-> s.id, target |-> s.target]

AddReplay(list, id) == IF Contains(list, id) THEN list ELSE Append(list, id)

(* begin_reconnect: messages without an answer are kept for the next       *)
(* connection, in whatever order the table of pending requests yields.     *)
Reconnect ==
  /\ connection' = "down"
  /\ pending' = {} /\ refreshes' = 0
  /\ requests' = <<>> /\ answers' = <<>> /\ broadcast' = <<>> /\ repair' = FALSE
  /\ \E order \in SetToSeqs({p.id : p \in {q \in pending : ~IsRefresh(q)}}) :
       replay' = FoldLeft(AddReplay, replay, order)

-----------------------------------------------------------------------------
(* connect, and what the loop does with its result: the sessions, the page *)
(* after the cursor, then the events notified in the meantime.             *)
Connect ==
  /\ connection = "down"
  /\ \E k \in 0..Len(log) :
     LET page == Page(cursor)
         noted == [i \in 1..(Len(log) - k) |-> k + i]
         apply(state, n) ==
           CASE Disposition(state.cursor, n) = "applied" ->
                  [state EXCEPT !.cursor = n, !.fresh = @ \union {n}]
             [] Disposition(state.cursor, n) = "repair" -> [state EXCEPT !.repair = TRUE]
             [] OTHER -> state
         final == FoldLeft(apply, [cursor |-> LaterCursor(cursor, Range(page)),
                                   fresh |-> Range(page) \ known, repair |-> FALSE], noted) IN
     /\ Shown(final.fresh)
     /\ cursor' = final.cursor
     /\ repair' = final.repair
  /\ sessions' = {log[n].session : n \in 1..Len(log)}
  /\ connection' = "replaying"
  /\ UNCHANGED <<runtime, view, mode, draft, texts, sent, requests, answers, pending,
                 refreshes, replay, breaks>>

(* replay_pending_submissions: a message that turned out to be durable is  *)
(* skipped.                                                                *)
Replay ==
  /\ connection = "replaying" /\ replay # <<>>
  /\ LET s == SubmissionOf(Head(replay)) IN
     IF s = <<>> THEN UNCHANGED <<requests, pending>>
     ELSE Send(MessageRequest(s[1]), Submit(s[1].id))
  /\ replay' = Tail(replay)
  /\ UNCHANGED <<client, runtime, connection, answers, refreshes, repair, breaks>>

(* The connection is used once everything has been sent again.             *)
Ready ==
  /\ connection = "replaying" /\ replay = <<>>
  /\ connection' = "up" /\ repair' = FALSE
  /\ IF repair THEN Send(EventsRequest(cursor), RefreshEvents) /\ refreshes' = 1
     ELSE UNCHANGED <<requests, pending, refreshes>>
  /\ UNCHANGED <<client, runtime, answers, replay, breaks>>

(* A read or write fails, the other process exits, or a heartbeat stays    *)
(* without an answer.                                                      *)
Break ==
  /\ connection # "down" /\ breaks < MaxBreaks
  /\ Reconnect
  /\ breaks' = breaks + 1
  /\ UNCHANGED <<client, log>>

Refresh ==
  /\ connection = "up" /\ refreshes = 0
  /\ requests' = requests \o <<[purpose |-> "sessions"], EventsRequest(cursor)>>
  /\ pending' = pending \union {RefreshSessions, RefreshEvents}
  /\ refreshes' = 2
  /\ UNCHANGED <<client, runtime, connection, answers, replay, repair, breaks>>

-----------------------------------------------------------------------------
(* submission_queued: the answer to a message; its event may be known.     *)
SubmissionQueued(answer) ==
  LET s == SubmissionOf(answer.purpose.id)
      queued(r) == IF r.id = answer.purpose.id
                   THEN [r EXCEPT !.target = answer.session, !.state = "queued",
                                  !.event = answer.event]
                   ELSE r
      updated == [i \in DOMAIN submissions |-> queued(submissions[i])] IN
  IF s = <<>> THEN UNCHANGED <<submissions, view>>
  ELSE /\ submissions' = IF answer.event \in known
                         THEN SelectSeq(updated, LAMBDA r : r.event # answer.event)
                         ELSE updated
       /\ view' = IF s[1].target = None THEN answer.session ELSE view

(* submission_failed: the message becomes the draft of its target again.   *)
SubmissionFailed(id) ==
  LET s == SubmissionOf(id) IN
  IF s = <<>> THEN UNCHANGED <<submissions, draft, mode>>
  ELSE /\ submissions' = [i \in DOMAIN submissions |->
                            IF submissions[i].id = id
                            THEN [submissions[i] EXCEPT !.state = "failed"]
                            ELSE submissions[i]]
       /\ draft' = [draft EXCEPT ![s[1].target] = s[1].message]
       /\ mode' = IF view = s[1].target THEN "compose" ELSE mode

Resolve(answer) ==
  /\ pending' = pending \ {answer.purpose}
  /\ refreshes' = IF IsRefresh(answer.purpose) /\ refreshes > 0 THEN refreshes - 1
                  ELSE refreshes
  /\ UNCHANGED requests

(* apply_incoming_line and apply_resolved_request.                         *)
ReceiveAnswer(answer) ==
  /\ Resolve(answer)
  /\ \/ /\ answer.kind = "sessions"
        /\ sessions' = answer.sessions
        /\ UNCHANGED <<view, mode, draft, submissions, known, cursor>>
     \/ /\ answer.kind = "events"
        /\ Shown(Range(answer.events) \ known)
        /\ cursor' = LaterCursor(cursor, Range(answer.events))
        /\ UNCHANGED <<view, mode, sessions, draft>>
     \/ /\ answer.kind = "queued"
        /\ SubmissionQueued(answer)
        /\ UNCHANGED <<mode, sessions, draft, known, cursor>>
     \/ /\ answer.kind = "error"
        /\ SubmissionFailed(answer.purpose.id)
        /\ UNCHANGED <<view, sessions, known, cursor>>

(* An event that leaves a gap makes the client ask for what it missed,     *)
(* unless it is asking already.                                            *)
ReceiveEvent(n) ==
  LET disposition == Disposition(cursor, n) IN
  /\ IF disposition = "applied"
     THEN Shown({n} \ known) /\ cursor' = LaterCursor(cursor, {n})
     ELSE UNCHANGED <<submissions, known, cursor>>
  /\ IF disposition = "repair" /\ RefreshEvents \notin pending
     THEN Send(EventsRequest(cursor), RefreshEvents) /\ refreshes' = refreshes + 1
     ELSE UNCHANGED <<requests, pending, refreshes>>
  /\ UNCHANGED <<view, mode, sessions, draft>>

TakeAnswer ==
  /\ connection = "up" /\ answers # <<>>
  /\ answers' = Tail(answers)
  /\ ReceiveAnswer(Head(answers))
  /\ UNCHANGED <<runtime, connection, replay, repair, breaks, texts, sent>>

TakeEvent ==
  /\ connection = "up" /\ broadcast # <<>>
  /\ broadcast' = Tail(broadcast)
  /\ ReceiveEvent(Head(broadcast))
  /\ UNCHANGED <<log, answers, connection, replay, repair, breaks, texts, sent>>

(* The next line of the stream is an answer or a notification.             *)
Receive == TakeAnswer \/ TakeEvent

-----------------------------------------------------------------------------
(* The user.                                                               *)
Attends == connection # "replaying"

Attach(s) ==
  /\ Attends /\ mode = "browse"
  /\ \/ view = None /\ s \in sessions
     \/ view # None /\ s = None
  /\ view' = s
  /\ UNCHANGED <<mode, sessions, draft, submissions, known, cursor, texts, sent, link, runtime>>

Compose ==
  /\ Attends /\ texts < MaxTexts
  /\ mode' = "compose"
  /\ texts' = texts + 1
  /\ draft' = [draft EXCEPT ![view] = texts + 1]
  /\ UNCHANGED <<view, sessions, submissions, known, cursor, sent, link, runtime>>

Leave ==
  /\ Attends /\ mode = "compose"
  /\ mode' = "browse"
  /\ UNCHANGED <<view, sessions, draft, submissions, known, cursor, texts, sent, link, runtime>>

(* submission_started: an equal message that failed is replaced.           *)
SubmissionStarted(id, message) ==
  submissions' =
    Append(SelectSeq(submissions, LAMBDA s :
             s.target # view \/ s.message # message \/ s.state # "failed"),
           [id |-> id, target |-> view, message |-> message, state |-> "sending",
            event |-> None])

SendMessage ==
  /\ Attends /\ mode = "compose" /\ draft[view] # None
  /\ sent < MaxSent /\ sent' = sent + 1
  /\ SubmissionStarted(sent + 1, draft[view])
  /\ draft' = [draft EXCEPT ![view] = None] /\ mode' = "browse"
  /\ IF connection = "up"
     THEN /\ Send([purpose |-> "submit", id |-> sent + 1, target |-> view], Submit(sent + 1))
          /\ UNCHANGED replay
     ELSE replay' = AddReplay(replay, sent + 1) /\ UNCHANGED <<requests, pending>>
  /\ UNCHANGED <<view, sessions, known, cursor, texts, connection, answers, refreshes, repair,
                 breaks, runtime>>

User == (\E s \in Targets : Attach(s)) \/ Compose \/ Leave \/ SendMessage

Next ==
  \/ \E n \in DOMAIN requests : Serve(n)
  \/ OwnEvent
  \/ Connect \/ Replay \/ Ready \/ Break \/ Refresh \/ Receive
  \/ \E s \in Targets : Attach(s)
  \/ Compose \/ Leave \/ SendMessage

Spec == Init /\ [][Next]_vars

(* The timers of the client run, every request that reaches the runtime is *)
(* served at last, the oldest among them, and connections are lost only so *)
(* often; the user need not do anything.                                   *)
FairSpec ==
  /\ Spec
  /\ WF_vars(Connect) /\ WF_vars(Replay) /\ WF_vars(Ready)
  /\ WF_vars(Refresh) /\ WF_vars(TakeAnswer) /\ WF_vars(TakeEvent)
  /\ WF_vars(Serve(1))

-----------------------------------------------------------------------------
(* Messages, texts and positions are in range and every part of the        *)
(* interface is in one of its states.                                      *)
TypeOK ==
  /\ connection \in {"down", "replaying", "up"}
  /\ mode \in {"browse", "compose"}
  /\ view \in Targets /\ sessions \subseteq Sessions
  /\ draft \in [Targets -> 1..MaxTexts \union {None}]
  /\ pending \subseteq {RefreshSessions, RefreshEvents} \union {Submit(i) : i \in Ids}
  /\ Range(replay) \subseteq Ids
  /\ known \subseteq 1..Len(log)
  /\ cursor \in 1..Len(log) \union {None}
  /\ repair \in BOOLEAN
  /\ \A i \in DOMAIN submissions : submissions[i].state \in {"sending", "queued", "failed"}

Sending(id) == \E i \in DOMAIN submissions :
                 submissions[i].id = id /\ submissions[i].state = "sending"

(* A message shown as being sent has a request under way or is on the list *)
(* of those to send again, never both: a lost connection neither forgets   *)
(* it nor sends it twice.                                                  *)
UnresolvedMessagesAreKept ==
  \A id \in Ids : Sending(id) => (Submit(id) \in pending) # Contains(replay, id)

(* The events shown have no gap: everything up to the cursor is there,     *)
(* however notifications, pages and lost connections interleave.           *)
NothingIsSkipped ==
  /\ cursor = None => known = {}
  /\ cursor # None => known = 1..cursor

(* A message is shown once: as soon as its event is shown, the message is  *)
(* gone from the list of unresolved ones, whichever of the answer, the     *)
(* notification and the page comes first.                                  *)
MessagesAreShownOnce ==
  \A i \in DOMAIN submissions, n \in known : log[n].key # submissions[i].id

(* Every message is eventually in the journal, or back with the user.      *)
MessagesSettle == []<>(\A id \in Ids : ~Sending(id))

(* The interface eventually shows every event.                             *)
EventsAreShown == []<>(\A n \in DOMAIN log : n \in known)

(* "Drafts and reading positions stay in place" (README.md): what the      *)
(* client receives never replaces a draft the user has begun.              *)
DraftsStayInPlace ==
  [][Receive => \A t \in Targets : draft[t] # None => draft'[t] = draft[t]]_vars

=============================================================================
