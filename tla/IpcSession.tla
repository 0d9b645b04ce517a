----------------------------- MODULE IpcSession -----------------------------
(***************************************************************************)
(* Two ends of one IPC connection, each a Session of                       *)
(* crates/zeta-ipc/src/session.rs, joined by a byte stream that keeps the  *)
(* order of messages.  The session owns initialization, role gates,        *)
(* correlation, flow limits and heartbeats; its caller sends, handles and  *)
(* ticks, and those calls are the actions here.  A remote end that is not  *)
(* this implementation may put other messages on the stream (Foreign).     *)
(* The shape of parameters and results is abstracted to whether they are   *)
(* valid, or ask for another version of the protocol.                      *)
(***************************************************************************)
EXTENDS Naturals, Sequences, FiniteSets

CONSTANTS
  None,
  Ids,               \* request identifiers
  PeerRoles,         \* roles the peer asks for
  SupportedRoles,    \* roles the runtime accepts
  PeerLimit,         \* max_in_flight the peer asks for
  RuntimeLimit,      \* max_in_flight of the runtime
  Supervisor,        \* side that may request shutdown, or None
  ForeignMessages,   \* messages of another implementation
  MaxForeign,        \* bound on those
  MaxSent,           \* bound on the requests an end sends
  MaxQueued          \* bound on the stream when an event is sent

VARIABLES
  session,    \* side -> Session
  channel,    \* side -> messages on their way to it
  faults,     \* violations reported so far: side and rule
  sent,       \* side -> requests sent
  resolved,   \* side -> requests resolved
  foreign     \* messages of another implementation so far

vars == <<session, channel, faults, sent, resolved, foreign>>

Sides == {"peer", "runtime"}
Other(side) == IF side = "peer" THEN "runtime" ELSE "peer"

Range(f) == {f[x] : x \in DOMAIN f}
Pending(table) == {id \in Ids : table[id] # None}
Smaller(a, b) == IF a < b THEN a ELSE b

----------------------------------------------------------------------------
(* Messages and the gates of roles. *)

(* What the validators of parameters and results tell apart.               *)
Params == {"valid", "invalid", "another version"}

Request(id, method, params) ==
  [kind |-> "request", id |-> id, method |-> method, params |-> params]
Success(id, valid) == [kind |-> "success", id |-> id, valid |-> valid]
Error(id, rule) == [kind |-> "error", id |-> id, rule |-> rule]
Notification(method) == [kind |-> "notification", method |-> method]

(* Methods by what they stand for: events.publish of a type the source     *)
(* declared and of another one, the methods of a client, a method the      *)
(* provider declared, and one nobody declared.                             *)
ApplicationMethods ==
  {"events.publish", "events.publish other", "events.list", "tool", "unknown"}

PeerToRuntime(method) ==
  \/ method = "events.publish" /\ PeerRoles \cap {"source", "client"} # {}
  \/ /\ method = "events.publish other"
     /\ "client" \in PeerRoles /\ "source" \notin PeerRoles
  \/ method = "events.list" /\ "client" \in PeerRoles
RuntimeToPeer(method) == method = "tool" /\ "provider" \in PeerRoles

MayTravel(from, method) ==
  IF from = "peer" THEN PeerToRuntime(method) ELSE RuntimeToPeer(method)

ValidOutgoing(side, method) ==
  \/ method = "ping"
  \/ method = "shutdown" /\ side = Supervisor
  \/ method \in ApplicationMethods /\ MayTravel(side, method)

ValidIncoming(side, method) == MayTravel(Other(side), method)

----------------------------------------------------------------------------
(* Session transitions: the session afterwards, what it sends, the rule it *)
(* reports broken, and the request it resolves.                            *)

Outcome(s, send, fault, id) ==
  [session |-> s, send |-> send, fault |-> fault, resolves |-> id]
Quiet(s) == Outcome(s, <<>>, None, None)

Reject(s, m, rule) == Outcome(s, <<Error(m.id, rule)>>, rule, None)
Closed(s) == [s EXCEPT !.state = "Closed"]

RefusesParams(m) ==
  m.params = "invalid" \/ ~(PeerRoles \subseteq SupportedRoles)

(* receive_initialize *)
ReceiveInitialize(s, m) ==
  IF m.params = "another version"
  THEN Outcome(Closed(s), <<Error(m.id, "unsupported_version")>>, None, None)
  ELSE IF RefusesParams(m)
  THEN Reject(Closed(s), m, "initialization")
  ELSE Outcome([s EXCEPT !.state = "Initialized", !.activity = FALSE,
                         !.limit = Smaller(PeerLimit, RuntimeLimit)],
               <<Success(m.id, TRUE)>>, None, None)

(* receive_shutdown *)
ReceiveShutdown(s, side, m) ==
  IF Supervisor # Other(side) THEN Reject(s, m, "not_authorized")
  ELSE IF m.params # "valid" THEN Reject(s, m, "invalid_params")
  ELSE Outcome(Closed(s), <<Success(m.id, TRUE)>>, None, None)

(* receive_request: an accepted one is pending until the handler answers.  *)
ReceiveRequest(s, side, m) ==
  IF m.method = "initialize"
  THEN IF side = "runtime" /\ s.state = "RuntimeAwaitingInitialization"
       THEN ReceiveInitialize(s, m)
       ELSE Reject(s, m, "already_initialized")
  ELSE IF s.state # "Initialized"
  THEN Reject(Closed(s), m, "not_initialized")
  ELSE IF s.incoming[m.id] # None THEN Reject(s, m, "pending_id")
  ELSE IF m.method = "ping"
  THEN IF m.params = "valid" THEN Outcome(s, <<Success(m.id, TRUE)>>, None, None)
                  ELSE Reject(s, m, "invalid_params")
  ELSE IF m.method = "shutdown" THEN ReceiveShutdown(s, side, m)
  ELSE IF ~ValidIncoming(side, m.method) THEN Reject(s, m, "method_not_found")
  ELSE IF m.params # "valid" THEN Reject(s, m, "invalid_params")
  ELSE IF Cardinality(Pending(s.incoming)) >= s.limit
  THEN Reject(s, m, "limit_full")
  ELSE Quiet([s EXCEPT !.incoming[m.id] = m.method])

(* receive_notification *)
ReceiveNotification(s, side, m) ==
  IF s.state # "Initialized"
  THEN Outcome(Closed(s), <<>>, "not_initialized", None)
  ELSE IF \/ side = "peer" /\ "client" \in PeerRoles /\ m.method = "event"
          \/ /\ side = "runtime" /\ "provider" \in PeerRoles
             /\ m.method = "model.observation"
  THEN Quiet(s)
  ELSE Outcome(s, <<>>, "method_not_found", None)

(* receive_success, receive_initialize_success: the request leaves the     *)
(* table before its result is looked at.                                   *)
ReceiveSuccess(s, m) ==
  IF s.outgoing[m.id] = None THEN Outcome(s, <<>>, "not_pending", None)
  ELSE LET rest == [s EXCEPT !.outgoing[m.id] = None]
       IN  IF s.outgoing[m.id] # "initialize"
           THEN IF m.valid THEN Outcome(rest, <<>>, None, m.id)
                           ELSE Outcome(rest, <<>>, "invalid_result", None)
           ELSE IF s.state # "PeerAwaitingInitialization" \/ ~m.valid
           THEN Outcome(Closed(rest), <<>>, "initialization", None)
           ELSE Outcome([rest EXCEPT !.state = "Initialized",
                                     !.activity = FALSE,
                                     !.limit = Smaller(PeerLimit, RuntimeLimit)],
                        <<>>, None, m.id)

(* receive_error: a failed initialization closes the session.              *)
ReceiveError_Keeps(s, m) ==
  IF m.id = None \/ s.outgoing[m.id] = None
  THEN Outcome(s, <<>>, "not_pending", None)
  ELSE Outcome(s, <<>>, None, m.id)
ReceiveError(s, m) ==
  IF m.id = None \/ s.outgoing[m.id] = None
  THEN Outcome(s, <<>>, "not_pending", None)
  ELSE LET rest == [s EXCEPT !.outgoing[m.id] = None]
       IN  Outcome(IF s.outgoing[m.id] = "initialize" THEN Closed(rest) ELSE rest,
                   <<>>, None, m.id)

(* receive: any message counts as activity; a closed session is silent.    *)
ReceiveMessage(s, side, m) ==
  IF s.state = "Closed" THEN Quiet(s)
  ELSE LET heard == [s EXCEPT !.activity = TRUE, !.missed = 0]
       IN  CASE m.kind = "request" -> ReceiveRequest(heard, side, m)
             [] m.kind = "notification" -> ReceiveNotification(heard, side, m)
             [] m.kind = "success" -> ReceiveSuccess(heard, m)
             [] m.kind = "error" -> ReceiveError(heard, m)

----------------------------------------------------------------------------
NewSession(side) ==
  [state |-> IF side = "peer" THEN "PeerIdle"
             ELSE "RuntimeAwaitingInitialization",
   outgoing |-> [id \in Ids |-> None],
   incoming |-> [id \in Ids |-> None],
   limit |-> IF side = "peer" THEN PeerLimit ELSE RuntimeLimit,
   activity |-> FALSE, missed |-> 0]

Init ==
  /\ session = [side \in Sides |-> NewSession(side)]
  /\ channel = [side \in Sides |-> <<>>]
  /\ faults = {}
  /\ sent = [side \in Sides |-> 0]
  /\ resolved = [side \in Sides |-> 0]
  /\ foreign = 0

Put(to, messages) == channel' = [channel EXCEPT ![to] = @ \o messages]

Receive(side) ==
  /\ channel[side] # <<>>
  /\ LET out == ReceiveMessage(session[side], side, Head(channel[side]))
     IN  /\ session' = [session EXCEPT ![side] = out.session]
         /\ channel' = [channel EXCEPT ![side] = Tail(@),
                                       ![Other(side)] = @ \o out.send]
         /\ faults' = IF out.fault = None THEN faults
                      ELSE faults \cup {<<side, out.fault>>}
         /\ resolved' = [resolved EXCEPT
              ![side] = IF out.resolves = None THEN @ ELSE @ + 1]
  /\ UNCHANGED <<sent, foreign>>

Initialize(id) ==
  /\ session["peer"].state = "PeerIdle"
  /\ session' = [session EXCEPT !["peer"].state = "PeerAwaitingInitialization",
                                !["peer"].outgoing[id] = "initialize"]
  /\ Put("runtime", <<Request(id, "initialize", "valid")>>)
  /\ sent' = [sent EXCEPT !["peer"] = @ + 1]
  /\ UNCHANGED <<faults, resolved, foreign>>

WindowFull_OffByOne(s) == Cardinality(Pending(s.outgoing)) > s.limit
WindowFull(s) == Cardinality(Pending(s.outgoing)) >= s.limit

(* send_request: an error of the call leaves the session as it was.        *)
SendRequest(side, id, method) ==
  /\ sent[side] < MaxSent
  /\ session[side].state = "Initialized"
  /\ ValidOutgoing(side, method)
  /\ session[side].outgoing[id] = None
  /\ ~WindowFull(session[side])
  /\ session' = [session EXCEPT ![side].outgoing[id] = method]
  /\ Put(Other(side), <<Request(id, method, "valid")>>)
  /\ sent' = [sent EXCEPT ![side] = @ + 1]
  /\ UNCHANGED <<faults, resolved, foreign>>

(* send_notification: events, from the runtime to a client.                *)
SendNotification ==
  /\ session["runtime"].state = "Initialized"
  /\ "client" \in PeerRoles
  /\ Len(channel["peer"]) < MaxQueued
  /\ Put("peer", <<Notification("event")>>)
  /\ UNCHANGED <<session, faults, sent, resolved, foreign>>

(* complete_request and fail_request, by the handler of the caller.        *)
Answer(side, id, message) ==
  /\ session[side].incoming[id] # None
  /\ session' = [session EXCEPT ![side].incoming[id] = None]
  /\ Put(Other(side), <<message>>)
  /\ UNCHANGED <<faults, sent, resolved, foreign>>

CompleteRequest(side, id) == Answer(side, id, Success(id, TRUE))
FailRequest(side, id) == Answer(side, id, Error(id, "application"))

(* on_tick of the supervising side: a ping after an idle interval, the end *)
(* after three.  The ping is a request like any other: it needs a free     *)
(* identifier and a place in the window.                                   *)
OnTick(side, id) ==
  LET s == session[side]
      missed == s.missed + 1
  IN  /\ s.state = "Initialized" /\ side = Supervisor
      /\ s.outgoing[id] = None
      /\ \/ /\ s.activity
            /\ session' = [session EXCEPT ![side].activity = FALSE,
                                          ![side].missed = 0]
            /\ UNCHANGED <<channel, faults, sent>>
         \/ /\ ~s.activity /\ missed >= 3
            /\ session' = [session EXCEPT ![side] =
                             [Closed(s) EXCEPT !.missed = missed]]
            /\ UNCHANGED <<channel, faults, sent>>
         \/ /\ ~s.activity /\ missed < 3 /\ ~WindowFull(s)
            /\ sent[side] < MaxSent
            /\ session' = [session EXCEPT ![side].missed = missed,
                                          ![side].outgoing[id] = "ping"]
            /\ Put(Other(side), <<Request(id, "ping", "valid")>>)
            /\ sent' = [sent EXCEPT ![side] = @ + 1]
            /\ UNCHANGED faults
         \/ /\ ~s.activity /\ missed < 3 /\ WindowFull(s)
            /\ session' = [session EXCEPT ![side].missed = missed]
            /\ faults' = faults \cup {<<side, "ping_not_sent">>}
            /\ UNCHANGED <<channel, sent>>
      /\ UNCHANGED <<resolved, foreign>>

(* Another implementation at the far end of one side.                      *)
Foreign(side) ==
  /\ foreign < MaxForeign
  /\ foreign' = foreign + 1
  /\ \E m \in ForeignMessages : Put(side, <<m>>)
  /\ UNCHANGED <<session, faults, sent, resolved>>

Next ==
  \/ \E side \in Sides : Receive(side) \/ Foreign(side)
  \/ \E id \in Ids : Initialize(id)
  \/ \E side \in Sides, id \in Ids :
       \/ \E method \in ApplicationMethods \cup {"shutdown"} :
            SendRequest(side, id, method)
       \/ CompleteRequest(side, id) \/ FailRequest(side, id) \/ OnTick(side, id)
  \/ SendNotification

Spec == Init /\ [][Next]_vars

(* The stream delivers what was written, and handlers return.              *)
FairSpec ==
  /\ Spec
  /\ \A side \in Sides :
       /\ WF_vars(Receive(side))
       /\ WF_vars(\E id \in Ids : CompleteRequest(side, id) \/ FailRequest(side, id))

----------------------------------------------------------------------------
(* Every variable holds a value of its type.                               *)
TypeOK ==
  /\ \A side \in Sides :
       /\ session[side].state \in {"PeerIdle", "PeerAwaitingInitialization",
            "RuntimeAwaitingInitialization", "Initialized", "Closed"}
       /\ session[side].missed \in 0 .. 3
       /\ session[side].limit \in {PeerLimit, RuntimeLimit}
       /\ sent[side] \in Nat /\ resolved[side] \in Nat
       /\ \A n \in DOMAIN channel[side] :
            channel[side][n].kind = "request" => channel[side][n].params \in Params
  /\ foreign \in 0 .. MaxForeign

(* Two ends of this implementation never accuse each other: whatever the   *)
(* interleaving of requests, answers, events, heartbeats and shutdown, no  *)
(* message is refused or found out of place.  In particular the receiver's *)
(* window never overflows (send_request, receive_request).                 *)
ConformingEndsAgree ==
  (foreign = 0 /\ PeerRoles \subseteq SupportedRoles) =>
    \A fault \in faults : fault[2] = "ping_not_sent"

(* Correlation: a request an end is handling is one the other end awaits,  *)
(* under the same method, so its answer resolves that request and no other *)
(* (unless an end has closed).                                             *)
HandledIsAwaited ==
  foreign = 0 =>
    \A side \in Sides, id \in Ids :
      session[side].incoming[id] # None
      => session[Other(side)].outgoing[id] = session[side].incoming[id]

(* Every request is accounted for: sent, minus resolved, is what is still  *)
(* pending; nothing resolves twice.                                        *)
RequestsAreConserved ==
  \A side \in Sides :
    sent[side] = resolved[side] + Cardinality(Pending(session[side].outgoing))

(* An end handles at most as many requests as were negotiated, in both     *)
(* directions, and none before initialization, even with a foreign end.    *)
WindowHolds ==
  \A side \in Sides :
    LET s == session[side]
    IN  /\ Cardinality(Pending(s.incoming)) <= Smaller(PeerLimit, RuntimeLimit)
        /\ s.state \notin {"Initialized", "Closed"} => Pending(s.incoming) = {}
        /\ Range(s.incoming) \subseteq
             {None} \cup {m \in ApplicationMethods : MayTravel(Other(side), m)}

NothingAwaited ==
  \/ \A side \in Sides : Pending(session[side].outgoing) = {}
  \/ \E side \in Sides : session[side].state = "Closed"

(* The requests of both ends resolve, unless one of the two has closed.    *)
RequestsResolve == []<>NothingAwaited

(* The comment on on_tick: "A supervising side emits `ping` after one idle *)
(* interval".                                                              *)
IdleIntervalIsPinged ==
  \A side \in Sides : <<side, "ping_not_sent">> \notin faults
=============================================================================
