--------------------------- MODULE RouteMatching ----------------------------
(***************************************************************************)
(* How an event finds its agents (crates/zeta-dispatch/src/routing.rs and  *)
(* identity.rs): the shell globs of a route, its session rule, the         *)
(* decisions in declaration order and the identities they are given.       *)
(* Texts are sequences of character codes.  The format language of the     *)
(* session templates is left out: a field renders as its value.            *)
(*                                                                         *)
(* A definition named X_Y is X with a plausible mistake Y; it is never     *)
(* used by the specification.                                              *)
(***************************************************************************)
EXTENDS Naturals, Sequences, SequencesExt, FiniteSets, FiniteSetsExt

CONSTANTS
  Patterns,    \* authored glob patterns
  Texts,       \* event types
  Tables,      \* route tables: sequences of [agent, accepts, session]
  Events,      \* events: [id, type, payload]
  None

VARIABLES
  pattern, text, table, event,  \* what is asked
  matched,     \* the answer of shell_glob_matches
  decisions    \* the answer of route_event

vars == <<pattern, text, table, event, matched, decisions>>

Star == 42
Question == 63
Open == 91
Closing == 93
Bang == 33
Dash == 45
Dot == 46
Slash == 47
Colon == 58
Underscore == 95

-----------------------------------------------------------------------------
(* character_class: where the class that begins at start ends, and whether *)
(* it holds c; None when no bracket closes it.                             *)
CharacterClass(p, start, c) ==
  LET negated == start < Len(p) /\ p[start + 1] = Bang
      first == IF negated THEN start + 2 ELSE start + 1
      scan == IF first <= Len(p) /\ p[first] = Closing THEN first + 1 ELSE first
      ends == {i \in scan..Len(p) : p[i] = Closing} IN
  IF ends = {} THEN None
  ELSE LET end == Min(ends)
           holds[i \in first..end] ==
             IF i = end THEN FALSE
             ELSE IF i + 2 < end /\ p[i + 1] = Dash
             THEN (p[i] <= c /\ c <= p[i + 2]) \/ holds[i + 3]
             ELSE p[i] = c \/ holds[i + 1] IN
       [end |-> end, holds |-> holds[first] # negated]

(* glob_suffix_matches: whether the pattern from i matches the text from j.*)
GlobSuffix_Greedy(p, t) ==
  LET glob[i \in 1..(Len(p) + 1), j \in 1..(Len(t) + 1)] ==
        IF i > Len(p) THEN j > Len(t)
        ELSE IF p[i] = Star THEN IF j <= Len(t) THEN glob[i, j + 1] ELSE glob[i + 1, j]
        ELSE j <= Len(t) /\ (p[i] = Question \/ p[i] = t[j]) /\ glob[i + 1, j + 1] IN
  glob[1, 1]
GlobSuffix(p, t) ==
  LET glob[i \in 1..(Len(p) + 1), j \in 1..(Len(t) + 1)] ==
        IF i > Len(p) THEN j > Len(t)
        ELSE IF p[i] = Star THEN glob[i + 1, j] \/ (j <= Len(t) /\ glob[i, j + 1])
        ELSE IF j > Len(t) THEN FALSE
        ELSE IF p[i] = Question THEN glob[i + 1, j + 1]
        ELSE LET class == IF p[i] = Open THEN CharacterClass(p, i, t[j]) ELSE None IN
             IF class # None THEN class.holds /\ glob[class.end + 1, j + 1]
             ELSE p[i] = t[j] /\ glob[i + 1, j + 1] IN
  glob[1, 1]

(* EventPattern: an exact type or a glob.  Route::matches.                 *)
PatternMatches(accept, type) ==
  IF accept.exact THEN accept.text = type ELSE GlobSuffix(accept.text, type)
RouteMatches(route, e) == \E n \in DOMAIN route.accepts : PatternMatches(route.accepts[n], e.type)

-----------------------------------------------------------------------------
(* render_event_template: the payload of the event comes before its        *)
(* attributes; a field that neither has is an error.                       *)
Attribute(e, field) ==
  CASE field = "id" -> e.id [] field = "event_type" -> e.type [] OTHER -> None
Field(e, field) ==
  IF field \in DOMAIN e.payload THEN e.payload[field] ELSE Attribute(e, field)

Renders(template, e) ==
  \A n \in DOMAIN template : template[n].field = None \/ Field(e, template[n].field) # None
Rendered(template, e) ==
  FlattenSeq([n \in DOMAIN template |->
    IF template[n].field = None THEN template[n].literal ELSE Field(e, template[n].field)])

(* SessionId::for_agent                                                    *)
ForAgent(agent, suffix) == IF suffix = None THEN agent ELSE agent \o <<Slash>> \o suffix

Resolvable(route, e) == route.session.rule = "template" => Renders(route.session.template, e)
Session(route, e) ==
  ForAgent(route.agent,
    CASE route.session.rule = "shared" -> None
      [] route.session.rule = "per-event" -> e.id
      [] route.session.rule = "template" -> Rendered(route.session.template, e))

-----------------------------------------------------------------------------
(* pending_queue_item_id and queue_item_id, without their common prefix.   *)
SafeAgentId(agent) ==
  [n \in DOMAIN agent |-> IF agent[n] \in {Colon, Dot} THEN Underscore ELSE agent[n]]
PendingQueueItemId(id) == id
QueueItemId(id, agent) == id \o <<Underscore>> \o SafeAgentId(agent)

(* route_event: every matching route in its order; the only match takes    *)
(* over the item that was queued with the event; one session that cannot   *)
(* be resolved fails them all.                                             *)
RouteEvent(routes, e) ==
  LET hits == SelectSeq(routes, LAMBDA r : RouteMatches(r, e)) IN
  IF \E n \in DOMAIN hits : ~Resolvable(hits[n], e) THEN None
  ELSE [n \in DOMAIN hits |->
         [agent |-> hits[n].agent, session |-> Session(hits[n], e),
          item |-> IF Len(hits) = 1 THEN PendingQueueItemId(e.id)
                   ELSE QueueItemId(e.id, hits[n].agent)]]

Init ==
  /\ pattern \in Patterns /\ text \in Texts /\ table = None /\ event = None
  /\ matched = None /\ decisions = None

Match ==
  /\ matched = None /\ table = None
  /\ matched' = GlobSuffix(pattern, text)
  /\ UNCHANGED <<pattern, text, table, event, decisions>>

(* A table is reused for every event: the questions about routes start     *)
(* from the empty pattern.                                                 *)
Route ==
  /\ pattern = <<>> /\ text = <<>> /\ matched = None
  /\ table' \in Tables /\ event' \in Events
  /\ decisions' = RouteEvent(table', event')
  /\ UNCHANGED <<pattern, text, matched>>

Next == Match \/ Route

Spec == Init /\ [][Next]_vars

-----------------------------------------------------------------------------
(* The reference meaning of a glob: the set of text positions reachable    *)
(* after each unit of the pattern, from left to right.                     *)
Forward(p, t) ==
  LET skip(i) == LET class == IF p[i] = Open THEN CharacterClass(p, i, 0) ELSE None IN
                 IF class = None THEN i + 1 ELSE class.end + 1
      accepts(i, c) ==
        \/ p[i] = Question
        \/ p[i] = Open /\ CharacterClass(p, i, c) # None /\ CharacterClass(p, i, c).holds
        \/ p[i] = c /\ (p[i] = Open => CharacterClass(p, i, c) = None)
      reach[i \in 1..(Len(p) + 1)] ==
        IF i = 1 THEN {0}
        ELSE LET before == {k \in 1..(i - 1) : skip(k) = i /\ reach[k] # {}} IN
             UNION {IF p[k] = Star
                    THEN {s \in 0..Len(t) : \E r \in reach[k] : r <= s}
                    ELSE {s \in 1..Len(t) : s - 1 \in reach[k] /\ accepts(k, t[s])} : k \in before} IN
  Len(t) \in reach[Len(p) + 1]

TypeOK ==
  /\ matched \in BOOLEAN \union {None}
  /\ decisions # None => Len(decisions) <= Len(table)

(* The backtracking matcher accepts exactly the types a left to right      *)
(* reading of the pattern accepts: stars that match nothing, unclosed      *)
(* brackets and ranges included.                                           *)
GlobsMeanPatterns == matched # None => matched = Forward(pattern, text)

(* Every agent with a route that accepts the event is decided for, in the  *)
(* order of declaration, and no other agent.                               *)
EveryMatchIsDecided ==
  decisions # None =>
    LET hit(r) == \E n \in DOMAIN r.accepts :
          IF r.accepts[n].exact THEN r.accepts[n].text = event.type
          ELSE Forward(r.accepts[n].text, event.type) IN
    [n \in DOMAIN decisions |-> decisions[n].agent]
      = [n \in DOMAIN SelectSeq(table, hit) |-> SelectSeq(table, hit)[n].agent]

(* Agents never share a session: whatever the events and the templates     *)
(* say, two agents of a project resolve to different session ids.          *)
SessionsSeparateAgents ==
  decisions # None =>
    \A m, n \in DOMAIN decisions : m # n => decisions[m].session # decisions[n].session

(* The documented rule that the compound identity remains unambiguous: no  *)
(* queue item of an event is an item of another event.                     *)
ItemsAreUnambiguous ==
  decisions # None =>
    \A other \in {e \in Events : e.id # event.id} :
      LET theirs == RouteEvent(table, other) IN
      theirs # None =>
        \A m \in DOMAIN decisions, n \in DOMAIN theirs : decisions[m].item # theirs[n].item
=============================================================================
