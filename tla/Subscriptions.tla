---------------------------- MODULE Subscriptions ---------------------------
(***************************************************************************)
(* Connector subscriptions of the actor: poll_subscriptions and the        *)
(* durable cursors of crates/zeta/src/runtime.rs.  A poll asks every       *)
(* target in turn, ingests the events of its batch one transaction at a    *)
(* time, and records the cursors once every target has answered.  Any      *)
(* error ends the poll; a crash ends the process.                          *)
(***************************************************************************)
EXTENDS Naturals, Sequences, FiniteSets, SequencesExt

CONSTANTS
  Targets,       \* sequence of subscription targets, in the order of keys
  Key(_, _),     \* idempotency key of a target's n-th event
  MaxUpstream,   \* bound on the events of a target
  MaxFailures    \* bound on errors and crashes

TargetSet == {Targets[i] : i \in DOMAIN Targets}

VARIABLES
  upstream,   \* target -> events its connector has
  journal,    \* ingested keys and cursor facts, in order
  cursors,    \* SubscriptionServices.cursors
  polling,    \* index of the target in turn; 0 when no poll runs
  batch,      \* events of that target still to ingest
  advanced,   \* advanced_cursors: targets and positions to record
  failures

vars == <<upstream, journal, cursors, polling, batch, advanced, failures>>

EventFact(key) == [kind |-> "event", key |-> key]
CursorFact(t, n) == [kind |-> "cursor", key |-> t, position |-> n]
Facts == ToSet(journal)
Known(key) == \E f \in Facts : f.kind = "event" /\ f.key = key

(* load_subscription_cursors: the last fact of a subscription wins.        *)
LoadCursors(facts) ==
  [t \in TargetSet |->
     LET mine == SelectSeq(facts, LAMBDA f : f.kind = "cursor" /\ f.key = t)
     IN  IF mine = <<>> THEN 0 ELSE Last(mine).position]

Idle == polling' = 0 /\ batch' = <<>> /\ advanced' = <<>>

Init ==
  /\ upstream = [t \in TargetSet |-> 0]
  /\ journal = <<>> /\ cursors = LoadCursors(<<>>)
  /\ polling = 0 /\ batch = <<>> /\ advanced = <<>> /\ failures = 0

Arrive(t) ==
  /\ upstream[t] < MaxUpstream
  /\ upstream' = [upstream EXCEPT ![t] = @ + 1]
  /\ UNCHANGED <<journal, cursors, polling, batch, advanced, failures>>

(* The subscription tick is due.                                           *)
StartPoll ==
  /\ polling = 0
  /\ polling' = 1
  /\ UNCHANGED <<upstream, journal, cursors, batch, advanced, failures>>

InTurn == Targets[polling]

(* One call of a connector: the events after the cursor up to a position, *)
(* and that position to resume from; the cursor may be left out.           *)
SubscribeUpTo_Ahead(upto, advances) ==
  /\ polling \in DOMAIN Targets /\ batch = <<>>
  /\ batch' = [n \in 1 .. upto - cursors[InTurn] |-> cursors[InTurn] + n]
  /\ advanced' = IF advances THEN Append(advanced, CursorFact(InTurn, upto))
                 ELSE advanced
  /\ polling' = IF upto = cursors[InTurn] THEN polling + 1 ELSE polling
  /\ cursors' = IF advances THEN [cursors EXCEPT ![InTurn] = upto] ELSE cursors
  /\ UNCHANGED <<upstream, journal, failures>>
SubscribeUpTo(upto, advances) ==
  /\ polling \in DOMAIN Targets /\ batch = <<>>
  /\ batch' = [n \in 1 .. upto - cursors[InTurn] |-> cursors[InTurn] + n]
  /\ advanced' = IF advances THEN Append(advanced, CursorFact(InTurn, upto))
                 ELSE advanced
  /\ polling' = IF upto = cursors[InTurn] THEN polling + 1 ELSE polling
  /\ UNCHANGED <<upstream, journal, cursors, failures>>

Subscribe ==
  /\ polling \in DOMAIN Targets
  /\ \E upto \in cursors[InTurn] .. upstream[InTurn], advances \in BOOLEAN :
       SubscribeUpTo(upto, advances)

(* ingest_and_route of the next event of the batch: a known key inserts    *)
(* nothing.                                                                *)
IngestOne ==
  /\ polling \in DOMAIN Targets /\ batch # <<>>
  /\ journal' = IF Known(Key(InTurn, Head(batch))) THEN journal
                ELSE Append(journal, EventFact(Key(InTurn, Head(batch))))
  /\ batch' = Tail(batch)
  /\ polling' = IF Len(batch) = 1 THEN polling + 1 ELSE polling
  /\ UNCHANGED <<upstream, cursors, advanced, failures>>

(* The cursors, after the last target: the fact first, then memory.  The   *)
(* code stores a fact that repeats the last one too; the model keeps one.  *)
Recorded(fact) ==
  IF cursors[fact.key] = fact.position THEN journal ELSE Append(journal, fact)

RecordCursor ==
  /\ polling > Len(Targets) /\ advanced # <<>>
  /\ journal' = Recorded(Head(advanced))
  /\ cursors' = [cursors EXCEPT ![Head(advanced).key] = Head(advanced).position]
  /\ advanced' = Tail(advanced)
  /\ UNCHANGED <<upstream, polling, batch, failures>>

EndPoll ==
  /\ polling > Len(Targets) /\ advanced = <<>>
  /\ Idle
  /\ UNCHANGED <<upstream, journal, cursors, failures>>

(* An error of the host, of a key, of routing (the event is in the journal *)
(* by then) or of the journal ends the poll.                               *)
PollFails ==
  /\ polling > 0 /\ failures < MaxFailures
  /\ failures' = failures + 1
  /\ Idle
  /\ UNCHANGED <<upstream, journal, cursors>>

Crash ==
  /\ failures < MaxFailures
  /\ failures' = failures + 1
  /\ Idle
  /\ cursors' = LoadCursors(journal)
  /\ UNCHANGED <<upstream, journal>>

Next ==
  \/ \E t \in TargetSet : Arrive(t)
  \/ StartPoll \/ Subscribe \/ IngestOne \/ RecordCursor \/ EndPoll
  \/ PollFails \/ Crash

Spec == Init /\ [][Next]_vars

(* The connector delivers all it has.                                      *)
Delivers(t) ==
  /\ polling \in DOMAIN Targets /\ InTurn = t
  /\ \E advances \in BOOLEAN : SubscribeUpTo(upstream[t], advances)

(* The actor runs a poll to its end, and a connector that is asked again   *)
(* and again delivers what it has.                                         *)
PollRuns == Subscribe \/ IngestOne \/ RecordCursor \/ EndPoll
FairSpec ==
  /\ Spec /\ WF_vars(PollRuns)
  /\ \A t \in TargetSet : SF_vars(Delivers(t))

(* The timer of the actor polls again and again.  The actor does not see   *)
(* to that by itself: see DueTicksAreServed of NativeRuntime.              *)
TimerPolls == WF_vars(StartPoll)

----------------------------------------------------------------------------
(* Every variable holds a value of its type.                               *)
TypeOK ==
  /\ cursors \in [TargetSet -> 0 .. MaxUpstream]
  /\ polling \in 0 .. Len(Targets) + 1
  /\ batch # <<>> => polling \in DOMAIN Targets
  /\ failures \in 0 .. MaxFailures

(* "Zeta stores the cursor only after it stores every event in the batch"  *)
(* (docs/python-providers.md): no position, in the journal or in memory,   *)
(* is past an event that is not stored.                                    *)
CursorNeverSkips ==
  \A t \in TargetSet :
    \A n \in 1 .. cursors[t] : Known(Key(t, n))

(* A restart resumes where the process was: memory always holds the last  *)
(* recorded cursor of every target.                                        *)
CursorsSurvive == cursors = LoadCursors(journal)

(* A connector that repeats events, because a poll failed or the process   *)
(* ended before the cursor was recorded, adds nothing: one event per key.  *)
OneEventPerKey ==
  \A m, n \in DOMAIN journal :
    (journal[m].kind = "event" /\ journal[n] = journal[m]) => m = n

EverythingStored ==
  \A t \in TargetSet : \A n \in 1 .. upstream[t] : Known(Key(t, n))

(* No event is lost between a connector and the journal, whatever polls    *)
(* failed and wherever the process ended, as long as polls come again.     *)
EveryEventArrives == TimerPolls => []<>EverythingStored
=============================================================================
