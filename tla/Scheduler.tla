------------------------------ MODULE Scheduler ------------------------------
(***************************************************************************)
(* The scheduler of crates/zeta/src/runtime_services.rs.  A tick visits    *)
(* the compiled schedules in order.  For each it appends up to three       *)
(* facts, every one in a transaction of its own: the activation of a       *)
(* schedule that catches up, the occurrence, and the decision about it.    *)
(* A tick may therefore stop between any two of them, when an append fails *)
(* or the process dies, and two handles on one database may interleave.    *)
(*                                                                         *)
(* Time is counted in minutes, the resolution of a five-field cron         *)
(* expression.  The calendar library is external: FireTimes[cron] is the   *)
(* set of instants at which it makes an expression fire, Offset[timezone]  *)
(* the distance of a time zone from UTC.                                   *)
(***************************************************************************)
EXTENDS Naturals, Sequences, SequencesExt, FiniteSetsExt

CONSTANTS
  None,
  Handles,        \* scheduler handles that tick over the same database
  Revisions,      \* the compiled schedules of each project revision
  FireTimes,      \* cron expression -> instants it fires at
  Offset,         \* time zone -> minutes ahead of UTC
  DayLength,      \* minutes in a day
  StartTime,      \* the clock when the model begins
  MaxTime         \* bound on the clock

VARIABLES
  clock,          \* current_time_ms, in minutes
  schedules,      \* Scheduler::schedules of the revision in force
  facts,          \* the scheduler's events in the journal, in cursor order
  tick            \* handle -> the progress or the result of its last tick

vars == <<clock, schedules, facts, tick>>

----------------------------------------------------------------------------
(* The calendar of one schedule. *)

Date(s, t) == (t + Offset[s.timezone]) \div DayLength

Past(s, now) == {t \in FireTimes[s.cron] : t <= now}

PreviousScheduleTime(s, now) == Max(Past(s, now))

(* The printed time carries the offset: equal in zones of equal offset.    *)
FormatScheduleTime(s, t) == <<t, Offset[s.timezone]>>

(* A schedule that may not be caught up is due on the local day it fired;  *)
(* one that may is also due later if it fired since it was activated.      *)
IsDue_CatchesUpAll(s, previous, now, activated) ==
  \/ Date(s, previous) = Date(s, now)
  \/ activated # None
IsDue(s, previous, now, activated) ==
  \/ Date(s, previous) = Date(s, now)
  \/ activated # None /\ previous >= activated

(* Idempotency keys.  The key of an occurrence names neither the position  *)
(* of the schedule nor its zone.                                           *)
ActivationKey(s) ==
  <<"activated", s.agent, s.index, s.cron, s.timezone, s.catchup>>
OccurrenceKey(s, t, now) ==
  <<"schedule", s.agent, s.cron, FormatScheduleTime(s, t)>>
DecisionKey(s, t, status) ==
  <<status, s.agent, s.index, s.cron, s.timezone, FormatScheduleTime(s, t)>>

----------------------------------------------------------------------------
(* The journal as the scheduler uses it. *)

HasKey(key) == \E n \in DOMAIN facts : facts[n].key = key
FactOf(key) == facts[CHOOSE n \in DOMAIN facts : facts[n].key = key]

(* append_trusted_event and ingest_event: a retained key resolves.         *)
AppendFact(fact) == IF HasKey(fact.key) THEN facts ELSE Append(facts, fact)

Fact(status, s, t, now, key) ==
  [status |-> status, schedule |-> s, at |-> t, observed |-> now, key |-> key]

(* The decisions of a schedule are those of its agent, index, expression   *)
(* and zone; its catch-up policy does not count.                           *)
DecisionMatches(fact, s) ==
  /\ fact.status # "occurrence"
  /\ \A field \in {"agent", "index", "cron", "timezone"} :
       fact.schedule[field] = s[field]

HasPriorActivity(s) == \E n \in DOMAIN facts : DecisionMatches(facts[n], s)

TickRecorded(s, t) ==
  \E n \in DOMAIN facts : /\ DecisionMatches(facts[n], s)
                          /\ facts[n].status # "activated"
                          /\ facts[n].at = t

----------------------------------------------------------------------------
(* One tick of a handle.  pc is "idle" between ticks, with result "ok" or  *)
(* "failed", and otherwise the append that comes next.                     *)

Current(h) == schedules[tick[h].i]
Now(h) == tick[h].now

Idle(result, now) ==
  [pc |-> "idle", i |-> 0, now |-> now, activated |-> None,
   inserted |-> FALSE, result |-> result]
Visit(i, now) ==
  [pc |-> "evaluate", i |-> i, now |-> now, activated |-> None,
   inserted |-> FALSE, result |-> None]

(* The loop goes to the next schedule, or the tick returns Ok.             *)
Advance(h) ==
  tick' = [tick EXCEPT ![h] =
             IF @.i < Len(schedules) THEN Visit(@.i + 1, @.now)
                                     ELSE Idle("ok", @.now)]

BeginTick(h) ==
  /\ tick[h].pc = "idle"
  /\ tick' = [tick EXCEPT ![h] = IF schedules = <<>> THEN Idle("ok", clock)
                                                     ELSE Visit(1, clock)]
  /\ UNCHANGED <<clock, schedules, facts>>

(* activate_schedule: the first observation is retained and returned.      *)
ActivateSchedule_Again(h) ==
  LET s == Current(h)
  IN  /\ tick[h].pc = "evaluate" /\ s.catchup = "latest"
      /\ tick[h].activated = None
      /\ facts' = AppendFact(Fact("activated", s, None, Now(h), ActivationKey(s)))
      /\ tick' = [tick EXCEPT ![h].activated = Now(h)]
      /\ UNCHANGED <<clock, schedules>>
ActivateSchedule(h) ==
  LET s == Current(h)
  IN  /\ tick[h].pc = "evaluate" /\ s.catchup = "latest"
      /\ tick[h].activated = None
      /\ facts' = AppendFact(Fact("activated", s, None, Now(h), ActivationKey(s)))
      /\ tick' = [tick EXCEPT ![h].activated =
                    IF HasKey(ActivationKey(s))
                    THEN FactOf(ActivationKey(s)).observed ELSE Now(h)]
      /\ UNCHANGED <<clock, schedules>>

(* The calendar can be searched: the activation, if any, is done.          *)
Evaluated(h) ==
  /\ tick[h].pc = "evaluate"
  /\ (Current(h).catchup = "latest") => (tick[h].activated # None)

(* An expression that never fires makes the calendar search fail, and the  *)
(* tick with it.                                                           *)
SearchFails(h) ==
  /\ Evaluated(h)
  /\ Past(Current(h), Now(h)) = {}
  /\ tick' = [tick EXCEPT ![h] = Idle("failed", @.now)]
  /\ UNCHANGED <<clock, schedules, facts>>

Found(h, due) ==
  LET s == Current(h)
  IN  /\ Evaluated(h)
      /\ Past(s, Now(h)) # {}
      /\ IsDue(s, PreviousScheduleTime(s, Now(h)), Now(h), tick[h].activated)
           = due

(* record_missed_schedule: noted once, for a schedule seen before.         *)
RecordMissedSchedule(h) ==
  LET s == Current(h)
      t == PreviousScheduleTime(s, Now(h))
  IN  /\ Found(h, FALSE)
      /\ facts' = IF HasPriorActivity(s) /\ ~TickRecorded(s, t)
                  THEN AppendFact(Fact("missed", s, t, Now(h),
                                       DecisionKey(s, t, "missed")))
                  ELSE facts
      /\ Advance(h)
      /\ UNCHANGED <<clock, schedules>>

IngestOccurrence(h) ==
  LET s == Current(h)
      t == PreviousScheduleTime(s, Now(h))
      key == OccurrenceKey(s, t, Now(h))
  IN  /\ Found(h, TRUE)
      /\ facts' = AppendFact(Fact("occurrence", s, t, Now(h), key))
      /\ tick' = [tick EXCEPT ![h].pc = "decide", ![h].inserted = ~HasKey(key)]
      /\ UNCHANGED <<clock, schedules>>

(* The decision: published when this tick inserted the occurrence or found *)
(* it without a decision, skipped otherwise.                               *)
RecordDecision(h) ==
  LET s == Current(h)
      t == PreviousScheduleTime(s, Now(h))
      status == IF tick[h].inserted \/ ~TickRecorded(s, t)
                THEN "published" ELSE "skipped"
  IN  /\ tick[h].pc = "decide"
      /\ facts' = AppendFact(Fact(status, s, t, Now(h), DecisionKey(s, t, status)))
      /\ Advance(h)
      /\ UNCHANGED <<clock, schedules>>

(* An identity or persistence error, or the death of the process, ends the *)
(* tick wherever it stands; what it appended stays.                        *)
FailTick(h) ==
  /\ tick[h].pc # "idle"
  /\ tick' = [tick EXCEPT ![h] = Idle("failed", @.now)]
  /\ UNCHANGED <<clock, schedules, facts>>

----------------------------------------------------------------------------
(* status: derived from the retained decisions alone. *)

StatusRow(s, now) ==
  LET t == PreviousScheduleTime(s, now)
      decided == {n \in DOMAIN facts : /\ DecisionMatches(facts[n], s)
                                       /\ facts[n].at = t}
      published == {n \in DOMAIN facts : /\ DecisionMatches(facts[n], s)
                                         /\ facts[n].status = "published"}
  IN  [status |-> IF decided = {} THEN "pending" ELSE facts[Max(decided)].status,
       last_published_at |->
         IF published = {} THEN None ELSE facts[Max(published)].at]

----------------------------------------------------------------------------
AdvanceClock ==
  /\ clock < MaxTime
  /\ clock' = clock + 1
  /\ UNCHANGED <<schedules, facts, tick>>

(* reload_actor compiles the schedules of the new revision, between ticks. *)
Reload ==
  /\ \A h \in Handles : tick[h].pc = "idle"
  /\ schedules' \in Revisions \ {schedules}
  /\ tick' = [h \in Handles |-> Idle(None, clock)]
  /\ UNCHANGED <<clock, facts>>

Init ==
  /\ clock = StartTime
  /\ schedules \in Revisions
  /\ facts = <<>>
  /\ tick = [h \in Handles |-> Idle(None, StartTime)]

Next ==
  \/ AdvanceClock
  \/ Reload
  \/ \E h \in Handles :
       \/ BeginTick(h) \/ ActivateSchedule(h) \/ SearchFails(h)
       \/ RecordMissedSchedule(h) \/ IngestOccurrence(h) \/ RecordDecision(h)
       \/ FailTick(h)

Spec == Init /\ [][Next]_vars

(* A tick that has begun runs to its end; that appends never fail again is *)
(* assumed by leaving FailTick out.                                        *)
TickRuns(h) ==
  \/ ActivateSchedule(h) \/ SearchFails(h)
  \/ RecordMissedSchedule(h) \/ IngestOccurrence(h) \/ RecordDecision(h)
ReliableNext == AdvanceClock \/ \E h \in Handles : BeginTick(h) \/ TickRuns(h)
ReliableSpec ==
  Init /\ [][ReliableNext]_vars /\ \A h \in Handles : WF_vars(TickRuns(h))

(* The timer of the actor ticks again and again.  The actor does not see   *)
(* to that by itself: see DueTicksAreServed of NativeRuntime.              *)
TimerTicks == \A h \in Handles : WF_vars(BeginTick(h))

----------------------------------------------------------------------------
(* Every fact and every tick has its shape.                                *)
TypeOK ==
  /\ clock \in StartTime .. MaxTime
  /\ schedules \in Revisions
  /\ \A n \in DOMAIN facts :
       /\ facts[n].status \in {"activated", "occurrence", "published",
                               "skipped", "missed"}
       /\ facts[n].observed \in StartTime .. clock
       /\ (facts[n].at = None) <=> (facts[n].status = "activated")
  /\ \A h \in Handles :
       /\ tick[h].pc \in {"idle", "evaluate", "decide"}
       /\ tick[h].i \in 0 .. Len(schedules)
       /\ (tick[h].pc = "idle") <=> (tick[h].i = 0)

Before(n, m, status) ==
  /\ n < m
  /\ facts[n].status = status
  /\ facts[n].schedule.agent = facts[m].schedule.agent
  /\ facts[n].schedule.cron = facts[m].schedule.cron
  /\ facts[n].at = facts[m].at

(* An instant of an agent's expression becomes one event, whatever ticks   *)
(* were cut short, repeated or run side by side, and a decision that       *)
(* speaks of a publication comes after the event (the idempotency keys).   *)
OneEventPerOccurrence ==
  \A m \in DOMAIN facts :
    /\ facts[m].status = "occurrence" =>
         ~ \E n \in DOMAIN facts :
             /\ Before(n, m, "occurrence")
             /\ Offset[facts[n].schedule.timezone]
                  = Offset[facts[m].schedule.timezone]
    /\ facts[m].status \in {"published", "skipped"} =>
         \E n \in DOMAIN facts : Before(n, m, "occurrence")

(* "Skipped" says the occurrence was already published: the schedule has a *)
(* decision about that instant before it, even when the tick that ingested *)
(* the event stopped before deciding (the repair in tick).                 *)
SkippedWasDecided ==
  \A m \in DOMAIN facts :
    facts[m].status = "skipped" =>
      \E n \in 1 .. (m - 1) : /\ DecisionMatches(facts[n], facts[m].schedule)
                              /\ facts[n].status \in {"published", "missed"}
                              /\ facts[n].at = facts[m].at

(* A tick that returned Ok served every schedule: what was due at its time *)
(* is an event of the journal, and status shows the decision about it.     *)
CompletedTickServes ==
  \A h \in Handles :
    tick[h].result = "ok" =>
      \A i \in DOMAIN schedules :
        LET s == schedules[i]
            t == PreviousScheduleTime(s, Now(h))
        IN  /\ Past(s, Now(h)) # {}
            /\ Date(s, t) = Date(s, Now(h)) =>
                 /\ HasKey(OccurrenceKey(s, t, Now(h)))
                 /\ StatusRow(s, Now(h)).status \in {"published", "skipped"}

(* On a later day, only an instant after the activation of the schedule is *)
(* caught up, although ticks are repeated and the policy may be turned off *)
(* and on again (docs/concepts.md:349).                                    *)
NoCatchupBeforeActivation ==
  \A n \in DOMAIN facts :
    LET s == facts[n].schedule
    IN  /\ facts[n].status = "occurrence"
        /\ Date(s, facts[n].at) # Date(s, facts[n].observed)
        => \E m \in 1 .. (n - 1) : /\ facts[m].key = ActivationKey(s)
                                   /\ facts[m].observed <= facts[n].at

(* One handle publishes the instants of a schedule in the order they fire, *)
(* although ticks stop, come late and resume under another policy.         *)
OccurrencesInOrder ==
  \A m, n \in DOMAIN facts :
    /\ m < n
    /\ facts[m].status = "occurrence" /\ facts[n].status = "occurrence"
    /\ facts[m].schedule = facts[n].schedule
    => facts[m].at < facts[n].at

LatestIsServed ==
  \A i \in DOMAIN schedules : \A t \in FireTimes[schedules[i].cron] :
    (/\ schedules[i].catchup = "latest" /\ t <= clock
     /\ HasKey(ActivationKey(schedules[i]))
     /\ FactOf(ActivationKey(schedules[i])).observed <= t)
    => \E n \in DOMAIN facts :
         /\ facts[n].status = "occurrence" /\ facts[n].at >= t
         /\ facts[n].schedule.cron = schedules[i].cron

(* A schedule that catches up loses no latest occurrence: one that fired   *)
(* after the activation is published unless a later one takes its place,   *)
(* however long the ticks stay away, as long as they come again.           *)
LatestIsCaughtUp == TimerTicks => []<>LatestIsServed

(* The comment on tick says that retried ticks "repair missing decision    *)
(* facts": an occurrence that is in the journal is not reported missed.    *)
MissedWasNotPublished ==
  \A m \in DOMAIN facts :
    facts[m].status = "missed" =>
      ~ \E n \in DOMAIN facts : Before(n, m, "occurrence")

(* The runtime "emits all due schedule events" (docs/native-runtime.md):   *)
(* under ticks that keep coming and appends that succeed, an instant that  *)
(* stays the latest of its schedule on its day becomes an event.           *)
DueScheduleFires ==
  \A i \in 1 .. 2 : \A t \in 0 .. MaxTime :
    (/\ i \in DOMAIN schedules /\ clock = MaxTime
     /\ t \in Past(schedules[i], MaxTime)
     /\ \A u \in Past(schedules[i], MaxTime) : u <= t
     /\ Date(schedules[i], t) = Date(schedules[i], MaxTime))
    ~> i \in DOMAIN schedules /\ HasKey(OccurrenceKey(schedules[i], t, MaxTime))
=============================================================================
