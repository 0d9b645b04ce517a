----------------------------- MODULE MCServices -----------------------------
(***************************************************************************)
(* The services of the runtime's host on small instances, for TLC: session *)
(* resources, the scheduler, the agent lane with its reloads, connector    *)
(* subscriptions and routing.  A behaviour exercises the one that `part'   *)
(* names, and the others stay as they start; a component that is asked two *)
(* questions appears under two parts with different constants.             *)
(*                                                                         *)
(* The constants of the module itself are those of the agent lane under    *)
(* "claiming"; the other parts of the lane replace them.  Its invariants   *)
(* mention Events, which are the same in all three, and Capacity, which is *)
(* the largest of the three.                                               *)
(***************************************************************************)
EXTENDS AgentLane, SequencesExt, TLC

CONSTANTS
  k1, k2,                          \* idempotency keys
  e1, e2, r1, r2                   \* ingress events, project revisions

VARIABLES
  part,
  journal, work, attempts, waits, publications, held, now, inputs, losses,
  clock, schedules, facts, tick,
  upstream, log, cursors, polling, batch, advanced, failures,
  pattern, text, table, event, matched, decisions

resourceVars == <<journal, work, attempts, waits, publications, held, now, inputs, losses>>
schedulerVars == <<clock, schedules, facts, tick>>
subscriptionVars == <<upstream, log, cursors, polling, batch, advanced, failures>>
routeVars == <<pattern, text, table, event, matched, decisions>>
servicesVars == <<part, resourceVars, schedulerVars, vars,
                  subscriptionVars, routeVars>>
-----------------------------------------------------------------------------
(* Session resources.  Events of type "ask" are bound to the session of    *)
(* agent "a"; "done" is what its turns wait for.                           *)
RoutesOf == [ask |-> {<<"a", "s1">>}, done |-> {}]
Wait(type, value, deadline) ==
  [op |-> "wait", type |-> type, value |-> value, at |-> deadline]
Publish(type, value, at) ==
  [op |-> "publish", type |-> type, value |-> value, at |-> at]
Cancel(resource, handle) ==
  [op |-> "cancel", resource |-> resource, handle |-> handle]

(* Waits, a publication they match that is due before, at and after their  *)
(* deadline, and cancellations.                                            *)
RaceProposals ==
  {<<>>, <<Wait("done", "x", 2)>>, <<Publish("done", "x", 1)>>,
   <<Publish("done", "x", 2)>>, <<Cancel("publication", <<1, 1>>)>>}
Races == INSTANCE SessionResources WITH
  items <- work,
  EventTypes <- {"ask", "done"},
  Inputs <- {<<"ask", "x", None>>}, Messages <- {<<"b", "s2", None>>},
  Proposals <- RaceProposals, Failures <- {}, CancelTargets <- {},
  MaxInputs <- 2, MaxResources <- 2, MaxAttempts <- 1, MaxLosses <- 0, MaxTime <- 3

(* Several controls in one completion, some of them refused, and messages  *)
(* and events that reach a waiting session.                                *)
TurnInputs == {<<"ask", "x", None>>, <<"done", "x", k2>>}
TurnMessages == {<<"a", "s1", k1>>}
TurnProposals ==
  {<<>>, <<Wait("done", "x", None)>>,
   <<Publish("done", "x", None), Wait("done", None, None)>>,
   <<Cancel("wait", <<1, 1>>), Wait("done", "y", None)>>}
Turns == INSTANCE SessionResources WITH
  items <- work,
  EventTypes <- {"ask", "done"}, Inputs <- TurnInputs, Messages <- TurnMessages,
  Proposals <- TurnProposals, Failures <- {"agent"}, CancelTargets <- {1},
  MaxInputs <- 2, MaxResources <- 2, MaxAttempts <- 2, MaxLosses <- 0, MaxTime <- 0

(* The same turns with a worker that is lost.                              *)
Lost == INSTANCE SessionResources WITH
  items <- work,
  EventTypes <- {"ask", "done"}, Inputs <- TurnInputs, Messages <- TurnMessages,
  Proposals <- TurnProposals, Failures <- {}, CancelTargets <- {1},
  MaxInputs <- 2, MaxResources <- 2, MaxAttempts <- 2, MaxLosses <- 1, MaxTime <- 0
-----------------------------------------------------------------------------
(* The scheduler, with days of three minutes.                              *)
FireTimes == [daily |-> {0, 3}, often |-> {1, 2, 4}, never |-> {}]
Offset == [UTC |-> 0, GMT |-> 0]
Schedule(index, cron, timezone, catchup) ==
  [agent |-> "a", index |-> index, cron |-> cron, timezone |-> timezone,
   catchup |-> catchup]

(* Catch-up turned on and off for one schedule, with one beside it whose   *)
(* calendar search fails.                                                  *)
PolicyRevisions ==
  {<<Schedule(1, "often", "UTC", "latest")>>,
   <<Schedule(1, "often", "UTC", None), Schedule(2, "never", "UTC", None)>>}
Policies == INSTANCE Scheduler WITH
  Handles <- {1}, DayLength <- 3, StartTime <- 2, MaxTime <- 5,
  Revisions <- PolicyRevisions

(* Two handles on one database, and schedules of one agent and expression  *)
(* that differ by position and by a zone of the same offset.               *)
Neighbours ==
  {<<Schedule(1, "daily", "UTC", None), Schedule(2, "daily", "GMT", "latest")>>}
TwoHandles == INSTANCE Scheduler WITH
  Handles <- {1, 2}, DayLength <- 3, StartTime <- 2, MaxTime <- 3,
  Revisions <- Neighbours
-----------------------------------------------------------------------------
(* The agent lane: with two places; with one place, a restart and reloads  *)
(* forth and back; and with a restart and a reload that is refused.        *)
Reloading == INSTANCE AgentLane WITH
  Capacity <- 1, MaxCrashes <- 1, MaxReloads <- 2
Refusing == INSTANCE AgentLane WITH
  Unadoptable <- {r2}, Capacity <- 1, MaxCrashes <- 1, MaxReloads <- 1

(* The events of the lane are interchangeable.                             *)
Symmetry == Permutations(Events)
-----------------------------------------------------------------------------
(* Two subscriptions; the second sees the first event of the first too.    *)
Key(t, n) == IF n = 1 THEN <<"shared", 1>> ELSE <<t, n>>
Polls == INSTANCE Subscriptions WITH
  journal <- log, Targets <- <<"mail", "chat">>, MaxUpstream <- 2, MaxFailures <- 3

(* Routing: every short pattern, every class of up to four characters, and *)
(* tables whose agents differ by a separator.                              *)
a == 97
b == 98
Lit(s) == [field |-> None, literal |-> s]
Field(f) == [field |-> f, literal |-> <<>>]
Glob(p) == [exact |-> FALSE, text |-> p]
Exact(p) == [exact |-> TRUE, text |-> p]
Binding(agent, accepts, rule, template) ==
  [agent |-> agent, accepts |-> accepts, session |-> [rule |-> rule, template |-> template]]
Star == 42
Question == 63
Open == 91
Closing == 93
Bang == 33
Dash == 45
Slash == 47
Underscore == 95
Keyed == Binding(<<a>>, <<Glob(<<a, Star>>)>>, "template", <<Field("k")>>)
Shared == Binding(<<a, b>>, <<Exact(<<b>>), Glob(<<Star, b>>)>>, "shared", <<>>)
Named == Binding(<<a, Dash>>, <<Glob(<<Star>>)>>, "template",
                 <<Field("event_type"), Lit(<<Slash>>), Field("id")>>)
Single == Binding(<<b>>, <<Exact(<<a, b>>)>>, "per-event", <<>>)
Patterns ==
  BoundedSeq({Star, Question, Open, Closing, Bang, a}, 3)
    \cup {<<Open>> \o s : s \in BoundedSeq({Closing, Bang, Dash, a, b, Star}, 4)}
Tables == {<<Keyed>>, <<Keyed, Shared>>, <<Shared, Named>>, <<Named, Keyed, Shared>>,
           <<Single, Keyed>>, <<Shared, Single, Named>>}
Routed == [id : {<<1>>, <<1, Underscore, a>>}, type : {<<a>>, <<a, b>>, <<b>>},
           payload : {<<>>, [k |-> <<b>>], [k |-> <<Slash, b>>, id |-> <<>>]}]
Texts == BoundedSeq({a, b, Open}, 2)
Routes == INSTANCE RouteMatching WITH Events <- Routed
-----------------------------------------------------------------------------
ServicesInit ==
  /\ part \in {"races", "turns", "lost", "policies", "handles",
              "reloading", "refusing", "claiming", "polls", "routes"}
  /\ Turns!Init
  /\ IF part = "policies" THEN Policies!Init ELSE TwoHandles!Init
  /\ Init
  /\ Polls!Init
  /\ IF part = "routes" THEN Routes!Init
     ELSE /\ pattern = <<>> /\ text = <<>> /\ table = <<>> /\ event = None
          /\ matched = None /\ decisions = None

RacesNext == part = "races" /\ Races!Next
TurnsNext == part = "turns" /\ Turns!Next
LostNext == part = "lost" /\ Lost!Next
PoliciesNext == part = "policies" /\ Policies!Next
HandlesNext == part = "handles" /\ TwoHandles!Next
ReloadingNext == part = "reloading" /\ Reloading!Next
RefusingNext == part = "refusing" /\ Refusing!Next
ClaimingNext == part = "claiming" /\ Next
PollsNext == part = "polls" /\ Polls!Next
RoutesNext == part = "routes" /\ Routes!Next

ServicesNext ==
  \/ /\ RacesNext \/ TurnsNext \/ LostNext
     /\ UNCHANGED <<part, schedulerVars, vars, subscriptionVars, routeVars>>
  \/ /\ PoliciesNext \/ HandlesNext
     /\ UNCHANGED <<part, resourceVars, vars, subscriptionVars, routeVars>>
  \/ /\ ReloadingNext \/ RefusingNext \/ ClaimingNext
     /\ UNCHANGED <<part, resourceVars, schedulerVars,
                    subscriptionVars, routeVars>>
  \/ /\ PollsNext
     /\ UNCHANGED <<part, resourceVars, schedulerVars, vars, routeVars>>
  \/ /\ RoutesNext
     /\ UNCHANGED <<part, resourceVars, schedulerVars, vars, subscriptionVars>>

ServicesSpec == ServicesInit /\ [][ServicesNext]_servicesVars
-----------------------------------------------------------------------------
(* Whatever match, timeout and cancellation race, a resource ends once: a  *)
(* wait has the one item that continues its session exactly when it was    *)
(* matched or timed out, and a deferred publication's event is in the      *)
(* journal exactly when it was published, never if it was cancelled.       *)
ResourcesEndOnce ==
  part = "races" => Races!OneEndOneContinuation /\ Races!PublishedOrCancelled

(* The controls of a completed turn are applied all or none, also when the *)
(* turn is tried again after its worker was lost; a session never waits for *)
(* two things at once; and a message that is submitted again ends no wait  *)
(* the session has entered since.                                          *)
ControlsTakeEffectOnce ==
  /\ part = "turns" =>
       /\ Turns!RecordedControlsApplied /\ Turns!WaitYieldsOnlyToNewMessage
       /\ Turns!OneActiveWaitPerSession
  /\ part = "lost" =>
       /\ Lost!RecordedControlsApplied /\ Lost!WaitYieldsOnlyToNewMessage
       /\ Lost!OneActiveWaitPerSession

(* An instant of an agent's expression becomes one event, and the instants *)
(* of a schedule are published in order, whatever ticks were cut short,    *)
(* late, repeated or run side by side; "skipped" is said only of what was  *)
(* decided before, nothing from before the activation is caught up, and a  *)
(* tick that returned Ok served every schedule that was due at its time.   *)
OccurrencesAreExact ==
  /\ part = "policies" =>
       /\ Policies!OneEventPerOccurrence /\ Policies!OccurrencesInOrder
       /\ Policies!SkippedWasDecided /\ Policies!NoCatchupBeforeActivation
       /\ Policies!CompletedTickServes
  /\ part = "handles" =>
       /\ TwoHandles!OneEventPerOccurrence /\ TwoHandles!SkippedWasDecided
       /\ TwoHandles!CompletedTickServes

(* No cursor of a subscription is past an event that is not stored, memory *)
(* holds the last recorded cursors, and a connector that repeats events    *)
(* because a poll failed or the process ended adds nothing.                *)
PollsLoseNothing ==
  part = "polls" => Polls!CursorNeverSkips /\ Polls!CursorsSurvive /\ Polls!OneEventPerKey

(* The backtracking matcher accepts exactly the types a left to right      *)
(* reading of the pattern accepts; every agent it accepts for, and no      *)
(* other, is decided for in the order of declaration; and two agents never *)
(* share a session, whatever the events and the templates say.             *)
RoutesMeanTheirPatterns ==
  part = "routes" =>
    /\ Routes!GlobsMeanPatterns
    /\ Routes!EveryMatchIsDecided
    /\ Routes!SessionsSeparateAgents
=============================================================================
