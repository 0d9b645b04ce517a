----------------------------- MODULE MCProgress -----------------------------
(***************************************************************************)
(* What must eventually happen, on small instances for TLC: the components *)
(* that wait for a timer, a thread, a peer or a retry, each under the      *)
(* fairness of its own specification.  A behaviour exercises the one that  *)
(* `part' names, and the others stay as they start.                        *)
(***************************************************************************)
EXTENDS Naturals, Sequences, FiniteSets

CONSTANTS
  None, NoId, Never,
  e1, e2, r1, r2,          \* events and revisions of the lane
  u1, u2, q1,              \* processes: ups and a reload
  i1, i2,                  \* request identifiers
  w1, w2                   \* worker threads

VARIABLES
  part,
  effects, effect_claims, published, pc, claim, active_egress, timers, workers, calls,
  crashes, losses, slips,
  journal, items, attempts, waits, publications, held, now, inputs, lost,
  clock, schedules, facts, tick,
  lane, order, expired, archive, disk, app, revision, targets, active, threads, step, hand,
  reloading, serving, failed, ends, reloads,
  lock, metadata, socket, command, target, result, announced, parent, stop, kills,
  upstream, stored, cursors, polling, batch, advanced, failures,
  attempt, state, stage, abort, turn, writes, trace, outcomes, objects, executions,
  registered, holder, phase, worker, process, requested, answered, starts, running,
  sandboxes,
  source, arrived, generating, elapsed, deadline, received, sse, answer, shown, raised,
  outcome, message,
  log, broadcast, connection, requests, answers, pending, refreshes, replay, repair, view,
  mode, sessions, draft, submissions, displayed, cursor, texts, sent, breaks,
  session, channel, faults, asked, resolved, foreign

runtimeVars == <<effects, effect_claims, published, pc, claim, active_egress, timers,
                 workers, calls, crashes, losses, slips>>
resourceVars == <<journal, items, attempts, waits, publications, held, now, inputs, lost>>
schedulerVars == <<clock, schedules, facts, tick>>
laneVars == <<lane, order, expired, archive, disk, app, revision, targets, active, threads,
              step, hand, reloading, serving, failed, ends, reloads>>
ownerVars == <<lock, metadata, socket, command, target, result, announced, parent, stop,
               kills>>
pollVars == <<upstream, stored, cursors, polling, batch, advanced, failures>>
runnerVars == <<attempt, state, stage, abort, turn, writes, trace, outcomes, objects,
                executions>>
hostVars == <<registered, holder, phase, worker, process, requested, answered, starts,
              running, sandboxes>>
modelVars == <<source, arrived, generating, elapsed, deadline, received, sse, answer, shown,
               raised, outcome, message>>
terminalVars == <<log, broadcast, connection, requests, answers, pending, refreshes, replay,
                  repair, view, mode, sessions, draft, submissions, displayed, cursor, texts,
                  sent, breaks>>
ipcVars == <<session, channel, faults, asked, resolved, foreign>>

kernelVars == <<runtimeVars, resourceVars>>
serviceVars == <<schedulerVars, laneVars, ownerVars, pollVars>>
agentVars == <<runnerVars, hostVars, modelVars>>
wireVars == <<terminalVars, ipcVars>>
vars == <<part, kernelVars, serviceVars, agentVars, wireVars>>
-----------------------------------------------------------------------------
(* Egress with one place and one effect that is unsafe to retry, in a      *)
(* process that ends once.                                                 *)
Runtime == INSTANCE NativeRuntime WITH
  MaxEffects <- 2, Unsafe <- {1}, Unplannable <- {}, EgressLease <- 2, Heartbeat <- 1,
  MaxTokens <- 3, EgressCapacity <- 1, Timers <- {"schedule"},
  Interval <- [schedule |-> 3], MaxAttempts <- 2, RetryDelay <- 1,
  MaxCrashes <- 1, MaxLosses <- 0, MaxSlips <- 0

(* Waits, a publication they match that is due before, at and after their  *)
(* deadline, and cancellations.                                            *)
RoutesOf == [ask |-> {<<"a", "s1">>}, done |-> {}]
Proposals ==
  {<<>>,
   <<[op |-> "wait", type |-> "done", value |-> "x", at |-> 2]>>,
   <<[op |-> "publish", type |-> "done", value |-> "x", at |-> 1]>>,
   <<[op |-> "publish", type |-> "done", value |-> "x", at |-> 2]>>,
   <<[op |-> "cancel", resource |-> "publication", handle |-> <<1, 1>>]>>}
Resources == INSTANCE SessionResources WITH
  losses <- lost, EventTypes <- {"ask", "done"},
  Inputs <- {<<"ask", "x", None>>}, Messages <- {<<"b", "s2", None>>},
  Failures <- {}, CancelTargets <- {},
  MaxInputs <- 2, MaxResources <- 2, MaxAttempts <- 1, MaxLosses <- 0, MaxTime <- 2
-----------------------------------------------------------------------------
(* A schedule that catches up beside one that does not.                    *)
FireTimes == [daily |-> {0, 3}, often |-> {1, 2, 4}]
Offset == [UTC |-> 0, East |-> 1]
Schedules ==
  <<[agent |-> "a", index |-> 1, cron |-> "often", timezone |-> "UTC", catchup |-> "latest"],
    [agent |-> "a", index |-> 2, cron |-> "daily", timezone |-> "East", catchup |-> None]>>
Ticks == INSTANCE Scheduler WITH
  Handles <- {1}, Revisions <- {Schedules}, DayLength <- 3, StartTime <- 1, MaxTime <- 6

(* A lane with one place and a reload that is refused.                     *)
Lane == INSTANCE AgentLane WITH
  items <- lane, workers <- threads, pc <- step, crashes <- ends,
  Events <- {e1, e2}, Revisions <- {r1, r2}, First <- r1,
  Unroutable <- {}, Unadoptable <- {r2},
  Capacity <- 1, MaxAttempts <- 2, MaxClaims <- 2, MaxCrashes <- 0, MaxReloads <- 1

(* Two runtimes that start, a reload, and a process that is killed.        *)
Owner == INSTANCE RuntimeOwner WITH
  pc <- command, crashes <- kills,
  Ups <- {u1, u2}, Downs <- {}, Statuses <- {}, Reloads <- {q1}, Detached <- {},
  MaxCrashes <- 1

(* Two subscriptions; the second sees the first event of the first too.    *)
Key(t, n) == IF n = 1 THEN <<"shared", 1>> ELSE <<t, n>>
Polls == INSTANCE Subscriptions WITH
  journal <- stored, Targets <- <<"mail", "chat">>, MaxUpstream <- 2, MaxFailures <- 1
-----------------------------------------------------------------------------
(* One attempt of a run, with an answer that repeats the id of a call.     *)
Call(id, tool) == [id |-> id, tool |-> tool]
Kind == [bash |-> "unsafe", write |-> "idempotent",
         wait_for |-> "wait", publish_event |-> "publish"]
Messages ==
  {<<>>,
   <<Call(NoId, "bash"), Call(<<"a", 0>>, "write"), Call(<<"a", 0>>, "write")>>,
   <<Call(NoId, "ls"), Call(<<"b", 0>>, "wait_for"), Call(<<"c", 0>>, "publish_event")>>}
Runner == INSTANCE AgentRunner WITH
  journal <- trace, effects <- outcomes, Results <- {"ok", "error", "aborted"},
  MaxModelCalls <- 1, MaxAttempts <- 1

(* Two workers that share a provider host, one with a sandbox per call.    *)
Reuse == [w \in {w1, w2} |-> IF w = w1 THEN "call" ELSE "session"]
Host == INSTANCE ProviderHost WITH
  Workers <- {w1, w2}, MaxCalls <- 1, MaxStarts <- 2, Faults <- TRUE

(* A stream that ends and one that is refused halfway.                     *)
Meaning ==
  [hello |-> [kind |-> "text", text |-> "hello"], error |-> [kind |-> "error"]]
Data(e) == <<"data", e, "newline", "newline">>
Streams ==
  {[protocol |-> "chat", text |-> Data("hello") \o Data("[DONE]")],
   [protocol |-> "responses", text |-> Data("hello") \o Data("error")]}
Model == INSTANCE ModelStream WITH
  stream <- source, sent <- arrived, stage <- generating, now <- elapsed,
  abort <- raised, result <- outcome,
  First <- 3, Idle <- 2, Total <- 5, MaxEvent <- 4

(* A terminal with a message, beside an event of the runtime itself.       *)
Terminal == INSTANCE TerminalClient WITH
  known <- displayed,
  PageSize <- 1, MaxTexts <- 1, MaxSent <- 1, MaxEvents <- 1, MaxBreaks <- 1

(* Two ends of this implementation.                                        *)
Ends == INSTANCE IpcSession WITH
  sent <- asked,
  Ids <- {i1, i2}, PeerRoles <- {"source", "provider"},
  SupportedRoles <- {"source", "client", "provider"},
  PeerLimit <- 2, RuntimeLimit <- 1, Supervisor <- "runtime",
  ForeignMessages <- {}, MaxForeign <- 0, MaxSent <- 2, MaxQueued <- 2
-----------------------------------------------------------------------------
Init ==
  /\ part \in {"runtime", "resources", "ticks", "lane", "owner", "polls",
               "runner", "host", "model", "terminal", "ends"}
  /\ Runtime!Init /\ Resources!Init
  /\ Ticks!Init /\ Lane!Init /\ Owner!Init /\ Polls!Init
  /\ Runner!Init /\ Host!Init /\ Terminal!Init /\ Ends!Init
  /\ Model!Init
  /\ part = "model" \/ source.protocol = "chat"

InRuntime(A) ==
  /\ part = "runtime" /\ A
  /\ UNCHANGED <<part, resourceVars, serviceVars, agentVars, wireVars>>
InResources(A) ==
  /\ part = "resources" /\ A
  /\ UNCHANGED <<part, runtimeVars, serviceVars, agentVars, wireVars>>
InTicks(A) ==
  /\ part = "ticks" /\ A
  /\ UNCHANGED <<part, kernelVars, laneVars, ownerVars, pollVars, agentVars, wireVars>>
InLane(A) ==
  /\ part = "lane" /\ A
  /\ UNCHANGED <<part, kernelVars, schedulerVars, ownerVars, pollVars, agentVars, wireVars>>
InOwner(A) ==
  /\ part = "owner" /\ A
  /\ UNCHANGED <<part, kernelVars, schedulerVars, laneVars, pollVars, agentVars, wireVars>>
InPolls(A) ==
  /\ part = "polls" /\ A
  /\ UNCHANGED <<part, kernelVars, schedulerVars, laneVars, ownerVars, agentVars, wireVars>>
InRunner(A) ==
  /\ part = "runner" /\ A
  /\ UNCHANGED <<part, kernelVars, serviceVars, hostVars, modelVars, wireVars>>
InHost(A) ==
  /\ part = "host" /\ A
  /\ UNCHANGED <<part, kernelVars, serviceVars, runnerVars, modelVars, wireVars>>
InModel(A) ==
  /\ part = "model" /\ A
  /\ UNCHANGED <<part, kernelVars, serviceVars, runnerVars, hostVars, wireVars>>
InTerminal(A) ==
  /\ part = "terminal" /\ A
  /\ UNCHANGED <<part, kernelVars, serviceVars, agentVars, ipcVars>>
InEnds(A) ==
  /\ part = "ends" /\ A
  /\ UNCHANGED <<part, kernelVars, serviceVars, agentVars, terminalVars>>

Next ==
  \/ InRuntime(Runtime!Next) \/ InResources(Resources!Next)
  \/ InTicks(Ticks!ReliableNext) \/ InLane(Lane!Next) \/ InOwner(Owner!Next)
  \/ InPolls(Polls!Next) \/ InRunner(Runner!Next) \/ InHost(Host!Next)
  \/ InModel(Model!Next) \/ InTerminal(Terminal!Next) \/ InEnds(Ends!Next)

Spec == Init /\ [][Next]_vars
-----------------------------------------------------------------------------
(* The fairness of the components' own specifications: threads, peers,     *)
(* clocks, never clients and never the timers of the actor.  As `part'     *)
(* never changes, one condition on the disjunction of an action of each    *)
(* part says the same as one condition for each.                           *)
Fairness ==
  /\ WF_vars(\/ InRuntime(Runtime!ActorStep)
             \/ InResources(Resources!Tick)
             \/ InTicks(Ticks!TickRuns(1))
             \/ InLane(Lane!Step)
             \/ InOwner(\/ Owner!UpStep(u1) \/ Owner!ProbeStep(u1) \/ Owner!DownStep(u1))
             \/ InPolls(Polls!PollRuns)
             \/ InRunner(Runner!RunStep)
             \/ InHost(Host!CallStep(w1))
             \/ InModel(Model!Generate)
             \/ InTerminal(Terminal!Connect)
             \/ InEnds(Ends!Receive("peer")))
  /\ WF_vars(\/ InRuntime(\E w \in workers, r \in {"completed", "failed"} :
                            Runtime!WorkerReturns(w, r))
             \/ InOwner(\/ Owner!UpStep(u2) \/ Owner!ProbeStep(u2) \/ Owner!DownStep(u2))
             \/ InRunner(Runner!WriteRefused)
             \/ InHost(Host!CallStep(w2))
             \/ InModel(Model!Tick)
             \/ InTerminal(Terminal!Replay)
             \/ InEnds(Ends!Receive("runtime")))
  /\ WF_vars(\/ InLane(Lane!ReloadActor)
             \/ InOwner(\/ Owner!UpStep(q1) \/ Owner!ProbeStep(q1) \/ Owner!DownStep(q1))
             \/ InModel(Model!Expire)
             \/ InTerminal(Terminal!Ready)
             \/ InEnds(\E id \in {i1, i2} :
                         Ends!CompleteRequest("peer", id) \/ Ends!FailRequest("peer", id)))
  /\ WF_vars(\/ InLane(\E w \in threads, o \in {"completed", "failed"} :
                         Lane!WorkerReturns(w, o))
             \/ InTerminal(Terminal!Refresh)
             \/ InEnds(\E id \in {i1, i2} :
                         \/ Ends!CompleteRequest("runtime", id)
                         \/ Ends!FailRequest("runtime", id)))
  /\ WF_vars(\/ InLane(Lane!LeaseEnds(e1) /\ ~\E a \in active : a.event = e1)
             \/ InTerminal(Terminal!TakeAnswer))
  /\ WF_vars(\/ InLane(Lane!LeaseEnds(e2) /\ ~\E a \in active : a.event = e2)
             \/ InTerminal(Terminal!Serve(1)))
  /\ WF_vars(InTerminal(Terminal!TakeEvent))
  /\ SF_vars(\/ InRuntime(\E w \in workers : Runtime!EgressFinished(w))
             \/ InLane(\E w \in threads : Lane!AgentFinished(w))
             \/ InPolls(Polls!Delivers("mail")))
  /\ SF_vars(InRuntime(Runtime!Tick) \/ InPolls(Polls!Delivers("chat")))

FairSpec == Spec /\ Fairness
-----------------------------------------------------------------------------
(* Clients keep calling ingest, with new events or with old ones again.    *)
WorkArrives ==
  []<><<InRuntime(Runtime!Ingest) \/ InLane(\E e \in {e1, e2} : Lane!Ingest(e))>>_vars

(* Work ends, whatever is lost on the way, as long as work keeps arriving: *)
(* every planned effect that is safe to retry is settled, and everything   *)
(* that is routed is completed or among the dead letters, except an item   *)
(* that was claimed as often as the bound lets it.                         *)
WorkEnds ==
  WorkArrives => []<>(/\ part = "runtime" => Runtime!SafeAreSettled
                      /\ part = "lane" => Lane!NothingRouted)

(* The timers of the actor fire whenever they are due.  The code does not  *)
(* guarantee it (DueTicksAreServed of NativeRuntime is violated): it is a  *)
(* premise.                                                                *)
TimersFire ==
  /\ WF_vars(InTicks(Ticks!BeginTick(1)) \/ InPolls(Polls!StartPoll))
  /\ \/ []<>(part = "resources" => Resources!NobodyIsDue)
     \/ []<><<part = "resources" /\ Resources!AdvanceDue>>_vars

(* Nothing waits for ever to be noticed.  As long as the timers fire, what *)
(* is due ends, the latest occurrence of a schedule that catches up is     *)
(* published however long the ticks stay away, and every event of a        *)
(* connector is stored whatever polls fail.  A runtime that is asked to    *)
(* stop releases its lease, timers or not.                                 *)
ServicesKeepUp ==
  /\ TimersFire => []<>(/\ part = "resources" => Resources!NothingDue
                        /\ part = "ticks" => Ticks!LatestIsServed
                        /\ part = "polls" => Polls!EverythingStored)
  /\ []<>(part = "owner" => Owner!StoppedAreGone)

(* A run ends, by an answer, a stop, the limit, an abort or an error; and  *)
(* so does what it waits for: a generation however the server behaves, and *)
(* a host call although the provider may hang or die, unless it leaves its *)
(* input unread while a request is written: that write has no timeout.     *)
RunsEnd ==
  []<>(/\ part = "runner" => state # "running"
       /\ part = "host" => Host!Blocked \/ \A w \in {w1, w2} : ~Host!Asks(w)
       /\ part = "model" => generating = "ended")

(* A client is served through lost connections and full windows: every     *)
(* message it sends is settled, every event is shown, and the requests of  *)
(* both ends resolve unless one of the two has closed.                     *)
ClientsAreServed ==
  /\ []<>(part = "terminal" => \A id \in Terminal!Ids : ~Terminal!Sending(id))
  /\ []<>(part = "terminal" => \A n \in DOMAIN log : n \in displayed)
  /\ []<>(part = "ends" => Ends!NothingAwaited)
=============================================================================
