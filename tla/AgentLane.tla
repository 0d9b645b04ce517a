------------------------------ MODULE AgentLane -----------------------------
(***************************************************************************)
(* The actor of crates/zeta/src/runtime.rs with its agent lane, and the    *)
(* reload of the project through ApplicationState (crates/zeta/src/main.rs)*)
(*                                                                         *)
(* A command or a deadline runs a fixed sequence of transactions, and `pc' *)
(* says which comes next:                                                  *)
(*                                                                         *)
(*   route -> reconcile      ingest_and_route, then refresh_actor_state    *)
(*   reconcile -> reroute    advance_actor_state: expired claims, routing  *)
(*   reroute -> claim        fill_agent_lane                               *)
(*   claim -> start -> build -> claim                                      *)
(*                                                                         *)
(* An error leaves the sequence where it is: what follows is skipped until *)
(* the next command or deadline.  Every item has a session of its own; the *)
(* order within a session, locks and cancellation are in DispatchQueue.    *)
(* plan_pending_egress, between reroute and claim, is in NativeRuntime and *)
(* taken to succeed here.                                                  *)
(***************************************************************************)
EXTENDS Naturals, FiniteSets

CONSTANTS
  None,
  Events,         \* ingress events, each for one agent
  Revisions,      \* project revisions
  First,          \* the revision of the first start
  Unroutable,     \* <<event, revision>>: the session template does not render
  Unadoptable,    \* revisions that reload_actor refuses
  Capacity,       \* AGENT_CAPACITY
  MaxAttempts,    \* RetryPolicy.max_attempts
  MaxClaims,      \* bound on the claims of an item
  MaxCrashes,     \* bound on the ends of the process
  MaxReloads      \* bound on the reloads

(* None stands for no event and no revision.                               *)
ASSUME LaneAssumption ==
  /\ None \notin Events /\ None \notin Revisions /\ First \in Revisions
  /\ Capacity \in Nat /\ MaxClaims \in Nat

VARIABLES
  items,        \* the queue: event -> its item
  order,        \* ingested events with their cursors
  expired,      \* items whose claim's lease has ended
  archive,      \* ProjectRevisionStore: the recorded revisions
  disk,         \* the active project file
  app,          \* ApplicationState.revision
  revision,     \* ActorState.revision, its routes and its schedules
  targets,      \* the revision whose egress targets are in use
  active,       \* ActorState.active_agents
  workers,      \* agent threads
  pc,           \* the next transaction of the actor
  hand,         \* the item in the hands of fill_agent_lane
  reloading,    \* the revision a caller of reload waits for
  serving,      \* the actor is in the handler of that reload
  failed,       \* the last reload ended in an error, from this revision
  crashes,
  reloads

queue == <<items, order, expired>>
project == <<archive, disk, app, revision, targets, reloading, serving, failed>>
lane == <<active, workers, hand>>
bounds == <<crashes, reloads>>
vars == <<queue, project, lane, pc, bounds>>

Absent == [status |-> "absent", revision |-> None, attempts |-> 0, claims |-> 0]

(* ProjectRevisionStore: record adds a revision, atomically and for good;  *)
(* load finds what was recorded.                                           *)
Record(r) == archive \cup {r}
Load(r) == IF r \in archive THEN r ELSE None

Init ==
  /\ items = [e \in Events |-> Absent]
  /\ order = [e \in Events |-> 0] /\ expired = {}
  /\ archive = {First} /\ disk = First /\ app = First
  /\ revision = First /\ targets = First
  /\ active = {} /\ workers = {} /\ hand = None
  /\ pc = "reconcile" /\ reloading = None /\ serving = FALSE
  /\ failed = None /\ crashes = 0 /\ reloads = 0

----------------------------------------------------------------------------
(* How a handler ends.  A reload answers its caller: ok makes the revision *)
(* the application's, an error leaves the application's as it was.         *)
Return(ok) ==
  /\ pc' = "idle" /\ serving' = FALSE
  /\ IF serving
     THEN /\ reloading' = None
          /\ app' = IF ok THEN reloading ELSE app
          /\ failed' = IF ok THEN None ELSE app
     ELSE UNCHANGED <<reloading, app, failed>>
Proceed(next) == pc' = next /\ UNCHANGED <<reloading, serving, app, failed>>

(* Runtime::ingest under the lock that serializes it with reload.  An      *)
(* event that is ingested again adds nothing, but the handler goes on.     *)
Ingest(e) ==
  /\ pc = "idle" /\ reloading = None
  /\ \/ /\ items[e].status = "absent"
        /\ items' = [items EXCEPT ![e].status = "pending"]
        /\ order' = [order EXCEPT ![e] = 1 + Cardinality({f \in Events : order[f] > 0})]
     \/ /\ items[e].status # "absent"
        /\ UNCHANGED <<items, order>>
  /\ pc' = "route"
  /\ UNCHANGED <<expired, project, lane, bounds>>

Pending == {e \in Events : items[e].status = "pending"}
Oldest(S) == CHOOSE e \in S : \A f \in S : order[e] <= order[f]
Routable(e) == <<e, revision>> \notin Unroutable

(* route_unrouted: in the order of the journal, up to the first event that *)
(* cannot be routed under the routes in use.                               *)
RouteOne(at, next) ==
  /\ pc = at
  /\ IF Pending = {} THEN Proceed(next) /\ UNCHANGED items
     ELSE IF Routable(Oldest(Pending))
     THEN /\ items' = [items EXCEPT ![Oldest(Pending)].status = "available",
                                    ![Oldest(Pending)].revision = revision]
          /\ Proceed(at)
     ELSE Return(FALSE) /\ UNCHANGED items
  /\ UNCHANGED <<order, expired, archive, disk, revision, targets, lane, bounds>>

Route == RouteOne("route", "reconcile")
Reroute == RouteOne("reroute", "claim")

(* advance_actor_state: claims whose lease has ended are given up.         *)
Reconcile_OnlyActive ==
  /\ pc = "reconcile"
  /\ items' = [e \in Events |-> IF e \in expired /\ \E a \in active : a.event = e
                                THEN [items[e] EXCEPT !.status = "available"]
                                ELSE items[e]]
  /\ expired' = {e \in expired : ~\E a \in active : a.event = e}
  /\ Proceed("reroute")
  /\ UNCHANGED <<order, archive, disk, revision, targets, lane, bounds>>
Reconcile ==
  /\ pc = "reconcile"
  /\ items' = [e \in Events |-> IF e \in expired
                                THEN [items[e] EXCEPT !.status = "available"]
                                ELSE items[e]]
  /\ expired' = {}
  /\ Proceed("reroute")
  /\ UNCHANGED <<order, archive, disk, revision, targets, lane, bounds>>

(* claim_next_queue_item: an unbound item is a barrier for what is behind. *)
Claimable ==
  {e \in Events : /\ items[e].status = "available" /\ items[e].claims < MaxClaims
                  /\ \A f \in Pending : order[e] < order[f]}

Claim ==
  /\ pc = "claim"
  /\ IF Cardinality(active) < Capacity /\ Claimable # {}
     THEN LET e == Oldest(Claimable)
          IN  /\ items' = [items EXCEPT ![e].status = "claimed",
                                        ![e].claims = @ + 1]
              /\ hand' = e
              /\ Proceed("start")
     ELSE Return(TRUE) /\ UNCHANGED <<items, hand>>
  /\ UNCHANGED <<order, expired, archive, disk, revision, targets, active, workers, bounds>>

Current(e, token) ==
  /\ items[e].status = "claimed" /\ items[e].claims = token /\ e \notin expired

(* start_claimed_attempt; an error releases the claim and ends the lane.   *)
StartAttempt_KeepsClaim ==
  /\ pc = "start"
  /\ \/ /\ hand \notin expired
        /\ items' = [items EXCEPT ![hand].attempts = @ + 1]
        /\ Proceed("build") /\ UNCHANGED hand
     \/ /\ hand' = None /\ Return(FALSE) /\ UNCHANGED items
  /\ UNCHANGED <<order, expired, archive, disk, revision, targets, active, workers, bounds>>
StartAttempt ==
  /\ pc = "start"
  /\ \/ /\ hand \notin expired
        /\ items' = [items EXCEPT ![hand].attempts = @ + 1]
        /\ Proceed("build") /\ UNCHANGED hand
     \/ /\ items' = IF hand \in expired THEN items
                    ELSE [items EXCEPT ![hand].status = "available"]
        /\ hand' = None
        /\ Return(FALSE)
  /\ UNCHANGED <<order, expired, archive, disk, revision, targets, active, workers, bounds>>

(* fail_claimed_attempt: another attempt, or the dead letters.             *)
AfterFailure(item) ==
  [item EXCEPT !.status =
     IF item.attempts < MaxAttempts THEN "available" ELSE "dead_lettered"]

(* build_agent_task takes the revision the item was routed under: the      *)
(* actor's own, or the recorded one.                                       *)
TaskRevision(e) ==
  IF items[e].revision = revision THEN revision ELSE Load(items[e].revision)

(* The task is built and its thread spawned; if either fails the attempt   *)
(* fails, and the error of a claim already lost ends the lane.             *)
BuildAndSpawn ==
  /\ pc = "build"
  /\ hand' = None
  /\ \/ /\ TaskRevision(hand) # None
        /\ active' = active \cup {[event |-> hand, token |-> items[hand].claims,
                                   cancelled |-> FALSE]}
        /\ workers' = workers \cup {[event |-> hand, token |-> items[hand].claims,
                                     revision |-> TaskRevision(hand),
                                     done |-> "running"]}
        /\ Proceed("claim") /\ UNCHANGED items
     \/ /\ hand \notin expired
        /\ items' = [items EXCEPT ![hand] = AfterFailure(@)]
        /\ Proceed("claim") /\ UNCHANGED <<active, workers>>
     \/ /\ hand \in expired
        /\ Return(FALSE) /\ UNCHANGED <<items, active, workers>>
  /\ UNCHANGED <<order, expired, archive, disk, revision, targets, bounds>>

(* The agent runs in its thread and sends AgentFinished.                   *)
WorkerReturns(w, outcome) ==
  /\ w.done = "running"
  /\ workers' = (workers \ {w}) \cup {[w EXCEPT !.done = outcome]}
  /\ UNCHANGED <<queue, project, active, hand, pc, bounds>>

EntryOf(w) == {a \in active : a.event = w.event /\ a.token = w.token}

(* AgentFinished: complete_claimed_attempt and routing, or the failure of  *)
(* the attempt.  A claim that is not current refuses both, and the rest of *)
(* the handler is skipped.                                                 *)
AgentFinished(w) ==
  /\ pc = "idle" /\ w.done # "running"
  /\ active' = active \ EntryOf(w)
  /\ workers' = workers \ {w}
  /\ IF ~Current(w.event, w.token)
     THEN UNCHANGED <<items, pc, reloading, serving, app, failed>>
     ELSE \/ /\ w.done = "completed"
             /\ items' = [items EXCEPT ![w.event].status = "completed"]
             /\ Proceed("route")
          \/ /\ items' = [items EXCEPT ![w.event] = AfterFailure(@)]
             /\ Proceed("reconcile")
  /\ UNCHANGED <<order, expired, archive, disk, revision, targets, hand, bounds>>

(* The deadline: renew_due_agents cancels the agents whose claim is gone,  *)
(* then refresh_actor_state.                                               *)
Deadline ==
  /\ pc = "idle"
  /\ active' = {[a EXCEPT !.cancelled = @ \/ ~Current(a.event, a.token)] : a \in active}
  /\ pc' = "reconcile"
  /\ UNCHANGED <<queue, project, workers, hand, bounds>>

(* The lease of a claim ends before it is renewed.                         *)
LeaseEnds(e) ==
  /\ items[e].status = "claimed" /\ e \notin expired
  /\ items[e].claims < MaxClaims
  /\ expired' = expired \cup {e}
  /\ UNCHANGED <<items, order, project, lane, pc, bounds>>

(* ApplicationState::reload writes the active project, then asks the actor.*)
ReloadWrites(r) ==
  /\ reloads < MaxReloads /\ reloading = None /\ r # app
  /\ disk' = r /\ reloading' = r
  /\ reloads' = reloads + 1
  /\ UNCHANGED <<queue, lane, pc, archive, app, revision, targets, serving, failed,
                 crashes>>

(* reload_actor: archive, then adopt; or an error before or between.  The  *)
(* egress targets are adopted before the subscription targets, which may   *)
(* be refused.                                                             *)
ReloadActor_Unarchived ==
  /\ pc = "idle" /\ reloading # None
  /\ IF reloading \in Unadoptable
     THEN /\ failed' = app /\ reloading' = None
          /\ UNCHANGED <<archive, revision, targets, serving, pc>>
     ELSE /\ revision' = reloading /\ targets' = reloading
          /\ pc' = "reconcile" /\ serving' = TRUE
          /\ UNCHANGED <<reloading, failed, archive>>
  /\ UNCHANGED <<queue, lane, disk, app, bounds>>
ReloadActor ==
  /\ pc = "idle" /\ reloading # None
  /\ IF reloading \in Unadoptable
     THEN /\ failed' = app /\ reloading' = None
          /\ \/ UNCHANGED <<archive, targets>>
             \/ archive' = Record(reloading) /\ targets' \in {targets, reloading}
          /\ UNCHANGED <<revision, serving, pc>>
     ELSE /\ archive' = Record(reloading)
          /\ revision' = reloading /\ targets' = reloading
          /\ pc' = "reconcile" /\ serving' = TRUE
          /\ UNCHANGED <<reloading, failed>>
  /\ UNCHANGED <<queue, lane, disk, app, bounds>>

(* The process ends, by shutdown or crash, and starts again from the       *)
(* active project: run_owner reads it, start_inner archives it.            *)
Restart ==
  /\ crashes < MaxCrashes
  /\ crashes' = crashes + 1
  /\ active' = {} /\ workers' = {} /\ hand' = None
  /\ revision' = disk /\ targets' = disk /\ app' = disk /\ archive' = Record(disk)
  /\ pc' = "reconcile" /\ reloading' = None /\ serving' = FALSE
  /\ failed' = None
  /\ UNCHANGED <<queue, disk, reloads>>

Step == Route \/ Reroute \/ Reconcile \/ Claim \/ StartAttempt \/ BuildAndSpawn

Next ==
  \/ Step \/ Deadline \/ ReloadActor \/ Restart
  \/ \E e \in Events : Ingest(e) \/ LeaseEnds(e)
  \/ \E w \in workers :
       AgentFinished(w) \/ \E o \in {"completed", "failed"} : WorkerReturns(w, o)
  \/ \E r \in Revisions : ReloadWrites(r)

Spec == Init /\ [][Next]_vars

(* The actor runs its handlers, agents return, messages of the threads are *)
(* handled and leases end.  Deadlines are owed to nobody: a deadline that  *)
(* has passed may never wake the actor (DueTicksAreServed of               *)
(* NativeRuntime).                                                         *)
FairSpec ==
  /\ Spec
  /\ WF_vars(Step) /\ WF_vars(ReloadActor)
  /\ WF_vars(\E w \in workers, o \in {"completed", "failed"} : WorkerReturns(w, o))
  /\ SF_vars(\E w \in workers : AgentFinished(w))
  /\ \A e \in Events : WF_vars(LeaseEnds(e) /\ ~\E a \in active : a.event = e)

----------------------------------------------------------------------------
(* Every variable holds a value of its type; an expired item is claimed,   *)
(* and the lane has an item in hand between a claim and its spawn.         *)
Statuses == {"absent", "pending", "available", "claimed", "completed", "dead_lettered"}
Item ==
  [status : Statuses, revision : Revisions \cup {None}, attempts : Nat,
   claims : 0 .. MaxClaims]
Entry == [event : Events, token : Nat, cancelled : BOOLEAN]
Thread ==
  [event : Events, token : Nat, revision : Revisions,
   done : {"running", "completed", "failed"}]

TypeOK ==
  /\ items \in [Events -> Item] /\ order \in [Events -> Nat]
  /\ expired \subseteq {e \in Events : items[e].status = "claimed"}
  /\ archive \subseteq Revisions /\ {disk, app, revision, targets} \subseteq Revisions
  /\ {reloading, failed} \subseteq Revisions \cup {None} /\ serving \in BOOLEAN
  /\ active \subseteq Entry /\ workers \subseteq Thread
  /\ hand \in Events \cup {None} /\ (hand # None <=> pc \in {"start", "build"})
  /\ pc \in {"idle", "route", "reroute", "reconcile", "claim", "start", "build"}
  /\ crashes \in Nat /\ reloads \in Nat

Live(e) == items[e].status \in {"available", "claimed"}

(* Work in the queue can always be run: the revision it was routed under   *)
(* is in the archive, through reloads that fail halfway and restarts, and  *)
(* an agent runs under no other.                                           *)
QueuedRevisionIsArchived ==
  /\ \A e \in Events : Live(e) => items[e].revision \in archive
  /\ \A w \in workers : w.revision = items[w.event].revision

(* Between handlers, the copies of the active revision, the egress targets *)
(* among them, agree while no reload is under way and none has failed.     *)
RevisionsAgree ==
  (pc = "idle" /\ reloading = None /\ failed = None)
  => disk = app /\ app = revision /\ revision = targets

(* Through reloads that fail halfway and restarts, the revisions in use    *)
(* and those that work was routed under are in the archive, and the copies *)
(* of the active revision agree while no reload is under way and none has  *)
(* failed.                                                                 *)
RevisionsAreKept ==
  QueuedRevisionIsArchived /\ {revision, targets} \subseteq archive /\ RevisionsAgree

(* No claim leaks: between handlers, every claim whose lease runs is held  *)
(* by an agent thread of this process, or was taken by an earlier process  *)
(* and waits for its lease to end.                                         *)
NoClaimLeaks ==
  (pc = "idle" /\ crashes = 0) =>
    \A e \in Events :
      (items[e].status = "claimed" /\ e \notin expired)
      => \E w \in workers : w.event = e /\ w.token = items[e].claims

(* The threads are within the capacity of the lane even when claims are    *)
(* lost and their items claimed again: a lost agent keeps its place until  *)
(* it returns.                                                             *)
LaneIsBounded ==
  /\ Cardinality(workers) <= Capacity
  /\ \A w \in workers : EntryOf(w) # {}

(* No claim leaks, and the threads are within AGENT_CAPACITY although      *)
(* claims are lost and their items claimed again.                          *)
ClaimsAreServed == NoClaimLeaks /\ LaneIsBounded

NothingRouted ==
  \A e \in Events : Live(e) => items[e].claims = MaxClaims

(* Everything that is routed ends, completed or among the dead letters, as *)
(* long as clients keep calling ingest; items that were claimed MaxClaims  *)
(* times are left out, as the model claims them no more.                   *)
RoutedWorkEnds == []<><<\E e \in Events : Ingest(e)>>_vars => []<>NothingRouted

(* docs/runtime-semantics.md: "An earlier unbound item blocks later claims *)
(* until routing binds or completes it. This short routing barrier ...".   *)
BarrierIsShort == \A e \in Events : items[e].status = "pending" ~> items[e].status # "pending"

(* docs/native-cli.md: "A failed reload keeps the previous revision."      *)
FailedReloadKeepsRevision ==
  (pc = "idle" /\ reloading = None /\ failed # None)
  => disk = failed /\ app = failed /\ revision = failed
=============================================================================
