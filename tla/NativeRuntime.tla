---------------------------- MODULE NativeRuntime ----------------------------
(***************************************************************************)
(* The actor thread of crates/zeta/src/runtime.rs, its timers, and its     *)
(* egress lane over the durable outbox (EffectOutbox).                     *)
(*                                                                         *)
(* The actor handles one command or deadline at a time.  A handler is a    *)
(* sequence of SQLite transactions, and a crash or the passing of time can *)
(* fall between any two, so `pc' says which one is next:                   *)
(*                                                                         *)
(*   arm -> wait | blocked | poll        next_actor_deadline, receive_until*)
(*   poll -> renew -> reconcile          the Deadline branch               *)
(*   reconcile -> plan -> claim -> arm   refresh_actor_state               *)
(*   claim -> start -> spawn -> claim    fill_egress_lane                  *)
(*                                                                         *)
(* The queue half of refresh_actor_state and the agent lane act on other   *)
(* tables and are modelled in DispatchQueue; what they contribute here is  *)
(* the commands they send and the events they publish.  Worker threads run *)
(* the connector call and send one EgressFinished.                         *)
(*                                                                         *)
(* Deadlines are kept as the time left until them and stop at -1 (in the   *)
(* past).  A definition named X_Y is X with a plausible mistake Y; it is   *)
(* never used by the specification.                                        *)
(***************************************************************************)
EXTENDS EffectOutbox, FiniteSets

CONSTANTS
  Unplannable,     \* the effects whose planning fails
  EgressCapacity,  \* EGRESS_CAPACITY
  Heartbeat,       \* EGRESS_HEARTBEAT_MS
  Timers,          \* the periodic ticks in use: schedule, subscription
  Interval,        \* SCHEDULE_TICK_INTERVAL_MS, SUBSCRIPTION_TICK_INTERVAL_MS
  MaxAttempts,     \* RetryPolicy::default().max_attempts
  RetryDelay,      \* RetryPolicy::delay_ms
  MaxCrashes,      \* bound: ends of the process
  MaxLosses,       \* bound: claims that end under a live worker
  MaxSlips         \* bound: times the clock moves within a handler

ASSUME RuntimeAssumption ==
  /\ Unplannable \subseteq EffectKeys
  /\ EgressCapacity \in Nat \ {0}
  /\ Heartbeat \in 1..EgressLease
  /\ Interval \in [Timers -> Nat \ {0}]
  /\ MaxAttempts \in Nat \ {0} /\ RetryDelay \in Nat
  /\ MaxCrashes \in Nat /\ MaxLosses \in Nat /\ MaxSlips \in Nat

VARIABLES
  published,      \* number of agent events with an egress target so far
  pc,             \* the next transaction of the actor
  claim,          \* the claim in the hands of fill_egress_lane
  active_egress,  \* ActorState.active_egress
  timers,         \* time left until each periodic tick
  workers,        \* the threads running connector calls
  calls,          \* number of connector calls made for each effect
  crashes,        \* ends of the process so far
  losses,         \* claims lost so far
  slips           \* times the clock moved within a handler

bounds == <<crashes, losses, slips>>
actor == <<pc, claim, active_egress, timers>>
vars == <<outbox, published, actor, workers, calls, bounds>>

ProgramPoints ==
  {"down", "arm", "wait", "blocked", "poll", "renew", "reconcile", "plan",
   "claim", "start", "spawn"}

NoClaim == [key |-> 0, token |-> 0]
EgressClaim == [key : EffectKeys, token : EgressTokens]
ActiveEgress == [key : EffectKeys, token : EgressTokens, heartbeat : -1..Heartbeat]
EgressWorker == [key : EffectKeys, token : EgressTokens, attempts : Nat,
                 result : {"pending", "completed", "failed"}]

Init ==
  /\ OutboxInit
  /\ published = 0
  /\ pc = "down" /\ claim = NoClaim /\ active_egress = {}
  /\ timers = [t \in Timers |-> 0]
  /\ workers = {}
  /\ calls = [k \in EffectKeys |-> 0]
  /\ crashes = 0 /\ losses = 0 /\ slips = 0

-----------------------------------------------------------------------------
(* The loop: which deadline, and how to wait for it.                       *)

(* next_egress_deadline_ms: a retry that is still in the future, and every *)
(* claim, even one that ended.                                             *)
EgressDeadlines ==
  {effects[k].delay : k \in {j \in EffectKeys \ ClaimedKeys :
     effects[j].status = "failed" /\ effects[j].delay \notin {Never, 0}}}
  \union {c.left : c \in effect_claims}

(* next_actor_deadline takes the least of these.                           *)
Deadlines ==
  EgressDeadlines
    \union {a.heartbeat : a \in active_egress}
    \union {timers[t] : t \in Timers}

(* receive_until: a deadline of this very moment returns at once.  One in  *)
(* the past makes remaining_ms negative, and `remaining_ms as u64' is then *)
(* a timeout without end: only a command ends the wait.                    *)
ReceiveUntil ==
  /\ pc = "arm"
  /\ pc' = CASE \E d \in Deadlines : d < 0 -> "blocked"
             [] \A d \in Deadlines : d > 0 -> "wait"
             [] OTHER -> "poll"
  /\ UNCHANGED <<outbox, published, claim, active_egress, timers, workers,
                 calls, bounds>>

Returned == {w \in workers : w.result # "pending"}

(* The timeout of recv_timeout; a message that is there comes first.       *)
DeadlinePasses ==
  /\ pc = "wait"
  /\ Returned = {}
  /\ \E d \in Deadlines : d <= 0
  /\ pc' = "poll"
  /\ UNCHANGED <<outbox, published, claim, active_egress, timers, workers,
                 calls, bounds>>

(* poll_subscriptions and tick_schedules set their next tick before they   *)
(* work, and only when it is due; the work itself takes time.              *)
PollAndTick ==
  /\ pc = "poll"
  /\ pc' = "renew"
  /\ timers' = [t \in Timers |-> IF timers[t] <= 0 THEN Interval[t] ELSE timers[t]]
  /\ UNCHANGED <<outbox, published, claim, active_egress, workers, calls,
                 bounds>>

Due(a) == a.heartbeat <= 0

(* renew_due_egress.  A refused renewal cancels the worker, which may      *)
(* still return either way, and leaves its heartbeat in the past.          *)
RenewDueEgress ==
  /\ pc = "renew"
  /\ pc' = "reconcile"
  /\ RenewEgressClaims({<<a.key, a.token>> : a \in {b \in active_egress : Due(b)}})
  /\ active_egress' = {IF Due(a) /\ CurrentEgressClaim(a.key, a.token)
                         THEN [a EXCEPT !.heartbeat = Heartbeat] ELSE a
                       : a \in active_egress}
  /\ UNCHANGED <<effects, published, claim, timers, workers, calls, bounds>>

-----------------------------------------------------------------------------
(* refresh_actor_state.                                                    *)

(* advance_actor_state, its part on the outbox.                            *)
Reconcile ==
  /\ pc = "reconcile"
  /\ pc' = "plan"
  /\ ReconcileExpiredEgressClaims
  /\ UNCHANGED <<published, claim, active_egress, timers, workers, calls,
                 bounds>>

(* plan_pending_egress scans every published event from the first and      *)
(* plans what is not planned yet.  An event whose revision, agent or       *)
(* idempotency template cannot be resolved ends the scan, and the refresh  *)
(* with it, before either lane is filled.                                  *)
ScanStops == {k \in 1..published : k \in Unplannable}
Unplanned == {k \in 1..published : /\ effects[k].status = Absent
                                   /\ \A u \in ScanStops : k < u}

PlanPendingEgress_Replaces ==
  /\ pc = "plan" /\ ScanStops = {}
  /\ effects' = [k \in EffectKeys |->
       IF k <= published /\ effects[k].status \in {Absent, "completed"}
       THEN [status |-> "planned", attempts |-> 0, delay |-> 0] ELSE effects[k]]
  /\ pc' = "claim"
  /\ UNCHANGED <<effect_claims, published, claim, active_egress, timers, workers,
                 calls, bounds>>

PlanPendingEgress ==
  /\ pc = "plan"
  /\ \/ \E k \in Unplanned :
          /\ \A j \in Unplanned : k <= j
          /\ PlanEffect(k)
          /\ UNCHANGED pc
     \/ /\ Unplanned = {}
        /\ pc' = IF ScanStops = {} THEN "claim" ELSE "arm"
        /\ UNCHANGED outbox
  /\ UNCHANGED <<published, claim, active_egress, timers, workers, calls,
                 bounds>>

(* next_event_id draws a token that nothing alive carries.                 *)
TokensAlive == {c.token : c \in effect_claims} \union {a.token : a \in active_egress}
FreshToken(t) == t \notin TokensAlive /\ \A u \in 1..(t - 1) : u \in TokensAlive

LaneOpen == Cardinality(active_egress) < EgressCapacity

(* fill_egress_lane: claim while there is room and something is ready, ... *)
ClaimEgress ==
  /\ pc = "claim"
  /\ LaneOpen
  /\ \E k \in EffectKeys, t \in EgressTokens :
       /\ FreshToken(t)
       /\ ClaimNextEgressDelivery(k, t)
       /\ claim' = [key |-> k, token |-> t]
  /\ pc' = "start"
  /\ UNCHANGED <<published, active_egress, timers, workers, calls, bounds>>

LaneFilled ==
  /\ pc = "claim"
  /\ LaneOpen => \A k \in EffectKeys : ~Ready(k)
  /\ pc' = "arm"
  /\ UNCHANGED <<outbox, published, claim, active_egress, timers, workers,
                 calls, bounds>>

(* ... record the start, ...                                               *)
StartEgress ==
  /\ pc = "start"
  /\ StartClaimedEgressDelivery(claim.key, claim.token)
  /\ pc' = "spawn"
  /\ UNCHANGED <<published, claim, active_egress, timers, workers, calls,
                 bounds>>

(* ... and spawn the worker with the claim and the effect as it is now.    *)
(* The heartbeat counts from the instant of the claim.                     *)
HeartbeatOf(c) ==
  LET spent == EgressLease - c.left
  IN  IF spent > Heartbeat THEN -1 ELSE Heartbeat - spent

SpawnEgress ==
  /\ pc = "spawn"
  /\ \E c \in effect_claims :
       /\ c.key = claim.key /\ c.token = claim.token
       /\ active_egress' = active_egress \union
            {[key |-> c.key, token |-> c.token, heartbeat |-> HeartbeatOf(c)]}
  /\ workers' = workers \union
       {[key |-> claim.key, token |-> claim.token,
         attempts |-> effects[claim.key].attempts, result |-> "pending"]}
  /\ calls' = [calls EXCEPT ![claim.key] = @ + 1]
  /\ claim' = NoClaim
  /\ pc' = "claim"
  /\ UNCHANGED <<outbox, published, timers, bounds>>

-----------------------------------------------------------------------------
(* Results.                                                                *)

(* RetryPolicy::permits_retry_after.                                       *)
PermitsRetryAfter(n) == n < MaxAttempts

(* commit_egress_execution, with the effect the worker was given: a        *)
(* failure, ...                                                            *)
FailEgressExecution(k, t, attempts) ==
  \/ /\ k \in Unsafe
     /\ FinishClaimedEgressDelivery(k, t, "ambiguous", Never)
  \/ /\ k \notin Unsafe
     /\ FinishClaimedEgressDelivery(k, t, "failed",
          IF PermitsRetryAfter(attempts) THEN RetryDelay ELSE Never)

(* ... or either outcome.                                                  *)
CommitEgressExecution(k, t, attempts, result) ==
  \/ result = "completed" /\ FinishClaimedEgressDelivery(k, t, "completed", Never)
  \/ result = "failed" /\ FailEgressExecution(k, t, attempts)

CommitRefused(k, t) == ~CurrentEgressClaim(k, t) \/ effects[k].status # "started"

(* build_egress_task or the thread cannot be made: the delivery fails at   *)
(* once and the lane goes on; a refused commit ends the refresh.           *)
SpawnFails ==
  /\ pc = "spawn"
  /\ \/ /\ FailEgressExecution(claim.key, claim.token, effects[claim.key].attempts)
        /\ pc' = "claim"
     \/ /\ CommitRefused(claim.key, claim.token)
        /\ pc' = "arm"
        /\ UNCHANGED outbox
  /\ claim' = NoClaim
  /\ UNCHANGED <<published, active_egress, timers, workers, calls, bounds>>

Receiving == pc \in {"wait", "blocked"}

(* The EgressFinished branch: the worker leaves the lane, and its result   *)
(* is committed.  When the commit is refused, the result is dropped and    *)
(* the state is not refreshed.                                             *)
EgressFinished(w) ==
  /\ Receiving
  /\ w.result # "pending"
  /\ workers' = workers \ {w}
  /\ active_egress' = {a \in active_egress : a.token # w.token}
  /\ \/ /\ CommitEgressExecution(w.key, w.token, w.attempts, w.result)
        /\ pc' = "reconcile"
     \/ /\ CommitRefused(w.key, w.token)
        /\ pc' = "arm"
        /\ UNCHANGED outbox
  /\ UNCHANGED <<published, claim, timers, calls, bounds>>

(* The connector call returns, or panics, in its worker thread.            *)
WorkerReturns(w, result) ==
  /\ w.result = "pending"
  /\ workers' = (workers \ {w}) \union {[w EXCEPT !.result = result]}
  /\ UNCHANGED <<outbox, published, actor, calls, bounds>>

-----------------------------------------------------------------------------
(* Commands.                                                               *)

(* AgentFinished commits an attempt that published an event for egress.    *)
Publish ==
  /\ Receiving
  /\ published < MaxEffects
  /\ published' = published + 1
  /\ pc' = "reconcile"
  /\ UNCHANGED <<outbox, claim, active_egress, timers, workers, calls,
                 bounds>>

(* Ingest, and AgentFinished without such an event, refresh the state.     *)
Ingest ==
  /\ Receiving
  /\ pc' = "reconcile"
  /\ UNCHANGED <<outbox, published, claim, active_egress, timers, workers,
                 calls, bounds>>

(* Status, progress, drafts, traces and a command that fails do not.       *)
Status ==
  /\ Receiving
  /\ pc' = "arm"
  /\ UNCHANGED <<outbox, published, claim, active_egress, timers, workers,
                 calls, bounds>>

(* TickSchedules moves the schedule tick, even when the scheduler then     *)
(* fails and nothing is refreshed; Reload makes both ticks due.            *)
ResetTimers(value, next) ==
  /\ Receiving
  /\ timers' = value
  /\ pc' \in next
  /\ UNCHANGED <<outbox, published, claim, active_egress, workers, calls,
                 bounds>>

TickSchedules ==
  ResetTimers([t \in Timers |-> IF t = "schedule" THEN Interval[t] ELSE timers[t]],
              {"reconcile", "arm"})

Reload == ResetTimers([t \in Timers |-> 0], {"reconcile"})

(* Shutdown and a crash look the same to the store: claims stay behind and *)
(* the worker threads go with the process.                                 *)
ProcessEnds ==
  /\ pc # "down"
  /\ crashes < MaxCrashes
  /\ crashes' = crashes + 1
  /\ pc' = "down"
  /\ claim' = NoClaim /\ active_egress' = {} /\ workers' = {}
  /\ UNCHANGED <<outbox, published, timers, calls, losses, slips>>

(* The head of run_actor.  Opening a store of another projection epoch     *)
(* rebuilds the projections and drops the claims.                          *)
Startup ==
  /\ pc = "down"
  /\ pc' = "reconcile"
  /\ timers' = [t \in Timers |-> 0]
  /\ effect_claims' \in {effect_claims, {}}
  /\ UNCHANGED <<effects, published, claim, active_egress, workers, calls,
                 bounds>>

-----------------------------------------------------------------------------
(* Time.  A handler takes no time, except that the clock moves MaxSlips    *)
(* times within one; a claim ends under a process that is still working on *)
(* it MaxLosses times.  A claim that ends at this very moment is due but   *)
(* not yet expired, so the actor spins on it until the moment is over.     *)

Working(c) ==
  \/ \E a \in active_egress : a.token = c.token
  \/ claim.token = c.token

Expiring == {c \in effect_claims : c.left = 0 /\ Working(c)}

Spinning == pc = "renew" /\ \E c \in effect_claims : c.left = 0

Tick ==
  /\ losses + Cardinality(Expiring) <= MaxLosses
  /\ losses' = losses + Cardinality(Expiring)
  /\ slips' = IF Receiving \/ Spinning \/ pc = "down" THEN slips ELSE slips + 1
  /\ slips' <= MaxSlips
  /\ OutboxLater
  /\ active_egress' = {[a EXCEPT !.heartbeat = Sooner(@)] : a \in active_egress}
  /\ timers' = [t \in Timers |-> Sooner(timers[t])]
  /\ UNCHANGED <<published, pc, claim, workers, calls, crashes>>

-----------------------------------------------------------------------------
ActorStep ==
  \/ Startup
  \/ ReceiveUntil
  \/ DeadlinePasses
  \/ PollAndTick
  \/ RenewDueEgress
  \/ Reconcile
  \/ PlanPendingEgress
  \/ ClaimEgress
  \/ LaneFilled
  \/ StartEgress
  \/ SpawnEgress
  \/ SpawnFails

Next ==
  \/ ActorStep
  \/ \E w \in workers : EgressFinished(w)
  \/ \E w \in workers, r \in {"completed", "failed"} : WorkerReturns(w, r)
  \/ Publish
  \/ Ingest
  \/ Status
  \/ TickSchedules
  \/ Reload
  \/ ProcessEnds
  \/ Tick

Spec == Init /\ [][Next]_vars

(* The actor thread runs, the channel delivers in order, connector calls   *)
(* return, and time passes.  Clients owe the runtime nothing.              *)
Fairness ==
  /\ WF_vars(ActorStep)
  /\ SF_vars(\E w \in workers : EgressFinished(w))
  /\ WF_vars(\E w \in workers, r \in {"completed", "failed"} : WorkerReturns(w, r))
  /\ SF_vars(Tick)

FairSpec == Spec /\ Fairness

(* A runtime that, in addition, never stops receiving work.                *)
BusySpec == FairSpec /\ SF_vars(Ingest)

-----------------------------------------------------------------------------
(* Properties.                                                             *)

(* Every table, and the memory of the actor, is well-formed.               *)
TypeOK ==
  /\ effects \in [EffectKeys -> EffectRow]
  /\ effect_claims \subseteq EffectClaimRow
  /\ published \in 0..MaxEffects
  /\ pc \in ProgramPoints
  /\ claim \in EgressClaim \union {NoClaim}
  /\ active_egress \subseteq ActiveEgress
  /\ DOMAIN timers = Timers
  /\ \A t \in Timers : timers[t] \in -1..Interval[t]
  /\ workers \subseteq EgressWorker
  /\ calls \in [EffectKeys -> Nat]
  /\ crashes \in 0..MaxCrashes /\ losses \in 0..MaxLosses /\ slips \in 0..MaxSlips

(* An effect that is unsafe to retry reaches its connector at most once,   *)
(* across lost leases, crashes and restarts                               *)
(* (claim_next_egress_delivery, commit_egress_execution).                  *)
UnsafeAtMostOnce == \A k \in Unsafe : calls[k] <= 1

(* Nothing is left to do for effect k.                                     *)
Settled(k) ==
  \/ effects[k].status \in {"completed", "ambiguous"}
  \/ effects[k].status = "failed" /\ effects[k].delay = Never

(* One owner per delivery: an effect has at most one claim row, and the    *)
(* row never outlives the delivery, because the result that settles an     *)
(* effect comes from the owner of its row and removes it; a late result of *)
(* an earlier owner settles nothing (claimed_effect).                      *)
OneOwnerPerDelivery ==
  /\ \A c, d \in effect_claims : c.key = d.key => c = d
  /\ \A c \in effect_claims : ~Settled(c.key)

KeepsSettled ==
  \A k \in EffectKeys :
    Settled(k) => effects'[k] = effects[k] /\ calls'[k] = calls[k]

(* Once an effect is settled, no connector call is made for it and its     *)
(* state does not change.                                                  *)
SettledIsFinal == [][KeepsSettled]_vars

SafeAreSettled ==
  \A k \in EffectKeys \ Unsafe : effects[k].status # Absent => Settled(k)

(* Every planned effect that is safe to retry is settled in the end,       *)
(* whatever is lost on the way, as long as work keeps arriving.            *)
DeliveriesSettle == []<>SafeAreSettled

-----------------------------------------------------------------------------
(* What the documents say and the code does not do.                        *)

(* docs/native-runtime.md:244: "A due schedule fires at its deadline       *)
(* without periodic scanning": a due tick is served, at the latest when    *)
(* the runtime next has nothing else to do.                                *)
DueTicksAreServed ==
  \A t \in Timers : timers[t] <= 0 ~> timers[t] > 0

(* docs/native-runtime.md:249: "An unsafe uncertain delivery becomes       *)
(* ambiguous and never retries itself".                                    *)
UncertainBecomesAmbiguous ==
  \A k \in Unsafe : effects[k].status = "started" ~> Settled(k)

(* docs/native-runtime.md:245: "A completed agent event creates one        *)
(* durable egress delivery before a call".                                 *)
PublishedIsPlanned ==
  \A k \in EffectKeys \ Unplannable :
    k <= published ~> effects[k].status # Absent

=============================================================================
