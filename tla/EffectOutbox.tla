---------------------------- MODULE EffectOutbox ----------------------------
(***************************************************************************)
(* The durable outbox of crates/zeta-dispatch/src/sqlite/effects.rs: the   *)
(* `effects' projection of connector deliveries and the `effect_claims'    *)
(* that lease them.  Every operator below is one SQLite transaction; the   *)
(* module that composes it (NativeRuntime) decides who calls it and when.  *)
(*                                                                         *)
(* An effect is named by its place in planning order.  Deadlines are kept  *)
(* as the time left until them.  The lease of a claim counts down to -1,   *)
(* because the code tells "ends now" (claimed_until = now, still current)  *)
(* from "ended" (claimed_until < now, recovered).                          *)
(*                                                                         *)
(* A definition named X_Y is X with a plausible mistake Y; it is never     *)
(* used by the specification.                                              *)
(***************************************************************************)
EXTENDS Lifecycle, Integers

CONSTANTS
  MaxEffects,   \* bound: connector effects
  Unsafe,       \* the effects whose semantics are unsafe_to_retry
  EgressLease,  \* EGRESS_LEASE_MS
  MaxTokens,    \* bound: claim tokens drawn
  Never         \* a NULL available_at

EffectKeys == 1..MaxEffects
EgressTokens == 1..MaxTokens

ASSUME OutboxAssumption ==
  /\ MaxEffects \in Nat /\ MaxTokens \in Nat
  /\ EgressLease \in Nat \ {0}
  /\ Unsafe \subseteq EffectKeys
  /\ Never \notin Nat

VARIABLES
  effects,       \* the effects table, a row for every key
  effect_claims  \* the effect_claims table

outbox == <<effects, effect_claims>>

EffectStatus == {"planned", "started", "completed", "failed", "ambiguous"}

(* validate_effect_transition; `planned' inserts the row.                  *)
EffectTransitions ==
     ({Absent}    \X {"planned"})
  \union ({"planned", "failed"} \X {"started"})
  \union ({"started"} \X {"completed", "failed", "ambiguous"})

EffectRow ==
  [status : EffectStatus \union {Absent}, attempts : Nat, delay : Nat \union {Never}]

EffectClaimRow == [key : EffectKeys, token : EgressTokens, left : -1..EgressLease]

OutboxInit ==
  /\ effects = [k \in EffectKeys |-> [status |-> Absent, attempts |-> 0, delay |-> Never]]
  /\ effect_claims = {}

-----------------------------------------------------------------------------
(* index_effect: a transition the table does not list, an ambiguous effect *)
(* that is safe to retry and a failed one that is not are refused.         *)
(* available_at is overwritten by every fact.                              *)
IndexEffect(k, status, attempts, delay) ==
  /\ <<effects[k].status, status>> \in EffectTransitions
  /\ status = "ambiguous" => k \in Unsafe
  /\ status = "failed" => k \notin Unsafe
  /\ effects' = [effects EXCEPT ![k] =
       [status |-> status, attempts |-> attempts, delay |-> delay]]

(* append_trusted_event of runtime.effect.planned.                         *)
PlanEffect(k) == IndexEffect(k, "planned", 0, 0) /\ UNCHANGED effect_claims

ClaimedKeys == {c.key : c \in effect_claims}

Ready_AnyStarted(k) ==
  /\ k \notin ClaimedKeys
  /\ \/ effects[k].status = "planned"
     \/ effects[k].status = "failed" /\ effects[k].delay = 0
     \/ effects[k].status = "started"

(* The WHERE clause of claim_next_egress_delivery.  A `started' effect     *)
(* without a claim lost its worker; it is delivered again unless that is   *)
(* unsafe.                                                                 *)
Ready(k) ==
  /\ k \notin ClaimedKeys
  /\ \/ effects[k].status = "planned"
     \/ effects[k].status = "failed" /\ effects[k].delay = 0
     \/ effects[k].status = "started" /\ k \notin Unsafe

(* claim_next_egress_delivery, for the first ready effect.                 *)
ClaimNextEgressDelivery(k, t) ==
  /\ Ready(k)
  /\ \A j \in 1..(k - 1) : ~Ready(j)
  /\ effect_claims' = effect_claims \union {[key |-> k, token |-> t, left |-> EgressLease]}
  /\ UNCHANGED effects

(* reconcile_expired_egress_delivery_claims.                               *)
ReconcileExpiredEgressClaims ==
  /\ effect_claims' = {c \in effect_claims : c.left >= 0}
  /\ UNCHANGED effects

(* start_claimed_egress_delivery.  The runtime passes the instant at which *)
(* it took the claim, so the lease is always current here.  An effect that *)
(* lost its worker is already started and is not counted again.            *)
StartClaimedEgressDelivery(k, t) ==
  /\ \E c \in effect_claims : c.key = k /\ c.token = t
  /\ \/ /\ effects[k].status = "started"
        /\ UNCHANGED effects
     \/ IndexEffect(k, "started", effects[k].attempts + 1, Never)
  /\ UNCHANGED effect_claims

CurrentEgressClaim_AnyToken(k, t) == \E c \in effect_claims : c.key = k /\ c.left >= 0

(* claimed_effect: the row of this token whose lease has not ended.        *)
CurrentEgressClaim(k, t) ==
  \E c \in effect_claims : c.key = k /\ c.token = t /\ c.left >= 0

(* finish_claimed_egress_delivery: one terminal fact and the claim row     *)
(* goes away.                                                              *)
FinishClaimedEgressDelivery(k, t, status, delay) ==
  /\ CurrentEgressClaim(k, t)
  /\ effects[k].status = "started"
  /\ IndexEffect(k, status, effects[k].attempts, delay)
  /\ effect_claims' = {c \in effect_claims : ~(c.key = k /\ c.token = t)}

(* renew_egress_delivery_claim, for several claims <<key, token>>; the     *)
(* claims that are not current stay as they are.                           *)
RenewEgressClaims(pairs) ==
  effect_claims' = {IF <<c.key, c.token>> \in pairs /\ c.left >= 0
                      THEN [c EXCEPT !.left = EgressLease] ELSE c : c \in effect_claims}

(* A moment passes.                                                        *)
Sooner(n) == IF n >= 0 THEN n - 1 ELSE n

OutboxLater ==
  /\ effects' = [k \in EffectKeys |->
       IF effects[k].delay \in {Never, 0} THEN effects[k]
       ELSE [effects[k] EXCEPT !.delay = @ - 1]]
  /\ effect_claims' = {[c EXCEPT !.left = Sooner(@)] : c \in effect_claims}

=============================================================================
