------------------------- MODULE NativeRuntimeProofs -------------------------
(***************************************************************************)
(* Proofs about NativeRuntime and its outbox, for any number of effects,   *)
(* tokens, lanes, crashes, lost leases and slow handlers.                  *)
(***************************************************************************)
EXTENDS NativeRuntime, TLAPS

(* Both provers are given time on every leaf that names none.              *)
USE ZenonT(5), SMTT(20)

(* What the proofs need of the types.                                      *)
OutboxTyped ==
  /\ effects \in [EffectKeys -> EffectRow]
  /\ effect_claims \subseteq [key : EffectKeys, token : EgressTokens, left : Int]

ActorTyped ==
  /\ published \in 0..MaxEffects
  /\ pc \in {"start", "spawn"} => claim \in EgressClaim
  /\ workers \subseteq EgressWorker
  /\ calls \in [EffectKeys -> Nat]

Typed == OutboxTyped /\ ActorTyped

(* The history of an unsafe effect: no call before its start, the start    *)
(* leads to one spawn, and it never becomes `failed', the one status from  *)
(* which a delivery is started again.                                      *)
UnsafeHistory(k) ==
  /\ effects[k].status # "failed"
  /\ effects[k].status \in {Absent, "planned"} => calls[k] = 0
  /\ calls[k] <= 1
  /\ pc = "start" /\ claim.key = k => effects[k].status = "planned"
  /\ pc = "spawn" /\ claim.key = k => effects[k].status = "started" /\ calls[k] = 0

UnsafeInv == \A k \in Unsafe : UnsafeHistory(k)

-----------------------------------------------------------------------------
(* Facts about the transactions of the outbox.                             *)

(* A lifecycle fact about k rewrites the row of k and no other.            *)
LEMMA IndexEffectFacts ==
  ASSUME OutboxTyped,
         NEW k \in EffectKeys, NEW status \in EffectStatus,
         NEW attempts \in Nat, NEW delay \in Nat \union {Never},
         IndexEffect(k, status, attempts, delay)
  PROVE  /\ effects' \in [EffectKeys -> EffectRow]
         /\ effects'[k].status = status /\ effects'[k].delay = delay
         /\ \A j \in EffectKeys \ {k} : effects'[j] = effects[j]
         /\ <<effects[k].status, status>> \in EffectTransitions
         /\ status = "failed" => k \notin Unsafe
BY DEF OutboxTyped, IndexEffect, EffectRow

(* Start and finish of a delivery keep the tables well-formed.             *)
LEMMA StartFacts ==
  ASSUME OutboxTyped, NEW k \in EffectKeys, NEW t \in EgressTokens,
         StartClaimedEgressDelivery(k, t)
  PROVE  /\ OutboxTyped'
         /\ effects'[k].status = "started"
         /\ \A j \in EffectKeys \ {k} : effects'[j] = effects[j]
         /\ effect_claims' = effect_claims
<1>1. CASE effects[k].status = "started" /\ UNCHANGED effects
  BY <1>1 DEF OutboxTyped, StartClaimedEgressDelivery
<1>2. CASE IndexEffect(k, "started", effects[k].attempts + 1, Never)
  <2>1. effects[k].attempts + 1 \in Nat
    BY DEF OutboxTyped, EffectRow
  <2>2. "started" \in EffectStatus
    BY DEF EffectStatus
  <2>3. effects' \in [EffectKeys -> EffectRow]
    BY <1>2, <2>1, <2>2, IndexEffectFacts
  <2>4. effects'[k].status = "started"
    BY <1>2, <2>1, <2>2, IndexEffectFacts
  <2>5. \A j \in EffectKeys \ {k} : effects'[j] = effects[j]
    BY <1>2, <2>1, <2>2, IndexEffectFacts
  <2> QED
    BY <2>3, <2>4, <2>5 DEF OutboxTyped, StartClaimedEgressDelivery
<1> QED
  BY <1>1, <1>2 DEF StartClaimedEgressDelivery

(* Finishing a delivery needs its claim, settles it and touches no other.  *)
LEMMA FinishFacts ==
  ASSUME OutboxTyped, NEW k \in EffectKeys, NEW t \in EgressTokens,
         NEW status \in {"completed", "failed", "ambiguous"},
         NEW delay \in Nat \union {Never},
         FinishClaimedEgressDelivery(k, t, status, delay)
  PROVE  /\ OutboxTyped'
         /\ effects'[k].status = status /\ effects'[k].delay = delay
         /\ \A j \in EffectKeys \ {k} : effects'[j] = effects[j]
         /\ status = "failed" => k \notin Unsafe
         /\ \E c \in effect_claims : c.key = k /\ c.token = t
         /\ effect_claims' = {c \in effect_claims : ~(c.key = k /\ c.token = t)}
<1>1. effects[k].attempts \in Nat /\ status \in EffectStatus
  BY DEF OutboxTyped, EffectRow, EffectStatus
<1>2. IndexEffect(k, status, effects[k].attempts, delay)
  BY DEF FinishClaimedEgressDelivery
<1>3. effects' \in [EffectKeys -> EffectRow]
  BY <1>1, <1>2, IndexEffectFacts
<1>4. /\ effects'[k].status = status /\ effects'[k].delay = delay
      /\ (status = "failed" => k \notin Unsafe)
  BY <1>1, <1>2, IndexEffectFacts
<1>5. \A j \in EffectKeys \ {k} : effects'[j] = effects[j]
  BY <1>1, <1>2, IndexEffectFacts
<1> QED
  BY <1>3, <1>4, <1>5 DEF OutboxTyped, FinishClaimedEgressDelivery, CurrentEgressClaim

(* Whatever a worker reports, the commit finishes the delivery.            *)
LEMMA FailFinishes ==
  ASSUME NEW k \in EffectKeys, NEW t \in EgressTokens, NEW n \in Nat,
         FailEgressExecution(k, t, n)
  PROVE  \E status \in {"completed", "failed", "ambiguous"},
            delay \in Nat \union {Never} :
           /\ FinishClaimedEgressDelivery(k, t, status, delay)
           /\ status # "failed" => delay = Never
<1>1. (IF PermitsRetryAfter(n) THEN RetryDelay ELSE Never) \in Nat \union {Never}
  BY RuntimeAssumption
<1> QED
  BY <1>1 DEF FailEgressExecution

(* Committing an execution finishes the delivery with what was observed.   *)
LEMMA CommitFinishes ==
  ASSUME NEW k \in EffectKeys, NEW t \in EgressTokens, NEW n \in Nat, NEW result,
         CommitEgressExecution(k, t, n, result)
  PROVE  \E status \in {"completed", "failed", "ambiguous"},
            delay \in Nat \union {Never} :
           /\ FinishClaimedEgressDelivery(k, t, status, delay)
           /\ status # "failed" => delay = Never
BY FailFinishes DEF CommitEgressExecution

(* The passing of time moves deadlines and nothing else; a delay that has  *)
(* a value keeps one.                                                      *)
LEMMA LaterFacts ==
  ASSUME OutboxTyped, OutboxLater
  PROVE  /\ OutboxTyped'
         /\ \A k \in EffectKeys :
              /\ effects'[k].status = effects[k].status
              /\ effects'[k].delay = Never <=> effects[k].delay = Never
<1>1. ASSUME NEW k \in EffectKeys
      PROVE  /\ effects'[k] \in EffectRow
             /\ effects'[k].status = effects[k].status
             /\ effects'[k].delay = Never <=> effects[k].delay = Never
  <2>1. effects[k] \in EffectRow
    BY DEF OutboxTyped
  <2>2. CASE effects[k].delay \in {Never, 0}
    BY <2>1, <2>2 DEF OutboxLater
  <2>3. CASE effects[k].delay \notin {Never, 0}
    <3>1. effects[k].delay \in Nat \ {0} /\ effects[k].delay - 1 \in Nat
      BY <2>1, <2>3 DEF EffectRow
    <3>2. effects'[k] = [status |-> effects[k].status, attempts |-> effects[k].attempts,
                         delay |-> effects[k].delay - 1]
      BY <2>1, <2>3 DEF OutboxLater, EffectRow
    <3> QED
      BY <2>1, <3>1, <3>2, OutboxAssumption DEF EffectRow
  <2> QED
    BY <2>2, <2>3
<1>2. effects' \in [EffectKeys -> EffectRow]
  BY <1>1 DEF OutboxLater
<1>3. ASSUME NEW c \in effect_claims
      PROVE  [c EXCEPT !.left = Sooner(@)] \in
                [key : EffectKeys, token : EgressTokens, left : Int]
  BY DEF OutboxTyped, Sooner
<1>4. effect_claims' \subseteq [key : EffectKeys, token : EgressTokens, left : Int]
  BY <1>3 DEF OutboxLater
<1> QED
  BY <1>1, <1>2, <1>4 DEF OutboxTyped

-----------------------------------------------------------------------------
(* Every step keeps the types.                                             *)
LEMMA TypedStep == Typed /\ [Next]_vars => Typed'
<1> SUFFICES ASSUME Typed, [Next]_vars PROVE Typed'
  OBVIOUS
<1> USE DEF Typed
<1>1. CASE ReceiveUntil
  BY <1>1 DEF ReceiveUntil, OutboxTyped, ActorTyped, outbox
<1>2. CASE DeadlinePasses
  BY <1>2 DEF DeadlinePasses, OutboxTyped, ActorTyped, outbox
<1>3. CASE PollAndTick
  BY <1>3 DEF PollAndTick, OutboxTyped, ActorTyped, outbox
<1>4. CASE Reconcile
  BY <1>4 DEF Reconcile, OutboxTyped, ActorTyped, outbox, ReconcileExpiredEgressClaims
<1>5. CASE LaneFilled
  BY <1>5 DEF LaneFilled, OutboxTyped, ActorTyped, outbox
<1>6. CASE Publish
  BY <1>6, OutboxAssumption DEF Publish, OutboxTyped, ActorTyped, outbox
<1>7. CASE Ingest
  BY <1>7 DEF Ingest, OutboxTyped, ActorTyped, outbox
<1>8. CASE Status
  BY <1>8 DEF Status, OutboxTyped, ActorTyped, outbox
<1>9. CASE TickSchedules
  BY <1>9 DEF TickSchedules, OutboxTyped, ActorTyped, outbox, ResetTimers
<1>10. CASE Reload
  BY <1>10 DEF Reload, OutboxTyped, ActorTyped, outbox, ResetTimers
<1>11. CASE ProcessEnds
  BY <1>11 DEF ProcessEnds, OutboxTyped, ActorTyped, outbox
<1>12. CASE Startup
  BY <1>12 DEF Startup, OutboxTyped, ActorTyped, outbox
<1>13. CASE RenewDueEgress
  <2>1. ASSUME NEW c \in effect_claims
        PROVE  [c EXCEPT !.left = EgressLease] \in
                  [key : EffectKeys, token : EgressTokens, left : Int]
    BY OutboxAssumption DEF OutboxTyped
  <2>2. OutboxTyped'
    BY <1>13, <2>1 DEF RenewDueEgress, RenewEgressClaims, OutboxTyped
  <2> QED
    BY <1>13, <2>2 DEF RenewDueEgress, ActorTyped
<1>14. CASE PlanPendingEgress
  <2>1. ActorTyped'
    BY <1>14 DEF PlanPendingEgress, ActorTyped
  <2>2. ASSUME NEW k \in Unplanned, PlanEffect(k)
        PROVE  OutboxTyped'
    <3>1. k \in EffectKeys
      BY OutboxAssumption DEF Unplanned, EffectKeys, ActorTyped
    <3>2. "planned" \in EffectStatus
      BY DEF EffectStatus
    <3>3. IndexEffect(k, "planned", 0, 0) /\ UNCHANGED effect_claims
      BY <2>2 DEF PlanEffect
    <3>4. effects' \in [EffectKeys -> EffectRow]
      BY <3>1, <3>2, <3>3, IndexEffectFacts
    <3> QED
      BY <3>3, <3>4 DEF OutboxTyped
  <2> QED
    BY <1>14, <2>1, <2>2 DEF PlanPendingEgress, OutboxTyped, outbox
<1>15. CASE ClaimEgress
  <2>1. PICK k \in EffectKeys, t \in EgressTokens :
          ClaimNextEgressDelivery(k, t) /\ claim' = [key |-> k, token |-> t]
    BY <1>15 DEF ClaimEgress
  <2>2. OutboxTyped'
    BY <2>1, OutboxAssumption DEF ClaimNextEgressDelivery, OutboxTyped
  <2> QED
    BY <1>15, <2>1, <2>2 DEF ClaimEgress, ActorTyped, EgressClaim
<1>16. CASE StartEgress
  <2>1. claim.key \in EffectKeys /\ claim.token \in EgressTokens
    BY <1>16 DEF StartEgress, ActorTyped, EgressClaim
  <2>2. OutboxTyped'
    BY <1>16, <2>1, StartFacts DEF StartEgress
  <2> QED
    BY <1>16, <2>2 DEF StartEgress, ActorTyped
<1>17. CASE SpawnEgress
  <2>1. claim \in EgressClaim
    BY <1>17 DEF SpawnEgress, ActorTyped
  <2>2. claim.key \in EffectKeys /\ claim.token \in EgressTokens
    BY <2>1 DEF EgressClaim
  <2>3. effects[claim.key].attempts \in Nat
    BY <2>2 DEF OutboxTyped, EffectRow
  <2>4. workers' \subseteq EgressWorker
    BY <1>17, <2>2, <2>3 DEF SpawnEgress, ActorTyped, EgressWorker
  <2>5. calls' \in [EffectKeys -> Nat]
    BY <1>17, <2>2 DEF SpawnEgress, ActorTyped
  <2> QED
    BY <1>17, <2>4, <2>5 DEF SpawnEgress, ActorTyped, OutboxTyped, outbox
<1>18. CASE SpawnFails
  <2>1. ActorTyped'
    BY <1>18 DEF SpawnFails, ActorTyped
  <2>2. claim.key \in EffectKeys /\ claim.token \in EgressTokens
    BY <1>18 DEF SpawnFails, ActorTyped, EgressClaim
  <2>3. effects[claim.key].attempts \in Nat
    BY <2>2 DEF OutboxTyped, EffectRow
  <2>4. CASE FailEgressExecution(claim.key, claim.token, effects[claim.key].attempts)
    BY <2>1, <2>2, <2>3, <2>4, FailFinishes, FinishFacts
  <2> QED
    BY <1>18, <2>1, <2>4 DEF SpawnFails, OutboxTyped, outbox
<1>19. ASSUME NEW w \in workers, EgressFinished(w) PROVE Typed'
  <2>1. ActorTyped'
    BY <1>19 DEF EgressFinished, ActorTyped
  <2>2. w.key \in EffectKeys /\ w.token \in EgressTokens /\ w.attempts \in Nat
    BY DEF ActorTyped, EgressWorker
  <2>3. CASE CommitEgressExecution(w.key, w.token, w.attempts, w.result)
    BY <2>1, <2>2, <2>3, CommitFinishes, FinishFacts
  <2> QED
    BY <1>19, <2>1, <2>3 DEF EgressFinished, OutboxTyped, outbox
<1>20. ASSUME NEW w \in workers, NEW r \in {"completed", "failed"}, WorkerReturns(w, r)
      PROVE  Typed'
  <2>1. [w EXCEPT !.result = r] \in EgressWorker
    BY DEF ActorTyped, EgressWorker
  <2>2. workers' \subseteq EgressWorker
    BY <1>20, <2>1 DEF WorkerReturns, ActorTyped
  <2> QED
    BY <1>20, <2>2 DEF WorkerReturns, ActorTyped, OutboxTyped, outbox, actor
<1>21. CASE Tick
  BY <1>21, LaterFacts DEF Tick, ActorTyped
<1>22. CASE UNCHANGED vars
  BY <1>22 DEF vars, outbox, actor, OutboxTyped, ActorTyped
<1> QED
  BY <1>1, <1>2, <1>3, <1>4, <1>5, <1>6, <1>7, <1>8, <1>9, <1>10, <1>11, <1>12, <1>13, <1>14, <1>15, <1>16, <1>17, <1>18, <1>19, <1>20, <1>21, <1>22 DEF Next, ActorStep

-----------------------------------------------------------------------------
(* Every step keeps the history of an unsafe effect.                       *)
LEMMA UnsafeStep == Typed /\ UnsafeInv /\ [Next]_vars => UnsafeInv'
<1> SUFFICES ASSUME Typed, UnsafeInv, [Next]_vars, NEW k \in Unsafe
             PROVE  UnsafeHistory(k)'
  BY DEF UnsafeInv
<1> USE DEF Typed
<1>k. k \in EffectKeys /\ UnsafeHistory(k) /\ calls[k] \in Nat
  BY OutboxAssumption DEF UnsafeInv, ActorTyped
<1>1. CASE ReceiveUntil
  BY <1>k, <1>1 DEF ReceiveUntil, UnsafeHistory, outbox
<1>2. CASE DeadlinePasses
  BY <1>k, <1>2 DEF DeadlinePasses, UnsafeHistory, outbox
<1>3. CASE PollAndTick
  BY <1>k, <1>3 DEF PollAndTick, UnsafeHistory, outbox
<1>4. CASE RenewDueEgress
  BY <1>k, <1>4 DEF RenewDueEgress, UnsafeHistory
<1>5. CASE Reconcile
  BY <1>k, <1>5 DEF Reconcile, UnsafeHistory, ReconcileExpiredEgressClaims
<1>6. CASE LaneFilled
  BY <1>k, <1>6 DEF LaneFilled, UnsafeHistory, outbox
<1>7. CASE Publish
  BY <1>k, <1>7 DEF Publish, UnsafeHistory, outbox
<1>8. CASE Ingest
  BY <1>k, <1>8 DEF Ingest, UnsafeHistory, outbox
<1>9. CASE Status
  BY <1>k, <1>9 DEF Status, UnsafeHistory, outbox
<1>10. CASE TickSchedules
  BY <1>k, <1>10 DEF TickSchedules, UnsafeHistory, outbox, ResetTimers
<1>11. CASE Reload
  BY <1>k, <1>11 DEF Reload, UnsafeHistory, outbox, ResetTimers
<1>12. CASE ProcessEnds
  BY <1>k, <1>12 DEF ProcessEnds, UnsafeHistory, outbox
<1>13. CASE Startup
  BY <1>k, <1>13 DEF Startup, UnsafeHistory
<1>14. CASE PlanPendingEgress
  <2>1. calls' = calls /\ pc' \notin {"start", "spawn"}
    BY <1>14 DEF PlanPendingEgress
  <2>2. CASE UNCHANGED effects
    BY <1>k, <2>1, <2>2 DEF UnsafeHistory
  <2>3. ASSUME NEW j \in Unplanned, PlanEffect(j)
        PROVE  UnsafeHistory(k)'
    <3>1. j \in EffectKeys /\ "planned" \in EffectStatus
      BY OutboxAssumption DEF Unplanned, EffectKeys, ActorTyped, EffectStatus
    <3>2. IndexEffect(j, "planned", 0, 0) /\ effects[j].status = Absent
      BY <2>3 DEF PlanEffect, Unplanned
    <3>3. effects'[j].status = "planned"
      BY <3>1, <3>2, IndexEffectFacts
    <3>4. j # k => effects'[k] = effects[k]
      BY <1>k, <3>1, <3>2, IndexEffectFacts
    <3> QED
      BY <1>k, <2>1, <3>2, <3>3, <3>4 DEF UnsafeHistory
  <2> QED
    BY <1>14, <2>2, <2>3 DEF PlanPendingEgress, outbox
<1>15. CASE ClaimEgress
  <2>1. PICK j \in EffectKeys, t \in EgressTokens :
          ClaimNextEgressDelivery(j, t) /\ claim' = [key |-> j, token |-> t]
    BY <1>15 DEF ClaimEgress
  <2>2. j = k => effects[k].status = "planned"
    BY <1>k, <2>1 DEF ClaimNextEgressDelivery, Ready, UnsafeHistory
  <2> QED
    BY <1>k, <1>15, <2>1, <2>2 DEF ClaimEgress, ClaimNextEgressDelivery, UnsafeHistory
<1>16. CASE StartEgress
  <2>1. claim.key \in EffectKeys /\ claim.token \in EgressTokens
    BY <1>16 DEF StartEgress, ActorTyped, EgressClaim
  <2>2. effects'[claim.key].status = "started"
    BY <1>16, <2>1, StartFacts DEF StartEgress
  <2>3. claim.key # k => effects'[k] = effects[k]
    BY <1>k, <1>16, <2>1, StartFacts DEF StartEgress
  <2> QED
    BY <1>k, <1>16, <2>2, <2>3 DEF StartEgress, UnsafeHistory
<1>17. CASE SpawnEgress
  <2>1. claim.key \in EffectKeys
    BY <1>17 DEF SpawnEgress, ActorTyped, EgressClaim
  <2>2. calls'[k] = IF claim.key = k THEN calls[k] + 1 ELSE calls[k]
    BY <1>k, <1>17, <2>1 DEF SpawnEgress, ActorTyped
  <2> QED
    BY <1>k, <1>17, <2>2 DEF SpawnEgress, UnsafeHistory, Absent, outbox
<1>18. CASE SpawnFails
  <2>1. calls' = calls /\ pc' \notin {"start", "spawn"}
    BY <1>18 DEF SpawnFails
  <2>2. claim.key \in EffectKeys /\ claim.token \in EgressTokens
    BY <1>18 DEF SpawnFails, ActorTyped, EgressClaim
  <2>3. effects[claim.key].attempts \in Nat
    BY <2>2 DEF OutboxTyped, EffectRow
  <2>4. CASE FailEgressExecution(claim.key, claim.token, effects[claim.key].attempts)
    <3>1. PICK status \in {"completed", "failed", "ambiguous"}, delay \in Nat \union {Never} :
            FinishClaimedEgressDelivery(claim.key, claim.token, status, delay)
      BY <2>2, <2>3, <2>4, FailFinishes
    <3>2. effects'[claim.key].status = status /\ (status = "failed" => claim.key \notin Unsafe)
      BY <2>2, <3>1, FinishFacts
    <3>3. claim.key # k => effects'[k] = effects[k]
      BY <1>k, <2>2, <3>1, FinishFacts
    <3> QED
      BY <1>k, <2>1, <3>2, <3>3 DEF UnsafeHistory, Absent
  <2>5. CASE UNCHANGED outbox
    BY <1>k, <2>1, <2>5 DEF UnsafeHistory, outbox
  <2> QED
    BY <1>18, <2>4, <2>5 DEF SpawnFails
<1>19. ASSUME NEW w \in workers, EgressFinished(w) PROVE UnsafeHistory(k)'
  <2>1. calls' = calls /\ pc' \notin {"start", "spawn"}
    BY <1>19 DEF EgressFinished
  <2>2. w.key \in EffectKeys /\ w.token \in EgressTokens /\ w.attempts \in Nat
    BY DEF ActorTyped, EgressWorker
  <2>3. CASE CommitEgressExecution(w.key, w.token, w.attempts, w.result)
    <3>1. PICK status \in {"completed", "failed", "ambiguous"}, delay \in Nat \union {Never} :
            FinishClaimedEgressDelivery(w.key, w.token, status, delay)
      BY <2>2, <2>3, CommitFinishes
    <3>2. effects'[w.key].status = status /\ (status = "failed" => w.key \notin Unsafe)
      BY <2>2, <3>1, FinishFacts
    <3>3. w.key # k => effects'[k] = effects[k]
      BY <1>k, <2>2, <3>1, FinishFacts
    <3> QED
      BY <1>k, <2>1, <3>2, <3>3 DEF UnsafeHistory, Absent
  <2>4. CASE UNCHANGED outbox
    BY <1>k, <2>1, <2>4 DEF UnsafeHistory, outbox
  <2> QED
    BY <1>19, <2>3, <2>4 DEF EgressFinished
<1>20. ASSUME NEW w \in workers, NEW r \in {"completed", "failed"}, WorkerReturns(w, r)
      PROVE  UnsafeHistory(k)'
  BY <1>k, <1>20 DEF WorkerReturns, UnsafeHistory, outbox, actor
<1>21. CASE Tick
  <2>1. effects'[k].status = effects[k].status
    BY <1>k, <1>21, LaterFacts DEF Tick
  <2> QED
    BY <1>k, <1>21, <2>1 DEF Tick, UnsafeHistory
<1>22. CASE UNCHANGED vars
  BY <1>k, <1>22 DEF vars, outbox, actor, UnsafeHistory
<1> QED
  BY <1>1, <1>2, <1>3, <1>4, <1>5, <1>6, <1>7, <1>8, <1>9, <1>10, <1>11, <1>12, <1>13, <1>14, <1>15, <1>16, <1>17, <1>18, <1>19, <1>20, <1>21, <1>22 DEF Next, ActorStep

(* The outbox starts empty.                                                *)
LEMMA InitTyped == Init => Typed /\ UnsafeInv
<1> SUFFICES ASSUME Init PROVE Typed /\ UnsafeInv
  OBVIOUS
<1>1. OutboxTyped
  BY OutboxAssumption DEF Init, OutboxInit, OutboxTyped, EffectRow
<1>2. ActorTyped
  BY OutboxAssumption DEF Init, ActorTyped
<1>3. UnsafeInv
  BY OutboxAssumption DEF Init, OutboxInit, UnsafeInv, UnsafeHistory, Absent
<1> QED
  BY <1>1, <1>2, <1>3 DEF Typed

(* The connector of an effect that is unsafe to retry is called at most    *)
(* once, for any number of effects, lanes, crashes and lost leases         *)
(* (claim_next_egress_delivery, commit_egress_execution).                  *)
THEOREM UnsafeDeliveredOnce == Spec => []UnsafeAtMostOnce
<1>1. Init => Typed /\ UnsafeInv
  BY InitTyped
<1>2. Typed /\ UnsafeInv /\ [Next]_vars => (Typed /\ UnsafeInv)'
  BY TypedStep, UnsafeStep
<1>3. UnsafeInv => UnsafeAtMostOnce
  BY DEF UnsafeInv, UnsafeHistory, UnsafeAtMostOnce
<1> QED
  BY <1>1, <1>2, <1>3, PTL DEF Spec

-----------------------------------------------------------------------------
(* Owners and final states.  A claim row is what keeps a settled effect    *)
(* from being started again, so the two are proved together.               *)

FinalRows ==
  \A k \in EffectKeys :
    effects[k].status \in {"completed", "ambiguous"} => effects[k].delay = Never

OwnerInv == OneOwnerPerDelivery /\ FinalRows

(* Committing a result frees the effect and touches no settled one.        *)
LEMMA FinishOwner ==
  ASSUME OutboxTyped, OwnerInv, NEW k \in EffectKeys, NEW t \in EgressTokens,
         NEW status \in {"completed", "failed", "ambiguous"},
         NEW delay \in Nat \union {Never},
         status # "failed" => delay = Never,
         FinishClaimedEgressDelivery(k, t, status, delay)
  PROVE  /\ OwnerInv'
         /\ \A j \in EffectKeys : Settled(j) => effects'[j] = effects[j]
<1>1. /\ effects'[k].status = status /\ effects'[k].delay = delay
      /\ \A j \in EffectKeys \ {k} : effects'[j] = effects[j]
  <2>1. effects'[k].status = status
    BY FinishFacts
  <2>2. effects'[k].delay = delay
    BY FinishFacts
  <2>3. \A j \in EffectKeys \ {k} : effects'[j] = effects[j]
    BY FinishFacts
  <2> QED
    BY <2>1, <2>2, <2>3
<1>2. effect_claims' \subseteq effect_claims /\ \A c \in effect_claims' : c.key # k
  <2>1. PICK o \in effect_claims : o.key = k /\ o.token = t
    BY FinishFacts
  <2>2. effect_claims' = {c \in effect_claims : ~(c.key = k /\ c.token = t)}
    BY FinishFacts
  <2>3. \A c \in effect_claims : c.key = k => c = o
    BY <2>1 DEF OwnerInv, OneOwnerPerDelivery
  <2> QED
    BY <2>1, <2>2, <2>3
<1>3. \A c \in effect_claims : c.key \in EffectKeys
  BY DEF OutboxTyped
<1>4. \A j \in EffectKeys : Settled(j) => j # k
  BY DEF FinishClaimedEgressDelivery, Settled
<1>5. OneOwnerPerDelivery'
  BY <1>1, <1>2, <1>3 DEF OwnerInv, OneOwnerPerDelivery, Settled
<1>6. FinalRows'
  BY <1>1 DEF OwnerInv, FinalRows
<1> QED
  BY <1>1, <1>4, <1>5, <1>6 DEF OwnerInv

(* Every step keeps the owners of deliveries, and what is settled.         *)
LEMMA OwnerStep == Typed /\ OwnerInv /\ [Next]_vars => OwnerInv' /\ KeepsSettled
<1> SUFFICES ASSUME Typed, OwnerInv, [Next]_vars
             PROVE  OwnerInv' /\ KeepsSettled
  OBVIOUS
<1> USE DEF Typed
<1>k. \A c \in effect_claims : c.key \in EffectKeys
  BY DEF OutboxTyped
<1>1. CASE ReceiveUntil
  BY <1>1 DEF ReceiveUntil, outbox, OwnerInv, OneOwnerPerDelivery, FinalRows, KeepsSettled, Settled
<1>2. CASE DeadlinePasses
  BY <1>2 DEF DeadlinePasses, outbox, OwnerInv, OneOwnerPerDelivery, FinalRows, KeepsSettled, Settled
<1>3. CASE PollAndTick
  BY <1>3 DEF PollAndTick, outbox, OwnerInv, OneOwnerPerDelivery, FinalRows, KeepsSettled, Settled
<1>4. CASE Reconcile
  BY <1>4 DEF Reconcile, ReconcileExpiredEgressClaims, OwnerInv, OneOwnerPerDelivery, FinalRows, KeepsSettled, Settled
<1>5. CASE LaneFilled
  BY <1>5 DEF LaneFilled, outbox, OwnerInv, OneOwnerPerDelivery, FinalRows, KeepsSettled, Settled
<1>6. CASE Publish
  BY <1>6 DEF Publish, outbox, OwnerInv, OneOwnerPerDelivery, FinalRows, KeepsSettled, Settled
<1>7. CASE Ingest
  BY <1>7 DEF Ingest, outbox, OwnerInv, OneOwnerPerDelivery, FinalRows, KeepsSettled, Settled
<1>8. CASE Status
  BY <1>8 DEF Status, outbox, OwnerInv, OneOwnerPerDelivery, FinalRows, KeepsSettled, Settled
<1>9. CASE TickSchedules
  BY <1>9 DEF TickSchedules, outbox, ResetTimers, OwnerInv, OneOwnerPerDelivery, FinalRows, KeepsSettled, Settled
<1>10. CASE Reload
  BY <1>10 DEF Reload, outbox, ResetTimers, OwnerInv, OneOwnerPerDelivery, FinalRows, KeepsSettled, Settled
<1>11. CASE ProcessEnds
  BY <1>11 DEF ProcessEnds, outbox, OwnerInv, OneOwnerPerDelivery, FinalRows, KeepsSettled, Settled
<1>12. CASE Startup
  BY <1>12 DEF Startup, OwnerInv, OneOwnerPerDelivery, FinalRows, KeepsSettled, Settled
<1>13. CASE RenewDueEgress
  <2>1. effects' = effects /\ calls' = calls
    BY <1>13 DEF RenewDueEgress
  <2>2. PICK pairs : RenewEgressClaims(pairs)
    BY <1>13 DEF RenewDueEgress
  <2>3. \A c \in effect_claims : [c EXCEPT !.left = EgressLease].key = c.key
    BY DEF OutboxTyped
  <2>4. OneOwnerPerDelivery'
    <3> DEFINE Renewed(c) == IF <<c.key, c.token>> \in pairs /\ c.left >= 0
                               THEN [c EXCEPT !.left = EgressLease] ELSE c
    <3>1. effect_claims' = {Renewed(c) : c \in effect_claims}
      BY <2>2 DEF RenewEgressClaims
    <3>2. \A c \in effect_claims : Renewed(c).key = c.key
      BY <2>3
    <3> HIDE DEF Renewed
    <3>3. \A c, d \in effect_claims' : c.key = d.key => c = d
      BY <3>1, <3>2 DEF OwnerInv, OneOwnerPerDelivery
    <3>4. \A c \in effect_claims' : \E d \in effect_claims : c.key = d.key
      BY <3>1, <3>2
    <3> QED
      BY <2>1, <3>3, <3>4 DEF OwnerInv, OneOwnerPerDelivery, Settled
  <2> QED
    BY <2>1, <2>4 DEF OwnerInv, FinalRows, KeepsSettled
<1>14. CASE PlanPendingEgress
  <2>1. calls' = calls /\ effect_claims' = effect_claims
    BY <1>14 DEF PlanPendingEgress, PlanEffect, outbox
  <2>2. CASE UNCHANGED outbox
    BY <2>1, <2>2 DEF outbox, OwnerInv, OneOwnerPerDelivery, FinalRows, KeepsSettled, Settled
  <2>3. ASSUME NEW j \in Unplanned, PlanEffect(j)
        PROVE  OwnerInv' /\ KeepsSettled
    <3>1. j \in EffectKeys /\ "planned" \in EffectStatus
      BY OutboxAssumption DEF Unplanned, EffectKeys, ActorTyped, EffectStatus
    <3>2. IndexEffect(j, "planned", 0, 0) /\ effects[j].status = Absent
      BY <2>3 DEF PlanEffect, Unplanned
    <3>3. effects'[j].status = "planned"
      BY <3>1, <3>2, IndexEffectFacts
    <3>4. \A k \in EffectKeys \ {j} : effects'[k] = effects[k]
      BY <3>1, <3>2, IndexEffectFacts
    <3> QED
      BY <1>k, <2>1, <3>1, <3>2, <3>3, <3>4 DEF OwnerInv, OneOwnerPerDelivery, FinalRows, KeepsSettled, Settled, Absent
  <2> QED
    BY <1>14, <2>2, <2>3 DEF PlanPendingEgress
<1>15. CASE ClaimEgress
  <2>1. effects' = effects /\ calls' = calls
    BY <1>15 DEF ClaimEgress, ClaimNextEgressDelivery
  <2>2. PICK k \in EffectKeys, t \in EgressTokens : ClaimNextEgressDelivery(k, t)
    BY <1>15 DEF ClaimEgress
  <2>3. effect_claims' = effect_claims \union
          {[key |-> k, token |-> t, left |-> EgressLease]}
    BY <2>2 DEF ClaimNextEgressDelivery
  <2>4. \A c \in effect_claims : c.key # k
    BY <2>2 DEF ClaimNextEgressDelivery, Ready, ClaimedKeys
  <2>5. ~Settled(k)
    BY <2>2, OutboxAssumption DEF ClaimNextEgressDelivery, Ready, Settled
  <2>6. OneOwnerPerDelivery'
    BY <2>1, <2>3, <2>4, <2>5 DEF OwnerInv, OneOwnerPerDelivery, Settled
  <2> QED
    BY <2>1, <2>6 DEF OwnerInv, FinalRows, KeepsSettled
<1>16. CASE StartEgress
  <2>1. claim.key \in EffectKeys /\ claim.token \in EgressTokens
    BY <1>16 DEF StartEgress, ActorTyped, EgressClaim
  <2>2. effects'[claim.key].status = "started" /\ effect_claims' = effect_claims
    BY <1>16, <2>1, StartFacts DEF StartEgress
  <2>3. \A k \in EffectKeys \ {claim.key} : effects'[k] = effects[k]
    BY <1>16, <2>1, StartFacts DEF StartEgress
  <2>4. ~Settled(claim.key)
    BY <1>16 DEF StartEgress, StartClaimedEgressDelivery, OwnerInv, OneOwnerPerDelivery
  <2>5. calls' = calls
    BY <1>16 DEF StartEgress
  <2> QED
    BY <1>k, <2>1, <2>2, <2>3, <2>4, <2>5 DEF OwnerInv, OneOwnerPerDelivery, FinalRows, KeepsSettled, Settled
<1>17. CASE SpawnEgress
  <2>1. claim.key \in EffectKeys /\ ~Settled(claim.key)
    BY <1>17 DEF SpawnEgress, ActorTyped, EgressClaim, OwnerInv, OneOwnerPerDelivery
  <2>2. \A k \in EffectKeys \ {claim.key} : calls'[k] = calls[k]
    BY <1>17, <2>1 DEF SpawnEgress, ActorTyped
  <2> QED
    BY <1>17, <2>1, <2>2 DEF SpawnEgress, outbox, OwnerInv, OneOwnerPerDelivery, FinalRows, KeepsSettled, Settled
<1>18. CASE SpawnFails
  <2>1. calls' = calls
    BY <1>18 DEF SpawnFails
  <2>2. claim.key \in EffectKeys /\ claim.token \in EgressTokens
    BY <1>18 DEF SpawnFails, ActorTyped, EgressClaim
  <2>3. effects[claim.key].attempts \in Nat
    BY <2>2 DEF OutboxTyped, EffectRow
  <2>4. CASE FailEgressExecution(claim.key, claim.token, effects[claim.key].attempts)
    <3>1. PICK status \in {"completed", "failed", "ambiguous"}, delay \in Nat \union {Never} :
            /\ FinishClaimedEgressDelivery(claim.key, claim.token, status, delay)
            /\ status # "failed" => delay = Never
      BY <2>2, <2>3, <2>4, FailFinishes
    <3> QED
      BY <2>1, <2>2, <3>1, FinishOwner DEF KeepsSettled
  <2>5. CASE UNCHANGED outbox
    BY <2>1, <2>5 DEF outbox, OwnerInv, OneOwnerPerDelivery, FinalRows, KeepsSettled, Settled
  <2> QED
    BY <1>18, <2>4, <2>5 DEF SpawnFails
<1>19. ASSUME NEW w \in workers, EgressFinished(w) PROVE OwnerInv' /\ KeepsSettled
  <2>1. calls' = calls
    BY <1>19 DEF EgressFinished
  <2>2. w.key \in EffectKeys /\ w.token \in EgressTokens /\ w.attempts \in Nat
    BY DEF ActorTyped, EgressWorker
  <2>3. CASE CommitEgressExecution(w.key, w.token, w.attempts, w.result)
    <3>1. PICK status \in {"completed", "failed", "ambiguous"}, delay \in Nat \union {Never} :
            /\ FinishClaimedEgressDelivery(w.key, w.token, status, delay)
            /\ status # "failed" => delay = Never
      BY <2>2, <2>3, CommitFinishes
    <3> QED
      BY <2>1, <2>2, <3>1, FinishOwner DEF KeepsSettled
  <2>4. CASE UNCHANGED outbox
    BY <2>1, <2>4 DEF outbox, OwnerInv, OneOwnerPerDelivery, FinalRows, KeepsSettled, Settled
  <2> QED
    BY <1>19, <2>3, <2>4 DEF EgressFinished
<1>20. ASSUME NEW w \in workers, NEW r \in {"completed", "failed"}, WorkerReturns(w, r)
      PROVE  OwnerInv' /\ KeepsSettled
  BY <1>20 DEF WorkerReturns, outbox, OwnerInv, OneOwnerPerDelivery, FinalRows, KeepsSettled, Settled
<1>21. CASE Tick
  <2>1. OutboxLater /\ calls' = calls
    BY <1>21 DEF Tick
  <2>2. \A k \in EffectKeys :
          /\ effects'[k].status = effects[k].status
          /\ effects'[k].delay = Never <=> effects[k].delay = Never
    BY <2>1, LaterFacts
  <2>3. \A k \in EffectKeys : effects[k].delay = Never => effects'[k] = effects[k]
    BY <2>1 DEF OutboxLater
  <2>4. \A c \in effect_claims : [c EXCEPT !.left = Sooner(@)].key = c.key
    BY DEF OutboxTyped
  <2>5. effect_claims' = {[c EXCEPT !.left = Sooner(@)] : c \in effect_claims}
    BY <2>1 DEF OutboxLater
  <2>6. OneOwnerPerDelivery'
    <3> DEFINE Older(c) == [c EXCEPT !.left = Sooner(@)]
    <3>1. effect_claims' = {Older(c) : c \in effect_claims}
      BY <2>5
    <3>2. \A c \in effect_claims : Older(c).key = c.key
      BY <2>4
    <3> HIDE DEF Older
    <3>3. \A c, d \in effect_claims' : c.key = d.key => c = d
      BY <3>1, <3>2 DEF OwnerInv, OneOwnerPerDelivery
    <3>4. \A c \in effect_claims' : \E d \in effect_claims : c.key = d.key
      BY <3>1, <3>2
    <3>5. \A k \in EffectKeys : Settled(k)' => Settled(k)
      BY <2>2 DEF Settled
    <3>6. \A c \in effect_claims' : ~Settled(c.key)'
      BY <1>k, <3>4, <3>5 DEF OwnerInv, OneOwnerPerDelivery
    <3> QED
      BY <3>3, <3>6 DEF OneOwnerPerDelivery
  <2>7. FinalRows'
    BY <2>2 DEF OwnerInv, FinalRows
  <2>8. KeepsSettled
    BY <2>1, <2>3 DEF KeepsSettled, Settled, OwnerInv, FinalRows
  <2> QED
    BY <2>6, <2>7, <2>8 DEF OwnerInv
<1>22. CASE UNCHANGED vars
  BY <1>22 DEF vars, outbox, OwnerInv, OneOwnerPerDelivery, FinalRows, KeepsSettled, Settled
<1> QED
  BY <1>1, <1>2, <1>3, <1>4, <1>5, <1>6, <1>7, <1>8, <1>9, <1>10, <1>11, <1>12, <1>13, <1>14, <1>15, <1>16, <1>17, <1>18, <1>19, <1>20, <1>21, <1>22 DEF Next, ActorStep

(* Nothing is claimed at first.                                            *)
LEMMA InitOwner == Init => Typed /\ OwnerInv
BY InitTyped DEF Init, OutboxInit, OwnerInv, OneOwnerPerDelivery, FinalRows, Absent

(* No delivery ever has two owners, and no claim outlives its delivery     *)
(* (effect_claims, finish_claimed_egress_delivery).                        *)
THEOREM DeliveriesHaveOneOwner == Spec => []OneOwnerPerDelivery
<1>1. Init => Typed /\ OwnerInv
  BY InitOwner
<1>2. Typed /\ OwnerInv /\ [Next]_vars => (Typed /\ OwnerInv)'
  BY TypedStep, OwnerStep
<1>3. OwnerInv => OneOwnerPerDelivery
  BY DEF OwnerInv
<1> QED
  BY <1>1, <1>2, <1>3, PTL DEF Spec

(* A settled delivery keeps its row, and its connector is not called again *)
(* (claim_next_egress_delivery, finish_claimed_egress_delivery).           *)
THEOREM SettledStaysSettled == Spec => SettledIsFinal
<1>1. Init => Typed /\ OwnerInv
  BY InitOwner
<1>2. Typed /\ OwnerInv /\ [Next]_vars => (Typed /\ OwnerInv)'
  BY TypedStep, OwnerStep
<1>3. Typed /\ OwnerInv /\ [Next]_vars => [KeepsSettled]_vars
  BY OwnerStep
<1> QED
  BY <1>1, <1>2, <1>3, PTL DEF Spec, SettledIsFinal

=============================================================================
