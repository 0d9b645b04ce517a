------------------------ MODULE DispatchQueueProofs ------------------------
(***************************************************************************)
(* Theorems about the work queue, for every number of events, agents,      *)
(* workers, tokens, lock keys and sessions.                                *)
(***************************************************************************)
EXTENDS DispatchQueue, TLAPS

(* Both provers are given time on every leaf that names none.              *)
USE ZenonT(5), SMTT(20)

-----------------------------------------------------------------------------
(* Type correctness.                                                       *)

(* A well-formed queue fact, and a well-formed attempt fact or none.       *)
QueueFactType ==
  [item : QueueItemIds, target : Agents \union {Unbound},
   session : Sessions \union {NoSession}, locks : SUBSET LockKeys,
   status : QueueItemStatus, delay : Nat]

AttemptFactType == AttemptRow \union {NoAttemptFact}

(* A fact of index_queue_item leaves a well-formed table.                  *)
LEMMA IndexQueueItemType ==
  ASSUME NEW items \in [QueueItemIds -> QueueRow], NEW f \in QueueFactType
  PROVE  IndexQueueItem(items, f) \in [QueueItemIds -> QueueRow]
<1>1. ASSUME NEW i \in QueueItemIds PROVE IndexedRow(items[i], f) \in QueueRow
  BY <1>1 DEF IndexedRow, QueueRow, QueueFactType
<1>2. NoRow \in QueueRow
  BY DEF NoRow, QueueRow
<1> QED
  BY <1>1, <1>2 DEF IndexQueueItem

(* index_attempt keeps attempt_count a natural number.                     *)
LEMMA IndexAttemptCountType ==
  ASSUME NEW items \in [QueueItemIds -> QueueRow], NEW g \in AttemptFactType
  PROVE  IndexAttemptCount(items, g) \in [QueueItemIds -> QueueRow]
<1>1. CASE g = NoAttemptFact
  BY <1>1 DEF IndexAttemptCount, NoAttemptFact, Absent
<1>2. CASE g \in AttemptRow
  BY <1>2 DEF IndexAttemptCount, AttemptRow, QueueRow
<1> QED
  BY <1>1, <1>2 DEF AttemptFactType

(* index_attempt leaves a well-formed attempts table.                      *)
LEMMA IndexAttemptType ==
  ASSUME NEW rows \in SUBSET AttemptRow, NEW g \in AttemptFactType
  PROVE  IndexAttempt(rows, g) \in SUBSET AttemptRow
<1>1. CASE g = NoAttemptFact
  BY <1>1 DEF IndexAttempt, NoAttemptFact, Absent
<1>2. CASE g \in AttemptRow /\ g.status = "running"
  BY <1>2 DEF IndexAttempt, Absent
<1>3. CASE g \in AttemptRow /\ g.status # "running"
  <2>1. ASSUME NEW a \in rows
        PROVE  [a EXCEPT !.status = g.status, !.token = NoToken] \in AttemptRow
    BY <1>3, <2>1 DEF AttemptRow
  <2>2. g.status # Absent
    BY <1>3 DEF AttemptRow, AttemptStatus, Absent
  <2> QED
    BY <1>3, <2>1, <2>2 DEF IndexAttempt
<1> QED
  BY <1>1, <1>2, <1>3 DEF AttemptFactType

(* Appending well-formed facts to well-formed tables keeps the tables and  *)
(* the replayed tables well-formed.                                        *)
LEMMA AppendFactsType ==
  ASSUME TypeOK,
         NEW live \in [QueueItemIds -> QueueRow],
         NEW replayed \in [QueueItemIds -> QueueRow],
         NEW f \in QueueFactType, NEW g \in AttemptFactType,
         AppendFacts(live, replayed, f, g)
  PROVE  /\ queue_items' \in [QueueItemIds -> QueueRow]
         /\ attempts' \subseteq AttemptRow
         /\ replay_items' \in [QueueItemIds -> QueueRow]
         /\ replay_attempts' \subseteq AttemptRow
         /\ replay_ok' \in BOOLEAN
<1> DEFINE h == [g EXCEPT !.token = NoToken]
<1>1. h \in AttemptFactType
  BY DEF AttemptFactType, AttemptRow, NoAttemptFact
<1>2. queue_items' \in [QueueItemIds -> QueueRow]
  BY IndexQueueItemType, IndexAttemptCountType DEF AppendFacts
<1>3. attempts' \subseteq AttemptRow
  BY IndexAttemptType DEF AppendFacts, TypeOK
<1>4. replay_items' \in [QueueItemIds -> QueueRow]
  BY IndexQueueItemType, IndexAttemptCountType DEF AppendFacts, TypeOK
<1>5. replay_attempts' \subseteq AttemptRow
  BY <1>1, IndexAttemptType DEF AppendFacts, TypeOK
<1>6. replay_ok' \in BOOLEAN
  <2> DEFINE ok == replay_ok /\ FactAccepted(replayed, f) /\ AttemptAccepted(replay_attempts, g)
  <2>1. replay_ok' = ok
    BY Zenon DEF AppendFacts
  <2>2. ok \in BOOLEAN
    OBVIOUS
  <2> QED
    BY <2>1, <2>2, Zenon
<1> QED
  BY <1>2, <1>3, <1>4, <1>5, <1>6

(* Recording a queue fact keeps the tables and their replay well-formed.   *)
LEMMA AppendQueueFactType ==
  ASSUME TypeOK,
         NEW live \in [QueueItemIds -> QueueRow],
         NEW replayed \in [QueueItemIds -> QueueRow],
         NEW f \in QueueFactType, AppendQueueFact(live, replayed, f)
  PROVE  /\ queue_items' \in [QueueItemIds -> QueueRow]
         /\ attempts' \subseteq AttemptRow
         /\ replay_items' \in [QueueItemIds -> QueueRow]
         /\ replay_attempts' \subseteq AttemptRow
         /\ replay_ok' \in BOOLEAN
<1>1. NoAttemptFact \in AttemptFactType
  BY DEF AttemptFactType
<1>2. AppendFacts(live, replayed, f, NoAttemptFact)
  BY DEF AppendQueueFact
<1> QED
  BY <1>1, <1>2, AppendFactsType

(* The single-column updates of a stored row.                              *)
LEMMA RowUpdateType ==
  ASSUME NEW r \in QueueRow
  PROVE  /\ \A s \in QueueItemStatus : [r EXCEPT !.status = s] \in QueueRow
         /\ [r EXCEPT !.cancel = TRUE] \in QueueRow
BY DEF QueueRow

(* A fact that repeats the fields of a stored row is well-formed.          *)
LEMMA RowFactType ==
  ASSUME TypeOK, NEW i \in QueueItemIds, NEW status \in QueueItemStatus, NEW delay \in Nat
  PROVE  RowFact(i, status, delay) \in QueueFactType
BY DEF TypeOK, QueueRow, RowFact, QueueFact, QueueFactType

(* Deleting claims, their locks or falling back keeps the tables typed.    *)
LEMMA RecoveredType ==
  ASSUME NEW items \in [QueueItemIds -> QueueRow], NEW ids
  PROVE  Recovered(items, ids) \in [QueueItemIds -> QueueRow]
BY DEF Recovered, QueueRow, QueueItemStatus

(* The passing of time keeps the rows well-formed.                         *)
LEMMA LaterType ==
  ASSUME NEW items \in [QueueItemIds -> QueueRow]
  PROVE  Later(items) \in [QueueItemIds -> QueueRow]
BY DEF Later, Dec, QueueRow

(* What EndAttempt commits is well-formed.                                 *)
LEMMA EndAttemptType ==
  ASSUME TypeOK, NEW w \in Workers, NEW c \in queue_claims, NEW a \in attempts,
         NEW s \in AttemptStatus, NEW q \in QueueItemStatus, NEW d \in Nat,
         EndAttempt(w, c, a, s, q, d)
  PROVE  TypeOK'
<1>1. RowFact(c.item, q, d) \in QueueFactType
  BY RowFactType DEF TypeOK, ClaimRow
<1>2. AttemptFact(a.item, a.number, s, NoToken) \in AttemptFactType
  BY DEF TypeOK, AttemptRow, AttemptFact, AttemptFactType
<1>3. /\ queue_items' \in [QueueItemIds -> QueueRow]
      /\ attempts' \subseteq AttemptRow
      /\ replay_items' \in [QueueItemIds -> QueueRow]
      /\ replay_attempts' \subseteq AttemptRow
      /\ replay_ok' \in BOOLEAN
  BY <1>1, <1>2, AppendFactsType DEF EndAttempt, TypeOK
<1> QED
  BY <1>3 DEF EndAttempt, TypeOK, LocksWithout

(* The tables are well-formed after every step of every worker, of the     *)
(* router, of a client, of recovery and of the clock.                      *)
LEMMA TypeInit == Init => TypeOK
<1> SUFFICES ASSUME Init PROVE TypeOK
  OBVIOUS
<1>1. NoRow \in QueueRow
  BY DEF NoRow, QueueRow
<1>2. /\ queue_items \in [QueueItemIds -> QueueRow]
      /\ replay_items \in [QueueItemIds -> QueueRow]
  BY <1>1 DEF Init
<1>3. held \in [Workers -> QueueClaim \union {NoToken}]
  BY DEF Init
<1>4. last_event \in 0..MaxEvents /\ losses \in 0..MaxLosses
  BY BoundsAssumption DEF Init
<1>5. replay_ok \in BOOLEAN
  BY DEF Init
<1> QED
  BY <1>2, <1>3, <1>4, <1>5 DEF Init, TypeOK

(* Every step keeps the types.                                             *)
LEMMA TypeStep == TypeOK /\ [Next]_vars => TypeOK'
<1> SUFFICES ASSUME TypeOK, [Next]_vars PROVE TypeOK'
  OBVIOUS
<1> USE BoundsAssumption, NamesAssumption
<1> DEFINE Tables == /\ queue_items' \in [QueueItemIds -> QueueRow]
                     /\ attempts' \subseteq AttemptRow
                     /\ replay_items' \in [QueueItemIds -> QueueRow]
                     /\ replay_attempts' \subseteq AttemptRow
                     /\ replay_ok' \in BOOLEAN
<1>t. /\ queue_items \in [QueueItemIds -> QueueRow]
      /\ replay_items \in [QueueItemIds -> QueueRow]
  BY DEF TypeOK
<1>p. ASSUME NEW items \in [QueueItemIds -> QueueRow], NEW e \in Events
      PROVE  IndexPending(items, e) \in [QueueItemIds -> QueueRow]
  <2>1. PendingQueueItemId(e) \in QueueItemIds
    BY DEF PendingQueueItemId, QueueItemIds
  <2> QED
    BY <2>1, RowUpdateType DEF IndexPending, QueueItemStatus
<1>r. ASSUME NEW i \in QueueItemIds, NEW e \in Events, NEW a \in Agents
      PROVE  RouteFact(i, e, a) \in QueueFactType
  BY DEF RouteFact, QueueFact, QueueFactType, QueueItemStatus
<1>1. CASE IngestEvent
  <2>1. last_event' \in Events /\ last_event' \in 0..MaxEvents
    BY <1>1 DEF IngestEvent, TypeOK, Events
  <2>2. queue_items' \in [QueueItemIds -> QueueRow]
    BY <1>1, <1>p, <2>1 DEF IngestEvent, TypeOK
  <2>3. replay_items' \in [QueueItemIds -> QueueRow]
    BY <1>1, <1>p, <2>1 DEF IngestEvent, TypeOK
  <2> QED
    BY <1>1, <2>1, <2>2, <2>3 DEF IngestEvent, TypeOK
<1>2. ASSUME NEW e \in Events, NEW plan \in RoutePlans, RouteIngressEvent(e, plan)
      PROVE  TypeOK'
  <2> DEFINE pending == PendingQueueItemId(e)
  <2>0. pending \in QueueItemIds
    BY DEF PendingQueueItemId, QueueItemIds
  <2>1. CASE AppendQueueFact(queue_items, replay_items,
               QueueFact(pending, Unbound, NoSession, {}, "unhandled", 0))
    <3>1. QueueFact(pending, Unbound, NoSession, {}, "unhandled", 0) \in QueueFactType
      BY <2>0 DEF QueueFact, QueueFactType, QueueItemStatus
    <3>2. Tables
      BY <1>t, <2>1, <3>1, AppendQueueFactType, ZenonT(60)
    <3> QED
      BY <1>2, <3>2 DEF RouteIngressEvent, TypeOK
  <2>2. ASSUME NEW a \in plan,
               AppendQueueFact(queue_items, replay_items, RouteFact(pending, e, a))
        PROVE  TypeOK'
    <3>0. RouteFact(pending, e, a) \in QueueFactType
      BY <1>r, <2>0, <2>2
    <3>1. Tables
      BY <1>t, <2>2, <3>0, AppendQueueFactType
    <3> QED
      BY <1>2, <3>1 DEF RouteIngressEvent, TypeOK
  <2>3. CASE FanOut(e, plan)
    <3>1. ASSUME NEW items \in [QueueItemIds -> QueueRow], NEW i \in QueueItemIds,
                 i[2] \in plan
          PROVE  IndexedRow(items[i], RouteFact(i, e, i[2])) \in QueueRow
      <4>1. RouteFact(i, e, i[2]) \in QueueFactType
        BY <1>r, <3>1
      <4> QED
        BY <4>1 DEF IndexedRow, QueueRow, QueueFactType
    <3>2. NoRow \in QueueRow
      BY DEF NoRow, QueueRow
    <3>3. ASSUME NEW items \in [QueueItemIds -> QueueRow]
          PROVE  IndexFanOut(items, e, plan) \in [QueueItemIds -> QueueRow]
      BY <3>1, <3>2 DEF IndexFanOut
    <3>4. queue_items' \in [QueueItemIds -> QueueRow]
      BY <2>3, <3>3 DEF FanOut, TypeOK
    <3>5. replay_items' \in [QueueItemIds -> QueueRow]
      BY <2>3, <3>3 DEF FanOut, TypeOK
    <3>6. replay_ok' \in BOOLEAN
      BY <2>3, Zenon DEF FanOut
    <3> QED
      BY <1>2, <2>3, <3>4, <3>5, <3>6 DEF RouteIngressEvent, FanOut, TypeOK
  <2> QED
    BY <1>2, <2>1, <2>2, <2>3 DEF RouteIngressEvent
<1>3. ASSUME NEW m \in MessageTargets, SubmitSessionMessage(m[1], m[2])
      PROVE  TypeOK'
  <2> DEFINE e == last_event + 1
             f == QueueFact(<<e, m[1]>>, m[1], m[2], {}, "available", 0)
  <2>1. e \in Events /\ e \in 0..MaxEvents
    BY <1>3 DEF SubmitSessionMessage, TypeOK, Events
  <2>2. m[1] \in Agents /\ m[2] \in Sessions
    OBVIOUS
  <2>3. f \in QueueFactType
    BY <2>1, <2>2 DEF QueueFact, QueueFactType, QueueItemIds, QueueItemStatus
  <2> HIDE DEF f
  <2>4. /\ IndexPending(queue_items, e) \in [QueueItemIds -> QueueRow]
        /\ IndexPending(replay_items, e) \in [QueueItemIds -> QueueRow]
    BY <1>p, <2>1 DEF TypeOK
  <2>5. Tables
    <3>1. AppendQueueFact(IndexPending(queue_items, e), IndexPending(replay_items, e), f)
      BY <1>3 DEF SubmitSessionMessage, f
    <3> HIDE DEF e
    <3> QED
      BY <2>3, <2>4, <3>1, AppendQueueFactType
  <2> QED
    BY <1>3, <2>1, <2>5 DEF SubmitSessionMessage, TypeOK
<1>4. ASSUME NEW w \in Workers, ClaimNextQueueItem(w)
      PROVE  TypeOK'
  <2>1. queue_items' \in [QueueItemIds -> QueueRow]
    BY <1>4, RecoveredType DEF ClaimNextQueueItem, TypeOK
  <2>2. CASE queue_claims' = queue_claims \ ExpiredClaims
               /\ locks' = LocksWithout(ExpiredClaims) /\ held' = held
    BY <1>4, <2>1, <2>2 DEF ClaimNextQueueItem, TypeOK, LocksWithout, journal
  <2>3. ASSUME NEW i \in QueueItemIds, NEW t \in Tokens,
               queue_claims' = (queue_claims \ ExpiredClaims) \union
                 {[item |-> i, worker |-> w, token |-> t, left |-> Lease]},
               locks' = LocksWithout(ExpiredClaims) \union
                 {[key |-> k, owner |-> t, left |-> Lease] :
                    k \in Recovered(queue_items, ItemsOf(ExpiredClaims))[i].locks},
               held' = [held EXCEPT ![w] = [item |-> i, token |-> t]]
        PROVE  TypeOK'
    <3>1. Recovered(queue_items, ItemsOf(ExpiredClaims))[i].locks \subseteq LockKeys
      <4>1. Recovered(queue_items, ItemsOf(ExpiredClaims)) \in [QueueItemIds -> QueueRow]
        BY RecoveredType DEF TypeOK
      <4> QED
        BY <4>1 DEF QueueRow
    <3>2. locks' \subseteq LockRow
      BY <2>3, <3>1 DEF TypeOK, LocksWithout, LockRow
    <3>3. queue_claims' \subseteq ClaimRow
      BY <2>3 DEF TypeOK, ClaimRow
    <3>4. held' \in [Workers -> QueueClaim \union {NoToken}]
      BY <2>3 DEF TypeOK, QueueClaim
    <3> QED
      BY <1>4, <2>1, <3>2, <3>3, <3>4 DEF ClaimNextQueueItem, TypeOK, journal
  <2> QED
    BY <1>4, <2>2, <2>3 DEF ClaimNextQueueItem, ClaimCandidates
<1>5. ASSUME NEW w \in Workers, StartClaimedAttempt(w)
      PROVE  TypeOK'
  <2>1. PICK c \in queue_claims :
               LET n == queue_items[c.item].attempt_count + 1
               IN  /\ n <= MaxStarts
                   /\ AppendFacts(queue_items, replay_items, RowFact(c.item, "claimed", 0),
                                  AttemptFact(c.item, n, "running", c.token))
    BY <1>5 DEF StartClaimedAttempt, CurrentClaims
  <2> DEFINE n == queue_items[c.item].attempt_count + 1
  <2>2. c.item \in QueueItemIds /\ c.token \in Tokens
    BY DEF TypeOK, ClaimRow
  <2>3. n \in 1..MaxStarts
    BY <2>1, <2>2 DEF TypeOK, QueueRow
  <2>4. RowFact(c.item, "claimed", 0) \in QueueFactType
    BY <2>2, RowFactType DEF QueueItemStatus
  <2>5. AttemptFact(c.item, n, "running", c.token) \in AttemptFactType
    BY <2>2, <2>3 DEF AttemptFact, AttemptFactType, AttemptRow, AttemptStatus
  <2>6. Tables
    <3> DEFINE f == RowFact(c.item, "claimed", 0)
               g == AttemptFact(c.item, n, "running", c.token)
    <3>1. AppendFacts(queue_items, replay_items, f, g)
      BY <2>1
    <3>2. f \in QueueFactType /\ g \in AttemptFactType
      BY <2>4, <2>5
    <3> HIDE DEF f, g
    <3> QED
      BY <1>t, <3>1, <3>2, AppendFactsType
  <2> QED
    BY <1>5, <2>6 DEF StartClaimedAttempt, TypeOK
<1>6. ASSUME NEW w \in Workers, RenewClaim(w)
      PROVE  TypeOK'
  <2>1. PICK c \in queue_claims :
          /\ queue_claims' = (queue_claims \ {c}) \union {[c EXCEPT !.left = Lease]}
          /\ locks' = {IF l.owner = c.token THEN [l EXCEPT !.left = Lease] ELSE l :
                         l \in locks}
    BY <1>6 DEF RenewClaim, CurrentClaims
  <2>2. [c EXCEPT !.left = Lease] \in ClaimRow
    <3>1. c \in ClaimRow
      BY DEF TypeOK
    <3> QED
      BY <3>1, BoundsAssumption DEF ClaimRow
  <2>3. \A l \in locks : [l EXCEPT !.left = Lease] \in LockRow
    BY DEF TypeOK, LockRow
  <2>4. queue_claims' \subseteq ClaimRow
    BY <2>1, <2>2 DEF TypeOK
  <2>5. locks' \subseteq LockRow
    <3>1. locks \subseteq LockRow
      BY DEF TypeOK
    <3> QED
      BY <2>1, <2>3, <3>1
  <2> QED
    BY <2>5, <1>6, <2>4 DEF RenewClaim, TypeOK, journal
<1>7. ASSUME NEW w \in Workers, ReleaseClaim(w)
      PROVE  TypeOK'
  <2>1. queue_items' \in [QueueItemIds -> QueueRow]
    BY <1>7, RecoveredType DEF ReleaseClaim, TypeOK
  <2>2. held' \in [Workers -> QueueClaim \union {NoToken}]
    BY <1>7 DEF ReleaseClaim, TypeOK
  <2>3. losses' \in 0..MaxLosses
    BY <1>7 DEF ReleaseClaim, TypeOK
  <2>4. queue_claims' \subseteq ClaimRow /\ locks' \subseteq LockRow
    BY <1>7 DEF ReleaseClaim, TypeOK, LocksWithout
  <2> QED
    BY <1>7, <2>1, <2>2, <2>3, <2>4 DEF ReleaseClaim, TypeOK, journal
<1>8. ASSUME NEW w \in Workers, FencedCallRefused(w) \/ WorkerCrash(w)
      PROVE  TypeOK'
  BY <1>8 DEF FencedCallRefused, WorkerCrash, TypeOK, journal
<1>9. ASSUME NEW w \in Workers, NEW code \in Failures, FailClaimedAttempt(w, code)
      PROVE  TypeOK'
  <2>1. PICK c \in queue_claims, a \in attempts :
               \/ EndAttempt(w, c, a, "cancelled", "cancelled", 0)
               \/ EndAttempt(w, c, a, "failed", "available", RetryDelay[a.number])
               \/ EndAttempt(w, c, a, "failed", "dead_lettered", 0)
    BY <1>9 DEF FailClaimedAttempt, CurrentClaims, RunningForClaim
  <2>2. RetryDelay[a.number] \in Nat
    BY DEF TypeOK, AttemptRow
  <2> QED
    BY <2>1, <2>2, EndAttemptType DEF AttemptStatus, QueueItemStatus
<1>10. ASSUME NEW w \in Workers, NEW d \in {"succeeded", "cancelled"},
              CompleteClaimedAttempt(w, d)
       PROVE  TypeOK'
  <2>1. PICK c \in queue_claims, a \in attempts :
               \/ EndAttempt(w, c, a, "cancelled", "cancelled", 0)
               \/ EndAttempt(w, c, a, "completed", "completed", 0)
    BY <1>10 DEF CompleteClaimedAttempt, CurrentClaims, RunningForClaim
  <2> QED
    BY <2>1, EndAttemptType DEF AttemptStatus, QueueItemStatus
<1>11. CASE ReconcileExpiredClaims
  <2>1. queue_items' \in [QueueItemIds -> QueueRow]
    BY <1>11, RecoveredType DEF ReconcileExpiredClaims, TypeOK
  <2> QED
    BY <1>11, <2>1 DEF ReconcileExpiredClaims, TypeOK, LocksWithout, journal
<1>12. ASSUME NEW i \in CancelTargets, CancelQueueItem(i)
       PROVE  TypeOK'
  <2>1. ASSUME NEW items \in [QueueItemIds -> QueueRow]
        PROVE  IndexCancelRequested(items, i) \in [QueueItemIds -> QueueRow]
    BY RowUpdateType DEF IndexCancelRequested
  <2>2. RowFact(i, "cancelled", 0) \in QueueFactType
    BY RowFactType DEF QueueItemStatus
  <2>3. Tables
    <3>1. CASE AppendQueueFact(IndexCancelRequested(queue_items, i),
                 IndexCancelRequested(replay_items, i), RowFact(i, "cancelled", 0))
      BY <2>1, <2>2, <3>1, AppendQueueFactType DEF TypeOK
    <3>2. CASE ~AppendQueueFact(IndexCancelRequested(queue_items, i),
                 IndexCancelRequested(replay_items, i), RowFact(i, "cancelled", 0))
      BY <1>12, <2>1, <3>2 DEF CancelQueueItem, TypeOK
    <3> QED
      BY <3>1, <3>2
  <2> QED
    BY <1>12, <2>3 DEF CancelQueueItem, TypeOK
<1>13. CASE FinalizeNextRequestedCancellation
  <2>1. PICK i \in QueueItemIds :
          \/ \E a \in attempts :
               AppendFacts(queue_items, replay_items, RowFact(i, "cancelled", 0),
                           AttemptFact(i, a.number, "cancelled", NoToken))
          \/ AppendQueueFact(queue_items, replay_items, RowFact(i, "cancelled", 0))
    BY <1>13 DEF FinalizeNextRequestedCancellation, AwaitingFinalization, LatestRunning,
                 RunningAttempts
  <2>2. RowFact(i, "cancelled", 0) \in QueueFactType
    BY RowFactType DEF QueueItemStatus
  <2>3. \A a \in attempts : AttemptFact(i, a.number, "cancelled", NoToken) \in AttemptFactType
    BY DEF TypeOK, AttemptRow, AttemptFact, AttemptFactType, AttemptStatus
  <2>4. Tables
    <3>1. ASSUME NEW a \in attempts,
                 AppendFacts(queue_items, replay_items, RowFact(i, "cancelled", 0),
                             AttemptFact(i, a.number, "cancelled", NoToken))
          PROVE  Tables
      BY <1>t, <2>2, <2>3, <3>1, AppendFactsType
    <3>2. CASE AppendQueueFact(queue_items, replay_items, RowFact(i, "cancelled", 0))
      BY <1>t, <2>2, <3>2, AppendQueueFactType
    <3> QED
      BY <2>1, <3>1, <3>2
  <2> QED
    BY <1>13, <2>4 DEF FinalizeNextRequestedCancellation, TypeOK
<1>14. CASE RebuildProjections
  <2>1. queue_items' \in [QueueItemIds -> QueueRow]
    BY <1>14, RowUpdateType DEF RebuildProjections, TypeOK, QueueItemStatus
  <2> QED
    BY <1>14, <2>1 DEF RebuildProjections, TypeOK, journal
<1>15. CASE Tick
  <2>1. losses' \in 0..MaxLosses
    BY <1>15 DEF Tick, TypeOK
  <2>2. \A n \in 0..Lease : Dec(n) \in 0..Lease
    BY DEF Dec
  <2>3. queue_claims' \subseteq ClaimRow
    <3>1. \A c \in ClaimRow : [c EXCEPT !.left = Dec(c.left)] \in ClaimRow
      BY <2>2 DEF ClaimRow
    <3> QED
      BY <1>15, <3>1 DEF Tick, TypeOK
  <2>4. locks' \subseteq LockRow
    <3>1. \A l \in LockRow : [l EXCEPT !.left = Dec(l.left)] \in LockRow
      BY <2>2 DEF LockRow
    <3> QED
      BY <1>15, <3>1 DEF Tick, TypeOK
  <2>5. /\ queue_items' \in [QueueItemIds -> QueueRow]
        /\ replay_items' \in [QueueItemIds -> QueueRow]
    BY <1>15, LaterType DEF Tick, TypeOK
  <2> QED
    BY <1>15, <2>1, <2>3, <2>4, <2>5 DEF Tick, TypeOK
<1>16. CASE UNCHANGED vars
  BY <1>16 DEF vars, journal, TypeOK
<1> QED
  BY <1>1, <1>2, <1>3, <1>4, <1>5, <1>6, <1>7, <1>8, <1>9, <1>10, <1>11, <1>12, <1>13,
     <1>14, <1>15, <1>16 DEF Next, Worker, EndClaimedAttempt

(* Every table of the queue holds well-formed rows in every reachable      *)
(* state: leases never exceed lease_ms, attempt numbers start at one.      *)
THEOREM TypeCorrect == Spec => []TypeOK
BY TypeInit, TypeStep, PTL DEF Spec

=============================================================================
