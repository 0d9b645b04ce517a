--------------------- MODULE DispatchQueueHistoryProofs ---------------------
(***************************************************************************)
(* The history of queue items, for every number of events, agents,         *)
(* workers, tokens, attempts and lost claims: what a rebuild restores,     *)
(* what the outcome of an item says about its attempts, who may record it, *)
(* and the order of the turns of a session.                                *)
(***************************************************************************)
EXTENDS DispatchQueueStepProofs

(* Both provers are given time on every leaf that names none.              *)
USE ZenonT(5), SMTT(20)

-----------------------------------------------------------------------------
(* Cancellation.                                                           *)

(* A stored item moves, and its attempts do not.                           *)
LEMMA SameAttemptsKeep ==
  ASSUME LockInv, TablesInv, TurnsInv, BudgetInv, TypeOK', NEW j, NEW q,
         StoredStep(j, q, queue_items[j].attempt_count),
         UNCHANGED <<attempts, queue_claims, held>>,
         q \notin {"completed", "dead_lettered"},
         q \in {"available", "claimed"} => q = queue_items[j].status
  PROVE  TablesInv' /\ TurnsInv' /\ BudgetInv' /\ CommitsUnderClaim
<1> DEFINE n == queue_items[j].attempt_count
<1>0. TypeOK /\ j \in QueueItemIds /\ Running(j) /\ losses' = losses
  BY DEF LockInv, StoredStep
<1>1. TablesInv'
  <2>1. \A a, b \in attempts' : a.item = j /\ b.item = j /\ a.number = b.number => a = b
    BY DEF TablesInv, AttemptHistory
  <2>2. {a.number : a \in {b \in attempts' : b.item = j}} = 1..n
    BY <1>0 DEF TablesInv, AttemptHistory
  <2>3. \A a \in attempts' : ~(a.item = j /\ a.status = "completed")
    BY <1>0 DEF TablesInv, OutcomeOfLastAttempt, Running, Terminal
  <2> HIDE DEF n
  <2> QED
    BY <1>0, <2>1, <2>2, <2>3, StoredTablesKept DEF n
<1>2. TurnsInv'
  <2>1. \A c \in queue_claims' : c.item = j => \A a \in RunningForClaim(c)' : a.number = n
    BY DEF TurnsInv, RunsLastAttempt, RunningForClaim
  <2> HIDE DEF n
  <2> QED
    BY <2>1, StoredTurnsKept DEF n
<1>3. BudgetInv'
  <2>1. \A i \in QueueItemIds : Runs(i)' <=> Runs(i)
    BY DEF Runs, CurrentClaims, RunningForClaim
  <2>2. n <= MaxAttempts + losses
    BY <1>0 DEF BudgetInv, AttemptBudget
  <2>3. q \in {"available", "claimed"} /\ ~Runs(j)' => n < MaxAttempts + losses
    BY <1>0, <2>1 DEF BudgetInv, SpareAttempt
  <2> HIDE DEF n
  <2> QED
    BY <1>0, <2>1, <2>2, <2>3, StoredBudgetKept DEF n
<1>4. CommitsUnderClaim
  BY DEF CommitsUnderClaim, TablesInv, AttemptHistory
<1> QED
  BY <1>1, <1>2, <1>3, <1>4

(* The row of a stored item that is cancelled.                             *)
LEMMA CancelledRow ==
  ASSUME NEW r, NEW s, RowInv(r), s.status = "cancelled", s.target = r.target,
         s.session = r.session, s.attempt_count = r.attempt_count
  PROVE  RowInv(s)
BY DEF RowInv, Absent

(* Cancellation ends the item and its running attempt together, and its    *)
(* claim goes.                                                             *)
LEMMA CancelKeeps ==
  ASSUME HistoryInv, TypeOK', NEW j \in CancelTargets, CancelQueueItem(j)
  PROVE  ReplayAgrees' /\ TablesInv' /\ TurnsInv' /\ BudgetInv' /\ CommitsUnderClaim
<1> DEFINE live == IndexCancelRequested(queue_items, j)
           replayed == IndexCancelRequested(replay_items, j)
           n == queue_items[j].attempt_count
<1>0. /\ LockInv /\ TablesInv /\ TurnsInv /\ BudgetInv /\ ReplayAgrees /\ TypeOK
      /\ j \in QueueItemIds /\ Running(j)
      /\ queue_items \in [QueueItemIds -> QueueRow]
      /\ replay_items \in [QueueItemIds -> QueueRow]
  BY NamesAssumption DEF HistoryInv, LockInv, CancelQueueItem, Running, TypeOK
<1>1. UNCHANGED <<queue_claims, held, losses>>
  BY DEF CancelQueueItem
<1>2. /\ \A i \in QueueItemIds \ {j} : live[i] = queue_items[i]
      /\ live[j].status = queue_items[j].status /\ live[j].target = queue_items[j].target
      /\ live[j].session = queue_items[j].session
      /\ live[j].attempt_count = queue_items[j].attempt_count
  BY <1>0 DEF IndexCancelRequested, QueueRow
<1>3. live \in [QueueItemIds -> QueueRow] /\ replayed \in [QueueItemIds -> QueueRow]
  BY <1>0, RowUpdateType DEF IndexCancelRequested
<1>4. replay_ok => Agree(live, replayed) /\ replay_attempts = WithoutTokens(attempts)
  <2>1. ASSUME replay_ok
        PROVE  Agree(queue_items, replay_items) /\ replay_attempts = WithoutTokens(attempts)
    BY <1>0, <2>1, ReplayIsAgreement
  <2> QED
    BY <1>0, <2>1, UpdatesKeepAgreement
<1>5. RowInv(queue_items[j]) /\ n \in Nat
  BY <1>0 DEF TablesInv, RowsInv, QueueRow
<1> HIDE DEF live, replayed
<1>6. CASE /\ j \in ItemsOf(queue_claims) /\ queue_items' = live
           /\ replay_items' = IF replay_ok THEN replayed ELSE replay_items
           /\ UNCHANGED <<attempts, replay_attempts, replay_ok>>
  <2>1. queue_items[j].status \in {"available", "claimed"}
    BY <1>0, <1>6 DEF LockInv, ClaimInv, ItemsOf
  <2>2. RowInv(queue_items'[j])
    BY <1>2, <1>5, <1>6, <2>1 DEF RowInv, Absent
  <2>3. Moves(j, queue_items[j].status, n)
    BY <1>2, <1>6 DEF Moves, Others
  <2>4. StoredStep(j, queue_items[j].status, n)
    BY <1>0, <1>1, <1>5, <1>6, <2>1, <2>2, <2>3 DEF StoredStep
  <2>5. TablesInv' /\ TurnsInv' /\ BudgetInv' /\ CommitsUnderClaim
    BY <1>0, <1>1, <1>6, <2>1, <2>4, SameAttemptsKeep
  <2>6. ReplayAgrees'
    BY <1>4, <1>6 DEF ReplayAgrees, Agree, WithoutTokens
  <2> QED
    BY <2>5, <2>6
<1>7. CASE /\ j \notin ItemsOf(queue_claims)
           /\ AppendQueueFact(live, replayed, RowFact(j, "cancelled", 0))
  <2> DEFINE g == NoAttemptFact
             f == RowFact(j, "cancelled", 0)
  <2>1. /\ g \in AttemptFactType /\ g.status # "running" /\ f \in QueueFactType
        /\ AppendFacts(live, replayed, f, g) /\ "cancelled" \in QueueItemStatus
    BY <1>0, <1>7, RowFactType
       DEF AttemptFactType, NoAttemptFact, Absent, AppendQueueFact, QueueItemStatus
  <2>2. attempts' = attempts
    BY <2>1 DEF AppendFacts, IndexAttempt, NoAttemptFact
  <2>3. ReplayAgrees'
    BY <1>0, <1>3, <1>4, <2>1, AppendKeepsReplay
  <2>4. Moves(j, "cancelled", IF g.status = "running" /\ g.number > n THEN g.number ELSE n)
    BY <1>0, <1>2, <1>3, <2>1, RowFactMoves
  <2>5. Moves(j, "cancelled", n)
    BY <2>1, <2>4
  <2>6. RowInv(queue_items'[j])
    BY <1>5, <2>5, CancelledRow DEF Moves
  <2>7. StoredStep(j, "cancelled", n)
    BY <1>0, <1>1, <1>5, <2>2, <2>5, <2>6 DEF StoredStep
  <2>8. TablesInv' /\ TurnsInv' /\ BudgetInv' /\ CommitsUnderClaim
    BY <1>0, <1>1, <2>2, <2>7, SameAttemptsKeep
  <2> QED
    BY <2>3, <2>8
<1> QED
  BY <1>6, <1>7 DEF CancelQueueItem, live, replayed

(* The end of an attempt replaces its row and no other.                    *)
Closed(a, s) == [a EXCEPT !.status = s, !.token = NoToken]

(* The fact that ends an attempt replaces its row and no other.            *)
LEMMA ClosedAttempts ==
  ASSUME TypeOK, TablesInv, NEW a \in attempts, NEW s \in AttemptStatus \ {"running"}
  PROVE  /\ IndexAttempt(attempts, AttemptFact(a.item, a.number, s, NoToken))
              = (attempts \ {a}) \union {Closed(a, s)}
         /\ Closed(a, s).item = a.item /\ Closed(a, s).number = a.number
         /\ Closed(a, s).status = s
<1> DEFINE g == AttemptFact(a.item, a.number, s, NoToken)
<1>1. g.status = s /\ s # Absent /\ s # "running" /\ g.item = a.item /\ g.number = a.number
  BY DEF AttemptFact, AttemptStatus, Absent
<1>2. \A b \in attempts : b \in AttemptRows(attempts, g) <=> b = a
  BY <1>1 DEF AttemptRows, TablesInv, AttemptHistory
<1>3. IndexAttempt(attempts, g)
        = {IF b \in AttemptRows(attempts, g) THEN Closed(b, s) ELSE b : b \in attempts}
  BY <1>1 DEF IndexAttempt, Closed
<1>4. Closed(a, s).item = a.item /\ Closed(a, s).number = a.number /\ Closed(a, s).status = s
  BY DEF Closed, TypeOK, AttemptRow
<1> HIDE DEF g
<1>5. IndexAttempt(attempts, g) = (attempts \ {a}) \union {Closed(a, s)}
  BY <1>2, <1>3
<1> QED
  BY <1>4, <1>5 DEF g

(* What that means for the attempts of the item.                           *)
LEMMA ClosedHistory ==
  ASSUME TypeOK, TablesInv, NEW a \in attempts, NEW s \in AttemptStatus \ {"running"},
         attempts' = (attempts \ {a}) \union {Closed(a, s)}
  PROVE  /\ \A x \in attempts \union attempts' :
              x.item # a.item => (x \in attempts <=> x \in attempts')
         /\ \A x, y \in attempts' :
              x.item = a.item /\ y.item = a.item /\ x.number = y.number => x = y
         /\ {x.number : x \in {y \in attempts' : y.item = a.item}}
              = 1..queue_items[a.item].attempt_count
<1> DEFINE z == Closed(a, s)
<1>0. z.item = a.item /\ z.number = a.number /\ a.item \in QueueItemIds
  BY ClosedAttempts DEF TypeOK, AttemptRow
<1>1. attempts' = (attempts \ {a}) \union {z}
  OBVIOUS
<1> HIDE DEF z
<1>2. \A x \in attempts \union attempts' :
        x.item # a.item => (x \in attempts <=> x \in attempts')
  BY <1>0, <1>1
<1>3. \A x, y \in attempts' :
        x.item = a.item /\ y.item = a.item /\ x.number = y.number => x = y
  BY <1>0, <1>1 DEF TablesInv, AttemptHistory
<1>4. {x.number : x \in {y \in attempts' : y.item = a.item}}
        = {x.number : x \in {y \in attempts : y.item = a.item}}
  BY <1>0, <1>1
<1> QED
  BY <1>0, <1>2, <1>3, <1>4 DEF TablesInv, AttemptHistory

(* finalize_next_requested_cancellation.                                   *)
LEMMA FinalizeKeeps ==
  ASSUME HistoryInv, TypeOK', FinalizeNextRequestedCancellation
  PROVE  ReplayAgrees' /\ TablesInv' /\ TurnsInv' /\ BudgetInv' /\ CommitsUnderClaim
<1>0. /\ LockInv /\ TablesInv /\ TurnsInv /\ BudgetInv /\ ReplayAgrees /\ TypeOK
      /\ queue_items \in [QueueItemIds -> QueueRow]
      /\ replay_items \in [QueueItemIds -> QueueRow]
  BY DEF HistoryInv, LockInv, TypeOK
<1>1. UNCHANGED <<queue_claims, held, losses>>
  BY DEF FinalizeNextRequestedCancellation
<1>2. PICK j \in AwaitingFinalization :
        \/ \E a \in LatestRunning(j) :
             AppendFacts(queue_items, replay_items, RowFact(j, "cancelled", 0),
                         AttemptFact(j, a.number, "cancelled", NoToken))
        \/ AppendQueueFact(queue_items, replay_items, RowFact(j, "cancelled", 0))
  BY DEF FinalizeNextRequestedCancellation
<1> DEFINE f == RowFact(j, "cancelled", 0)
           n == queue_items[j].attempt_count
<1>3. /\ j \in QueueItemIds /\ Running(j) /\ j \notin ItemsOf(queue_claims)
      /\ "cancelled" \in QueueItemStatus /\ n \in Nat
  BY <1>0 DEF AwaitingFinalization, Running, Terminal, Absent, QueueItemStatus, QueueRow
<1>4. f \in QueueFactType /\ RowInv(queue_items[j])
  BY <1>0, <1>3, RowFactType DEF TablesInv, RowsInv
<1>5. replay_ok =>
        Agree(queue_items, replay_items) /\ replay_attempts = WithoutTokens(attempts)
  BY <1>0, ReplayIsAgreement
<1>6. ASSUME NEW g \in AttemptFactType, g.status # "running", g = NoAttemptFact \/ g.item = j,
             AppendFacts(queue_items, replay_items, f, g)
      PROVE  /\ ReplayAgrees' /\ Moves(j, "cancelled", n) /\ RowInv(queue_items'[j])
             /\ attempts' = IndexAttempt(attempts, g)
  <2>1. ReplayAgrees'
    BY <1>0, <1>4, <1>5, <1>6, AppendKeepsReplay
  <2>2. /\ Moves(j, "cancelled", IF g.status = "running" /\ g.number > n THEN g.number ELSE n)
        /\ attempts' = IndexAttempt(attempts, g)
    BY <1>0, <1>3, <1>6, RowFactMoves
  <2>3. Moves(j, "cancelled", n)
    BY <1>6, <2>2
  <2>4. RowInv(queue_items'[j])
    BY <1>4, <2>3, CancelledRow DEF Moves
  <2> QED
    BY <2>1, <2>2, <2>3, <2>4
<1>7. CASE AppendQueueFact(queue_items, replay_items, f)
  <2>1. /\ NoAttemptFact \in AttemptFactType /\ NoAttemptFact.status # "running"
        /\ AppendFacts(queue_items, replay_items, f, NoAttemptFact)
    BY <1>7 DEF AttemptFactType, NoAttemptFact, Absent, AppendQueueFact
  <2> HIDE DEF f
  <2>2. /\ ReplayAgrees' /\ Moves(j, "cancelled", n) /\ RowInv(queue_items'[j])
        /\ attempts' = IndexAttempt(attempts, NoAttemptFact)
    BY <1>6, <2>1
  <2>3. attempts' = attempts
    BY <2>2 DEF IndexAttempt, NoAttemptFact, Absent
  <2>4. StoredStep(j, "cancelled", n)
    BY <1>1, <1>3, <2>2, <2>3 DEF StoredStep
  <2> QED
    BY <1>0, <1>1, <2>2, <2>3, <2>4, SameAttemptsKeep
<1>8. ASSUME NEW a \in LatestRunning(j),
             AppendFacts(queue_items, replay_items, f,
                         AttemptFact(j, a.number, "cancelled", NoToken))
      PROVE  ReplayAgrees' /\ TablesInv' /\ TurnsInv' /\ BudgetInv' /\ CommitsUnderClaim
  <2> DEFINE g == AttemptFact(a.item, a.number, "cancelled", NoToken)
             z == Closed(a, "cancelled")
  <2>1. /\ a \in attempts /\ a.item = j /\ a.status = "running"
        /\ "cancelled" \in AttemptStatus \ {"running"}
    BY DEF LatestRunning, RunningAttempts, AttemptStatus
  <2>2. /\ g \in AttemptFactType /\ g.status # "running" /\ g.item = j
        /\ AppendFacts(queue_items, replay_items, f, g)
    BY <1>0, <1>8, <2>1 DEF TypeOK, AttemptRow, AttemptFact, AttemptFactType, AttemptStatus
  <2> HIDE DEF f
  <2>3. /\ ReplayAgrees' /\ Moves(j, "cancelled", n) /\ RowInv(queue_items'[j])
        /\ attempts' = IndexAttempt(attempts, g)
    BY <1>6, <2>2
  <2>4. /\ attempts' = (attempts \ {a}) \union {z}
        /\ z.item = a.item /\ z.number = a.number /\ z.status = "cancelled"
    BY <1>0, <2>1, <2>3, ClosedAttempts
  <2> HIDE DEF g
  <2>5. /\ \A x \in attempts \union attempts' :
             x.item # j => (x \in attempts <=> x \in attempts')
        /\ \A x, y \in attempts' :
             x.item = j /\ y.item = j /\ x.number = y.number => x = y
        /\ {x.number : x \in {y \in attempts' : y.item = j}} = 1..n
    BY <1>0, <2>1, <2>4, ClosedHistory
  <2> HIDE DEF z
  <2>6. StoredStep(j, "cancelled", n)
    BY <1>1, <1>3, <2>3, <2>5 DEF StoredStep
  <2>7. TablesInv'
    <3>1. \A x \in attempts' : ~(x.item = j /\ x.status = "completed")
      BY <1>0, <1>3, <2>4 DEF TablesInv, OutcomeOfLastAttempt, Running, Terminal
    <3> HIDE DEF n
    <3> QED
      BY <1>0, <2>5, <2>6, <3>1, StoredTablesKept
  <2>8. TurnsInv'
    <3>1. \A c \in queue_claims' : c.item # j
      BY <1>1, <1>3 DEF ItemsOf
    <3> HIDE DEF n
    <3> QED
      BY <1>0, <2>6, <3>1, StoredTurnsKept
  <2>9. BudgetInv'
    <3>1. ASSUME NEW i \in QueueItemIds \ {j}, Runs(i) PROVE Runs(i)'
      <4>0. PICK w \in Workers : \E c \in CurrentClaims(w) :
              c.item = i /\ RunningForClaim(c) # {}
        BY <3>1 DEF Runs
      <4>1. PICK c \in CurrentClaims(w) : c.item = i /\ \E b \in RunningForClaim(c) : TRUE
        BY <4>0
      <4>b. PICK b \in RunningForClaim(c) : TRUE
        BY <4>1
      <4>2. c \in CurrentClaims(w)'
        BY <1>1, <4>1 DEF CurrentClaims
      <4>3. b \in RunningForClaim(c)'
        BY <2>5, <4>1, <4>b DEF RunningForClaim
      <4> QED
        BY <4>1, <4>2, <4>3 DEF Runs
    <3>2. n <= MaxAttempts + losses
      BY <1>0, <1>3 DEF BudgetInv, AttemptBudget
    <3> HIDE DEF n
    <3> QED
      BY <1>0, <2>6, <3>1, <3>2, StoredBudgetKept
  <2>10. CommitsUnderClaim
    <3> SUFFICES ASSUME NEW x \in attempts, x.status = "running", NEW b \in attempts',
                        b.item = x.item, b.number = x.number
                 PROVE  b.status \notin {"completed", "failed"}
      BY DEF CommitsUnderClaim
    <3> QED
      BY <1>0, <2>4 DEF TablesInv, AttemptHistory
  <2> QED
    BY <2>3, <2>7, <2>8, <2>9, <2>10
<1> QED
  BY <1>2, <1>7, <1>8

-----------------------------------------------------------------------------
(* Attempts.                                                               *)

(* start_claimed_attempt: the next number, under the only claim.           *)
LEMMA StartKeeps ==
  ASSUME HistoryInv, TypeOK', NEW w \in Workers, StartClaimedAttempt(w)
  PROVE  ReplayAgrees' /\ TablesInv' /\ TurnsInv' /\ BudgetInv' /\ CommitsUnderClaim
<1>0. /\ LockInv /\ TablesInv /\ TurnsInv /\ BudgetInv /\ ReplayAgrees /\ TypeOK
      /\ queue_items \in [QueueItemIds -> QueueRow]
      /\ replay_items \in [QueueItemIds -> QueueRow]
  BY DEF HistoryInv, LockInv, TypeOK
<1>1. PICK c \in CurrentClaims(w) :
        /\ RunningForClaim(c) = {}
        /\ queue_items[c.item].attempt_count + 1 <= MaxStarts
        /\ AppendFacts(queue_items, replay_items, RowFact(c.item, "claimed", 0),
             AttemptFact(c.item, queue_items[c.item].attempt_count + 1, "running", c.token))
  BY DEF StartClaimedAttempt
<1> DEFINE j == c.item
           m == queue_items[j].attempt_count
           n == m + 1
           f == RowFact(j, "claimed", 0)
           g == AttemptFact(j, n, "running", c.token)
<1>2. UNCHANGED <<queue_claims, held, losses>>
  BY DEF StartClaimedAttempt
<1>3. c \in queue_claims /\ j \in QueueItemIds /\ c.token \in Tokens
  BY <1>0 DEF CurrentClaims, TypeOK, ClaimRow
<1>4. /\ queue_items[j].status \in {"available", "claimed"} /\ queue_items[j].target # Unbound
      /\ Running(j) /\ m \in Nat /\ n \in 1..MaxStarts /\ n \in Nat /\ n > m
      /\ "claimed" \in QueueItemStatus
  <2>1. queue_items[j].status \in {"available", "claimed"} /\ queue_items[j].target # Unbound
    BY <1>0, <1>3, StoredItems
  <2>2. m \in Nat
    BY <1>0, <1>3 DEF QueueRow
  <2> QED
    BY <1>1, <2>1, <2>2, BoundsAssumption DEF Running, Terminal, Absent, QueueItemStatus
<1>5. /\ f \in QueueFactType /\ g \in AttemptFactType /\ g.status = "running"
      /\ g.item = j /\ g.number = n /\ g.token = c.token
      /\ AppendFacts(queue_items, replay_items, f, g)
  <2>1. f \in QueueFactType
    BY <1>0, <1>3, <1>4, RowFactType
  <2>2. /\ g.status = "running" /\ g.item = j /\ g.number = n /\ g.token = c.token
    BY DEF AttemptFact
  <2>3. g \in AttemptFactType
    BY <1>3, <1>4 DEF AttemptFact, AttemptFactType, AttemptRow, AttemptStatus
  <2> QED
    BY <1>1, <2>1, <2>2, <2>3
<1> HIDE DEF f, g
<1>6. ReplayAgrees'
  <2>1. replay_ok =>
          Agree(queue_items, replay_items) /\ replay_attempts = WithoutTokens(attempts)
    BY <1>0, ReplayIsAgreement
  <2> QED
    BY <1>0, <1>5, <2>1, AppendKeepsReplay
<1>7. Moves(j, "claimed", n) /\ queue_items'[j].cancel = queue_items[j].cancel
  <2>1. /\ Moves(j, "claimed", IF g.status = "running" /\ g.number > m THEN g.number ELSE m)
        /\ queue_items'[j].cancel = queue_items[j].cancel
    BY <1>0, <1>3, <1>4, <1>5, RowFactMoves DEF f
  <2> HIDE DEF m, n, j
  <2> QED
    BY <1>4, <1>5, <2>1
<1>8. attempts' = attempts \union {g}
  BY <1>5 DEF AppendFacts, IndexAttempt, Absent
<1>9. RowInv(queue_items'[j])
  <2>1. RowInv(queue_items[j])
    BY <1>0, <1>3 DEF TablesInv, RowsInv
  <2> QED
    BY <1>4, <1>7, <2>1 DEF RowInv, Moves, Absent
<1>10. StoredStep(j, "claimed", n)
  <2>1. \A a \in attempts \union attempts' : a.item # j => (a \in attempts <=> a \in attempts')
    BY <1>5, <1>8
  <2> QED
    BY <1>2, <1>3, <1>4, <1>7, <1>9, <2>1 DEF StoredStep
<1>11. {a.number : a \in {b \in attempts : b.item = j}} = 1..m
  BY <1>0, <1>3 DEF TablesInv, AttemptHistory
<1>12. \A a \in attempts : a.item = j => a.number # n /\ a.status # "completed"
  <2>1. \A a \in attempts : a.item = j => a.number \in 1..m
    BY <1>11
  <2>2. \A a \in attempts : a.item = j => a.status # "completed"
    BY <1>0, <1>4 DEF TablesInv, OutcomeOfLastAttempt
  <2> QED
    BY <1>4, <2>1, <2>2
<1>13. TablesInv'
  <2>1. \A a, b \in attempts' : a.item = j /\ b.item = j /\ a.number = b.number => a = b
    BY <1>0, <1>5, <1>8, <1>12 DEF TablesInv, AttemptHistory
  <2>2. {a.number : a \in {b \in attempts' : b.item = j}} = 1..n
    <3>1. {a.number : a \in {b \in attempts' : b.item = j}} = (1..m) \union {n}
      BY <1>5, <1>8, <1>11
    <3>2. (1..m) \union {n} = 1..n
      BY <1>4
    <3> QED
      BY <3>1, <3>2
  <2>3. \A a \in attempts' : ~(a.item = j /\ a.status = "completed")
    BY <1>5, <1>8, <1>12
  <2> HIDE DEF n, j
  <2> QED
    BY <1>0, <1>10, <2>1, <2>2, <2>3, StoredTablesKept
<1>14. TurnsInv'
  <2>1. ASSUME NEW d \in queue_claims', d.item = j, NEW a \in RunningForClaim(d)'
        PROVE  a.number = n
    <3>1. d = c
      BY <1>0, <1>2, <1>3, <2>1 DEF LockInv, ClaimInv
    <3>2. a \in attempts' /\ a.item = c.item /\ a.token = c.token /\ a.status = "running"
      BY <3>1 DEF RunningForClaim
    <3>3. a \notin attempts
      BY <1>1, <3>2 DEF RunningForClaim
    <3> QED
      BY <1>5, <1>8, <3>2, <3>3
  <2> HIDE DEF n, j
  <2> QED
    BY <1>0, <1>10, <2>1, StoredTurnsKept
<1>15. BudgetInv'
  <2>1. ~Runs(j)
    <3>1. \A v \in Workers : \A d \in CurrentClaims(v) : d.item = j => d = c
      BY <1>0, <1>3 DEF CurrentClaims, LockInv, ClaimInv
    <3> QED
      BY <1>1, <3>1 DEF Runs
  <2>2. n <= MaxAttempts + losses
    <3>1. m < MaxAttempts + losses
      BY <1>0, <1>3, <1>4, <2>1 DEF BudgetInv, SpareAttempt
    <3>2. MaxAttempts \in Nat /\ losses \in Nat
      BY <1>0, BoundsAssumption DEF TypeOK
    <3> HIDE DEF m
    <3> QED
      BY <1>4, <3>1, <3>2
  <2>3. \A v \in Workers : CurrentClaims(v)' = CurrentClaims(v)
    BY <1>2 DEF CurrentClaims
  <2>4. \A d \in queue_claims : RunningForClaim(d) \subseteq RunningForClaim(d)'
    BY <1>8 DEF RunningForClaim
  <2>5. \A i \in QueueItemIds \ {j} : Runs(i) => Runs(i)'
    <3>1. \A v \in Workers : CurrentClaims(v) \subseteq queue_claims
      BY DEF CurrentClaims
    <3> QED
      BY <2>3, <2>4, <3>1 DEF Runs
  <2>6. Runs(j)'
    <3>1. g \in RunningForClaim(c)'
      BY <1>5, <1>8 DEF RunningForClaim
    <3> QED
      BY <2>3, <3>1 DEF Runs
  <2> HIDE DEF n, j
  <2> QED
    BY <1>0, <1>10, <2>2, <2>5, <2>6, StoredBudgetKept
<1>16. CommitsUnderClaim
  <2> SUFFICES ASSUME NEW x \in attempts, x.status = "running", NEW b \in attempts',
                      b.item = x.item, b.number = x.number
               PROVE  b.status = "running"
    BY DEF CommitsUnderClaim
  <2> QED
    BY <1>0, <1>5, <1>8 DEF TablesInv, AttemptHistory
<1> QED
  BY <1>6, <1>13, <1>14, <1>15, <1>16

(* The end of an attempt: it is the last one of its item, and its claim    *)
(* goes away with it.                                                      *)
LEMMA EndKeeps ==
  ASSUME HistoryInv, TypeOK', NEW w \in Workers, NEW c \in CurrentClaims(w),
         NEW a \in RunningForClaim(c), NEW s \in AttemptStatus \ {"running"},
         NEW q \in {"completed", "dead_lettered", "cancelled", "available"}, NEW d \in Nat,
         s = "completed" <=> q = "completed",
         q = "dead_lettered" => s = "failed",
         q = "available" => PermitsRetryAfter(a.number),
         queue_items[c.item].cancel => q = "cancelled",
         EndAttempt(w, c, a, s, q, d)
  PROVE  ReplayAgrees' /\ TablesInv' /\ TurnsInv' /\ BudgetInv' /\ CommitsUnderClaim
<1> DEFINE j == c.item
           n == queue_items[j].attempt_count
           f == RowFact(j, q, d)
           g == AttemptFact(a.item, a.number, s, NoToken)
           z == Closed(a, s)
<1>0. /\ LockInv /\ TablesInv /\ TurnsInv /\ BudgetInv /\ ReplayAgrees /\ TypeOK
      /\ queue_items \in [QueueItemIds -> QueueRow]
      /\ replay_items \in [QueueItemIds -> QueueRow]
  BY DEF HistoryInv, LockInv, TypeOK
<1>1. /\ queue_claims' = queue_claims \ {c} /\ held' = [held EXCEPT ![w] = NoToken]
      /\ losses' = losses
  BY DEF EndAttempt
<1>2. /\ c \in queue_claims /\ j \in QueueItemIds /\ ~Expired(c)
      /\ a \in attempts /\ a.item = j /\ a.token = c.token /\ a.status = "running"
  BY <1>0 DEF CurrentClaims, RunningForClaim, TypeOK, ClaimRow
<1>3. /\ queue_items[j].status \in {"available", "claimed"} /\ queue_items[j].target # Unbound
      /\ Running(j) /\ n \in Nat /\ q \in QueueItemStatus /\ q # "pending"
      /\ a.number = n
  <2>1. queue_items[j].status \in {"available", "claimed"} /\ queue_items[j].target # Unbound
    BY <1>0, <1>2, StoredItems
  <2>2. n \in Nat /\ a.number = n
    BY <1>0, <1>2 DEF QueueRow, TurnsInv, RunsLastAttempt
  <2> QED
    BY <2>1, <2>2 DEF Running, Terminal, Absent, QueueItemStatus
<1>4. /\ f \in QueueFactType /\ g \in AttemptFactType /\ g.status # "running" /\ g.item = j
      /\ AppendFacts(queue_items, replay_items, f, g)
  <2>1. f \in QueueFactType
    BY <1>0, <1>2, <1>3, RowFactType
  <2>2. g \in AttemptFactType /\ g.status # "running" /\ g.item = j
    BY <1>0, <1>2 DEF TypeOK, AttemptRow, AttemptFact, AttemptFactType
  <2> QED
    BY <2>1, <2>2 DEF EndAttempt
<1>5. ReplayAgrees'
  <2>1. replay_ok =>
          Agree(queue_items, replay_items) /\ replay_attempts = WithoutTokens(attempts)
    BY <1>0, ReplayIsAgreement
  <2> HIDE DEF f, g
  <2> QED
    BY <1>0, <1>4, <2>1, AppendKeepsReplay
<1>6. /\ Moves(j, q, n) /\ queue_items'[j].cancel = queue_items[j].cancel
      /\ attempts' = IndexAttempt(attempts, g)
  <2> HIDE DEF g
  <2>1. /\ Moves(j, q, IF g.status = "running" /\ g.number > n THEN g.number ELSE n)
        /\ queue_items'[j].cancel = queue_items[j].cancel
        /\ attempts' = IndexAttempt(attempts, g)
    BY <1>0, <1>2, <1>3, <1>4, RowFactMoves
  <2> HIDE DEF n, j
  <2> QED
    BY <1>4, <2>1
<1>7. /\ attempts' = (attempts \ {a}) \union {z}
      /\ z.item = j /\ z.number = n /\ z.status = s
  BY <1>0, <1>2, <1>3, <1>6, ClosedAttempts
<1>8. /\ \A x \in attempts \union attempts' :
           x.item # j => (x \in attempts <=> x \in attempts')
      /\ \A x, y \in attempts' :
           x.item = j /\ y.item = j /\ x.number = y.number => x = y
      /\ {x.number : x \in {y \in attempts' : y.item = j}} = 1..n
  BY <1>0, <1>2, <1>7, ClosedHistory
<1> HIDE DEF f, g, z
<1>9. RowInv(queue_items'[j])
  <2>1. RowInv(queue_items[j])
    BY <1>0, <1>2 DEF TablesInv, RowsInv
  <2>2. queue_items'[j].cancel => q = "cancelled"
    BY <1>6, Zenon
  <2> QED
    BY <1>3, <1>6, <2>1, <2>2 DEF RowInv, Moves, Absent
<1>10. StoredStep(j, q, n)
  BY <1>1, <1>2, <1>3, <1>6, <1>8, <1>9 DEF StoredStep
<1>11. TablesInv'
  <2>1. \A x \in attempts' : x.item = j /\ x.status = "completed" =>
          x.number = n /\ q = "completed"
    <3>1. \A x \in attempts : ~(x.item = j /\ x.status = "completed")
      BY <1>0, <1>3 DEF TablesInv, OutcomeOfLastAttempt
    <3> QED
      BY <1>7, <3>1
  <2>2. q \in {"completed", "dead_lettered"} => \E x \in attempts' :
          /\ x.item = j /\ x.number = n
          /\ x.status = IF q = "completed" THEN "completed" ELSE "failed"
    BY <1>7
  <2> HIDE DEF n, j
  <2> QED
    BY <1>0, <1>8, <1>10, <2>1, <2>2, StoredTablesKept
<1>12. \A b \in queue_claims' : b.item # j /\ b.token # c.token
  BY <1>0, <1>1, <1>2 DEF LockInv, ClaimInv
<1>13. TurnsInv'
  <2> HIDE DEF n, j
  <2> QED
    BY <1>0, <1>10, <1>12, StoredTurnsKept
<1>14. BudgetInv'
  <2>1. ASSUME NEW i \in QueueItemIds \ {j}, Runs(i) PROVE Runs(i)'
    <3>1. PICK v \in Workers : \E b \in CurrentClaims(v) :
            b.item = i /\ RunningForClaim(b) # {}
      BY <2>1 DEF Runs
    <3>2. PICK b \in CurrentClaims(v) : b.item = i /\ \E x \in RunningForClaim(b) : TRUE
      BY <3>1
    <3>3. PICK x \in RunningForClaim(b) : TRUE
      BY <3>2
    <3>4. v # w /\ b # c
      BY <3>2 DEF CurrentClaims
    <3>5. held'[v] = held[v]
      BY <1>0, <1>1, <3>4 DEF TypeOK
    <3>6. b \in CurrentClaims(v)'
      BY <1>1, <3>2, <3>4, <3>5 DEF CurrentClaims
    <3>7. x \in RunningForClaim(b)'
      BY <1>8, <3>2, <3>3 DEF RunningForClaim
    <3> QED
      BY <3>2, <3>6, <3>7 DEF Runs
  <2>2. n <= MaxAttempts + losses
    BY <1>0, <1>2 DEF BudgetInv, AttemptBudget
  <2>3. q \in {"available", "claimed"} => n < MaxAttempts + losses
    <3>1. MaxAttempts \in Nat /\ losses \in Nat
      BY <1>0, BoundsAssumption DEF TypeOK
    <3>2. q \in {"available", "claimed"} => n < MaxAttempts
      BY <1>3 DEF PermitsRetryAfter
    <3> HIDE DEF n
    <3> QED
      BY <1>3, <3>1, <3>2
  <2> HIDE DEF n, j
  <2> QED
    BY <1>0, <1>10, <2>1, <2>2, <2>3, StoredBudgetKept
<1>15. CommitsUnderClaim
  <2> SUFFICES ASSUME NEW x \in attempts, x.status = "running", NEW b \in attempts',
                      b.item = x.item, b.number = x.number,
                      b.status \in {"completed", "failed"}
               PROVE  \E e \in queue_claims :
                        /\ e.item = x.item /\ e.token = x.token /\ ~Expired(e)
                        /\ \A y \in queue_claims' : y.token # e.token
    BY DEF CommitsUnderClaim
  <2>1. b = z
    BY <1>0, <1>7 DEF TablesInv, AttemptHistory
  <2>2. x = a
    BY <1>0, <1>2, <1>3, <1>7, <2>1 DEF TablesInv, AttemptHistory
  <2> QED
    BY <1>2, <1>12, <2>2
<1> QED
  BY <1>5, <1>11, <1>13, <1>14, <1>15

(* Both ways to end an attempt.                                            *)
LEMMA EndClaimedKeeps ==
  ASSUME HistoryInv, TypeOK', NEW w \in Workers, EndClaimedAttempt(w)
  PROVE  ReplayAgrees' /\ TablesInv' /\ TurnsInv' /\ BudgetInv' /\ CommitsUnderClaim
<1>1. PICK c \in CurrentClaims(w) : \E a \in RunningForClaim(c) :
        \E s \in AttemptStatus \ {"running"},
           q \in {"completed", "dead_lettered", "cancelled", "available"}, d \in Nat :
          /\ s = "completed" <=> q = "completed"
          /\ q = "dead_lettered" => s = "failed"
          /\ q = "available" => PermitsRetryAfter(a.number)
          /\ queue_items[c.item].cancel => q = "cancelled"
          /\ EndAttempt(w, c, a, s, q, d)
  <2>0. /\ {"completed", "failed", "cancelled"} \subseteq AttemptStatus \ {"running"}
        /\ 0 \in Nat
    BY DEF AttemptStatus
  <2>1. ASSUME NEW code \in Failures, FailClaimedAttempt(w, code)
        PROVE  \E c \in CurrentClaims(w) : \E a \in RunningForClaim(c) :
                 \/ EndAttempt(w, c, a, "cancelled", "cancelled", 0)
                 \/ /\ ~queue_items[c.item].cancel /\ PermitsRetryAfter(a.number)
                    /\ EndAttempt(w, c, a, "failed", "available", RetryDelay[a.number])
                    /\ RetryDelay[a.number] \in Nat
                 \/ /\ ~queue_items[c.item].cancel
                    /\ EndAttempt(w, c, a, "failed", "dead_lettered", 0)
    <3>1. \A a \in attempts : RetryDelay[a.number] \in Nat
      BY BoundsAssumption DEF HistoryInv, LockInv, TypeOK, AttemptRow
    <3>2. \A c \in CurrentClaims(w) : RunningForClaim(c) \subseteq attempts
      BY DEF RunningForClaim
    <3> QED
      BY <2>1, <3>1, <3>2 DEF FailClaimedAttempt
  <2>2. ASSUME NEW e \in {"succeeded", "cancelled"}, CompleteClaimedAttempt(w, e)
        PROVE  \E c \in CurrentClaims(w) : \E a \in RunningForClaim(c) :
                 \/ EndAttempt(w, c, a, "cancelled", "cancelled", 0)
                 \/ /\ ~queue_items[c.item].cancel
                    /\ EndAttempt(w, c, a, "completed", "completed", 0)
    BY <2>2 DEF CompleteClaimedAttempt
  <2> QED
    BY <2>0, <2>1, <2>2 DEF EndClaimedAttempt
<1> QED
  BY <1>1, EndKeeps

-----------------------------------------------------------------------------
(* Claims, leases, time and rebuilds.                                      *)

(* A step that only releases claims keeps the histories.                   *)
LEMMA QuietKeeps ==
  ASSUME HistoryInv, QuietStep,
         \A c \in queue_claims' : \E d \in queue_claims : c.item = d.item /\ c.token = d.token,
         \/ losses' = losses + 1
         \/ losses' = losses /\ \A i \in QueueItemIds : Runs(i) => Runs(i)'
  PROVE  TablesInv' /\ TurnsInv' /\ BudgetInv' /\ CommitsUnderClaim
<1>0. TypeOK /\ TablesInv /\ TurnsInv /\ BudgetInv
  BY DEF HistoryInv, LockInv
<1>1. TablesInv' /\ CommitsUnderClaim
  BY <1>0, QuietTablesKept, QuietCommitsNothing
<1>2. TurnsInv'
  BY <1>0, QuietTurnsKept
<1>3. BudgetInv'
  BY <1>0, QuietBudgetKept
<1> QED
  BY <1>1, <1>2, <1>3

(* A worker whose claim stays current runs what it ran.                    *)
LEMMA RunsKept ==
  ASSUME attempts' = attempts,
         \A v \in Workers : \A c \in CurrentClaims(v) : \E d \in CurrentClaims(v)' :
           d.item = c.item /\ d.token = c.token
  PROVE  \A i \in QueueItemIds : Runs(i) => Runs(i)'
<1> SUFFICES ASSUME NEW i \in QueueItemIds, Runs(i) PROVE Runs(i)'
  OBVIOUS
<1>1. PICK v \in Workers : \E c \in CurrentClaims(v) : c.item = i /\ RunningForClaim(c) # {}
  BY DEF Runs
<1>2. PICK c \in CurrentClaims(v) : c.item = i /\ RunningForClaim(c) # {}
  BY <1>1
<1>3. PICK d \in CurrentClaims(v)' : d.item = c.item /\ d.token = c.token
  BY <1>2
<1>4. RunningForClaim(d)' = RunningForClaim(c)
  BY <1>3 DEF RunningForClaim
<1> QED
  BY <1>2, <1>3, <1>4 DEF Runs

(* Rows that are kept, recovered or aged follow from what they were.       *)
LEMMA RowsFollow ==
  ASSUME NEW items \in [QueueItemIds -> QueueRow], NEW i \in QueueItemIds
  PROVE  /\ Follows(items[i], items[i])
         /\ \A ids : Follows(items[i], Recovered(items, ids)[i])
         /\ Follows(items[i], Later(items)[i])
<1>1. items[i] \in QueueRow
  OBVIOUS
<1>2. ASSUME NEW ids PROVE Follows(items[i], Recovered(items, ids)[i])
  <2>1. \/ Recovered(items, ids)[i] = items[i]
        \/ /\ items[i].status = "claimed"
           /\ Recovered(items, ids)[i] = [items[i] EXCEPT !.status = "available"]
    BY DEF Recovered
  <2> QED
    BY <1>1, <2>1 DEF Follows, QueueRow
<1>3. Follows(items[i], Later(items)[i])
  BY <1>1 DEF Later, Follows, QueueRow
<1> QED
  BY <1>2, <1>3 DEF Follows

(* A step that only gives up claims leaves the replay alone.               *)
LEMMA RecoveryReplays ==
  ASSUME HistoryInv, NEW ids, queue_items' = Recovered(queue_items, ids),
         UNCHANGED <<attempts, journal>>
  PROVE  ReplayAgrees' /\ QuietStep
<1>1. /\ queue_items \in [QueueItemIds -> QueueRow]
      /\ replay_items \in [QueueItemIds -> QueueRow]
  BY DEF HistoryInv, LockInv, TypeOK
<1>2. UNCHANGED <<replay_items, replay_attempts, replay_ok>>
  BY DEF journal
<1>3. ASSUME replay_ok PROVE Agree(queue_items', replay_items)
  <2>1. Agree(queue_items, replay_items)
    BY <1>3, ReplayIsAgreement DEF HistoryInv
  <2> QED
    BY <1>1, <2>1, UpdatesKeepAgreement
<1>4. ReplayAgrees'
  BY <1>2, <1>3 DEF ReplayAgrees, Agree, HistoryInv
<1>5. QuietStep
  BY <1>1, RowsFollow DEF QuietStep
<1> QED
  BY <1>4, <1>5

(* A step that changes no table.                                           *)
LEMMA SameTables ==
  ASSUME HistoryInv, UNCHANGED <<queue_items, attempts, journal>>
  PROVE  ReplayAgrees' /\ QuietStep
<1>1. queue_items \in [QueueItemIds -> QueueRow]
  BY DEF HistoryInv, LockInv, TypeOK
<1>2. UNCHANGED <<replay_items, replay_attempts, replay_ok>>
  BY DEF journal
<1> QED
  BY <1>1, <1>2, RowsFollow DEF HistoryInv, ReplayAgrees, QuietStep

(* claim_next_queue_item: the candidate is the first turn of its session.  *)
LEMMA ClaimKeeps ==
  ASSUME HistoryInv, NEW w \in Workers, ClaimNextQueueItem(w)
  PROVE  ReplayAgrees' /\ TablesInv' /\ TurnsInv' /\ BudgetInv' /\ CommitsUnderClaim
<1> DEFINE items == Recovered(queue_items, ItemsOf(ExpiredClaims))
           claims == queue_claims \ ExpiredClaims
           rows == LocksWithout(ExpiredClaims)
           free == {i \in ClaimCandidates(items, claims) : LocksAreAvailable(rows, i)}
<1>0. /\ LockInv /\ TablesInv /\ TurnsInv /\ BudgetInv /\ ReplayAgrees /\ TypeOK
      /\ queue_items \in [QueueItemIds -> QueueRow]
  BY DEF HistoryInv, LockInv, TypeOK
<1>1. /\ queue_items' = items /\ held[w] = NoToken
      /\ UNCHANGED <<attempts, journal, losses>>
  BY DEF ClaimNextQueueItem
<1>2. ReplayAgrees' /\ QuietStep
  BY <1>1, RecoveryReplays
<1>3. TablesInv' /\ CommitsUnderClaim
  BY <1>0, <1>2, QuietTablesKept, QuietCommitsNothing
<1>4. \A i \in QueueItemIds : Follows(queue_items[i], items[i])
  BY <1>1, <1>2 DEF QuietStep
<1> HIDE DEF items
<1>5. \/ queue_claims' = claims /\ held' = held
      \/ \E i \in free, t \in Tokens \ TokensInUse :
           /\ queue_claims' = claims \union
                {[item |-> i, worker |-> w, token |-> t, left |-> Lease]}
           /\ held' = [held EXCEPT ![w] = [item |-> i, token |-> t]]
  BY DEF ClaimNextQueueItem, items
<1>6. BudgetInv'
  <2>1. ASSUME NEW v \in Workers, NEW c \in CurrentClaims(v) PROVE c \in CurrentClaims(v)'
    <3>1. held[v] # NoToken /\ c \in claims
      BY DEF CurrentClaims, ExpiredClaims
    <3>2. held'[v] = held[v] /\ c \in queue_claims'
      BY <1>0, <1>1, <1>5, <3>1 DEF TypeOK
    <3> QED
      BY <3>2 DEF CurrentClaims
  <2>2. \A i \in QueueItemIds : Runs(i) => Runs(i)'
    BY <1>1, <2>1, RunsKept
  <2> QED
    BY <1>0, <1>1, <1>2, <2>2, QuietBudgetKept
<1>7. CASE queue_claims' = claims
  BY <1>0, <1>2, <1>3, <1>6, <1>7, QuietTurnsKept
<1>8. ASSUME NEW i \in free, NEW t \in Tokens \ TokensInUse,
             queue_claims' = claims \union
               {[item |-> i, worker |-> w, token |-> t, left |-> Lease]}
      PROVE  TurnsInv'
  <2> DEFINE new == [item |-> i, worker |-> w, token |-> t, left |-> Lease]
  <2>1. new.item = i /\ new.token = t /\ queue_claims' = claims \union {new}
    BY <1>8
  <2> HIDE DEF new
  <2>2. /\ i \in QueueItemIds /\ items[i].status = "available" /\ i \notin ItemsOf(claims)
        /\ ~BehindBarrier(items, i) /\ ~BehindEarlierTurn(items, i)
    BY DEF ClaimCandidates
  <2>3. \A k \in QueueItemIds : RowInv(items[k])
    BY <1>1, <1>3 DEF TablesInv, RowsInv
  <2>4. items[i].target # Unbound /\ items[i].session # NoSession
    BY <2>2, <2>3 DEF RowInv, Absent
  <2>5. ASSUME NEW c \in claims
        PROVE  /\ c \in queue_claims /\ c.item \in QueueItemIds /\ c.item # i
               /\ items[c.item].status \in {"available", "claimed"}
               /\ items[c.item].session # items[i].session
    <3>1. /\ c \in queue_claims /\ c.item \in QueueItemIds /\ c.item # i
          /\ queue_items[c.item].target # Unbound
          /\ queue_items[c.item].status \in {"available", "claimed"}
      BY <1>0, <2>2, StoredItems DEF ItemsOf
    <3>2. items[c.item].status \in {"available", "claimed"}
      BY <1>4, <3>1 DEF Follows
    <3>3. ASSUME items[c.item].session = items[i].session PROVE FALSE
      <4>1. /\ queue_items[i].session = queue_items[c.item].session
            /\ queue_items[i].target # Unbound
            /\ queue_items[i].status \in {"available", "claimed"}
        BY <1>4, <2>2, <2>4, <3>1, <3>3 DEF Follows
      <4>2. ~(InputCursor(i) < InputCursor(c.item))
        <5>1. InputCursor(i) < InputCursor(c.item)
                => queue_items[i].status \in Terminal \union {Absent}
          BY <1>0, <2>2, <3>1, <4>1 DEF TurnsInv, SessionOrder
        <5>2. queue_items[i].status \notin Terminal \union {Absent}
          BY <4>1 DEF Terminal, Absent
        <5> QED
          BY <5>1, <5>2
      <4>3. ~(InputCursor(c.item) < InputCursor(i))
        BY <2>2, <2>4, <3>1, <3>2, <3>3 DEF BehindEarlierTurn, Terminal, Absent
      <4>4. InputCursor(c.item) \in Nat /\ InputCursor(i) \in Nat
        BY <2>2, <3>1, BoundsAssumption DEF QueueItemIds, InputCursor, Events
      <4>5. InputCursor(c.item) = InputCursor(i)
        BY <4>2, <4>3, <4>4
      <4> QED
        BY <1>0, <2>2, <3>1, <4>1, <4>5 DEF TablesInv, OneTurnPerEvent
    <3> QED
      BY <3>1, <3>2, <3>3
  <2>6. NoBarrierBefore'
    <3> SUFFICES ASSUME NEW c \in queue_claims', NEW b \in QueueItemIds,
                        InputCursor(b) < InputCursor(c.item)
                 PROVE  items[b].status # "pending"
      BY <1>1 DEF NoBarrierBefore
    <3>1. CASE c \in claims
      BY <1>0, <1>4, <2>5, <3>1 DEF TurnsInv, NoBarrierBefore, Follows
    <3>2. CASE c = new
      BY <2>1, <2>2, <2>3, <3>2 DEF BehindBarrier, RowInv
    <3> QED
      BY <2>1, <3>1, <3>2
  <2>7. RunsLastAttempt'
    <3> SUFFICES ASSUME NEW c \in queue_claims', NEW a \in RunningForClaim(c)'
                 PROVE  a.number = items[c.item].attempt_count
      BY <1>1 DEF RunsLastAttempt
    <3>1. a \in attempts /\ a \in RunningForClaim(c) /\ a.token = c.token
      BY <1>1 DEF RunningForClaim
    <3>2. c # new
      BY <2>1, <3>1 DEF TokensInUse
    <3>3. c \in claims
      BY <2>1, <3>2
    <3> QED
      BY <1>0, <1>4, <2>5, <3>1, <3>3 DEF TurnsInv, RunsLastAttempt, Follows
  <2>8. SessionOrder'
    <3> SUFFICES ASSUME NEW c \in queue_claims', NEW k \in QueueItemIds,
                        items[k].session = items[c.item].session, k # c.item
                 PROVE  /\ InputCursor(k) < InputCursor(c.item)
                             => items[k].status \in Terminal \union {Absent}
                        /\ k \notin ItemsOf(queue_claims')
      BY <1>1 DEF SessionOrder
    <3>1. CASE c \in claims
      <4>1. queue_items[k].session = queue_items[c.item].session
        BY <1>4, <2>5, <3>1 DEF Follows
      <4>2. /\ InputCursor(k) < InputCursor(c.item)
                 => queue_items[k].status \in Terminal \union {Absent}
            /\ k \notin ItemsOf(queue_claims)
        BY <1>0, <2>5, <3>1, <4>1 DEF TurnsInv, SessionOrder
      <4>3. k # i
        BY <2>5, <3>1
      <4>4. k \notin ItemsOf(queue_claims')
        BY <2>1, <4>2, <4>3 DEF ItemsOf
      <4> QED
        BY <1>4, <4>2, <4>4 DEF Follows, Terminal, Absent
    <3>2. CASE c = new
      <4>1. InputCursor(k) < InputCursor(i) => items[k].status \in Terminal \union {Absent}
        BY <2>1, <2>2, <2>4, <3>2 DEF BehindEarlierTurn
      <4>2. k \notin ItemsOf(queue_claims')
        BY <2>1, <2>5, <3>2 DEF ItemsOf
      <4> QED
        BY <2>1, <3>2, <4>1, <4>2
    <3> QED
      BY <2>1, <3>1, <3>2
  <2> QED
    BY <2>6, <2>7, <2>8 DEF TurnsInv
<1> QED
  BY <1>2, <1>3, <1>5, <1>6, <1>7, <1>8

(* Time: leases run out, and only a current claim that ends is lost.       *)
LEMMA TickKeeps ==
  ASSUME HistoryInv, Tick
  PROVE  ReplayAgrees' /\ TablesInv' /\ TurnsInv' /\ BudgetInv' /\ CommitsUnderClaim
<1> DEFINE older(c) == [c EXCEPT !.left = Dec(@)]
<1>0. /\ TypeOK /\ queue_items \in [QueueItemIds -> QueueRow]
      /\ replay_items \in [QueueItemIds -> QueueRow]
  BY DEF HistoryInv, LockInv, TypeOK
<1>1. /\ queue_items' = Later(queue_items) /\ queue_claims' = {older(c) : c \in queue_claims}
      /\ replay_items' = IF replay_ok THEN Later(replay_items) ELSE replay_items
      /\ UNCHANGED <<attempts, replay_attempts, replay_ok, held>>
      /\ losses' = IF LeaseAboutToEnd THEN losses + 1 ELSE losses
  BY DEF Tick
<1>2. \A c \in queue_claims :
        /\ older(c).item = c.item /\ older(c).token = c.token /\ older(c).worker = c.worker
        /\ older(c).left = Dec(c.left) /\ c.left \in Nat
  BY <1>0, BoundsAssumption DEF TypeOK, ClaimRow, Dec
<1> HIDE DEF older
<1>3. ReplayAgrees'
  <2>1. ASSUME replay_ok PROVE Agree(queue_items', replay_items')
    <3>1. Agree(queue_items, replay_items)
      BY <2>1, ReplayIsAgreement DEF HistoryInv
    <3> QED
      BY <1>0, <1>1, <2>1, <3>1, UpdatesKeepAgreement
  <2> QED
    BY <1>1, <2>1 DEF ReplayAgrees, Agree, HistoryInv
<1>4. QuietStep
  BY <1>0, <1>1, RowsFollow DEF QuietStep
<1>5. ASSUME ~LeaseAboutToEnd PROVE \A i \in QueueItemIds : Runs(i) => Runs(i)'
  <2>1. ASSUME NEW v \in Workers, NEW c \in CurrentClaims(v)
        PROVE  \E d \in CurrentClaims(v)' : d.item = c.item /\ d.token = c.token
    <3>1. c \in queue_claims /\ c.left # 0 /\ c.left # 1
      BY <1>5 DEF CurrentClaims, Expired, LeaseAboutToEnd
    <3>2. older(c) \in queue_claims' /\ older(c).left # 0
      BY <1>1, <1>2, <3>1 DEF Dec
    <3>3. older(c) \in CurrentClaims(v)'
      BY <1>1, <1>2, <3>1, <3>2 DEF CurrentClaims, Expired
    <3> QED
      BY <1>2, <3>1, <3>3
  <2> QED
    BY <1>1, <2>1, RunsKept
<1>6. \A c \in queue_claims' : \E d \in queue_claims : c.item = d.item /\ c.token = d.token
  BY <1>1, <1>2
<1>7. \/ losses' = losses + 1
      \/ losses' = losses /\ \A i \in QueueItemIds : Runs(i) => Runs(i)'
  BY <1>1, <1>5
<1> QED
  BY <1>3, <1>4, <1>6, <1>7, QuietKeeps

(* rebuild_projections: what the journal says is what the tables said.     *)
LEMMA RebuildKeeps ==
  ASSUME HistoryInv, RebuildProjections
  PROVE  ReplayAgrees' /\ TablesInv' /\ TurnsInv' /\ BudgetInv' /\ CommitsUnderClaim
<1>0. /\ TypeOK /\ queue_items \in [QueueItemIds -> QueueRow]
      /\ replay_items \in [QueueItemIds -> QueueRow]
  BY DEF HistoryInv, LockInv, TypeOK
<1>1. /\ replay_ok /\ losses' = losses + 1 /\ queue_claims' = {}
      /\ attempts' = replay_attempts
      /\ UNCHANGED <<replay_items, replay_attempts, replay_ok>>
  BY DEF RebuildProjections, journal
<1>2. Agree(queue_items, replay_items) /\ replay_attempts = WithoutTokens(attempts)
  BY <1>1, ReplayIsAgreement DEF HistoryInv
<1>3. ASSUME NEW i \in QueueItemIds
      PROVE  \/ replay_items[i].status # "claimed" /\ queue_items'[i] = replay_items[i]
             \/ /\ replay_items[i].status = "claimed"
                /\ queue_items'[i] = [replay_items[i] EXCEPT !.status = "available"]
  <2>1. replay_items[i].status = "claimed" => replay_items[i].target # Unbound
    <3>1. PICK e \in Events, x \in Agents \union {Unbound} : i = <<e, x>>
      BY DEF QueueItemIds
    <3> QED
      BY <3>1 DEF HistoryInv, LockInv, TableInv
  <2>2. queue_items'[i] =
          IF replay_items[i].status = "claimed"
            THEN [replay_items[i] EXCEPT !.status =
                    IF replay_items[i].target = Unbound THEN "pending" ELSE "available"]
            ELSE replay_items[i]
    BY DEF RebuildProjections
  <2> QED
    BY <2>1, <2>2
<1>4. QuietStep
  <2>1. ASSUME NEW i \in QueueItemIds PROVE Follows(queue_items[i], queue_items'[i])
    <3>1. queue_items[i] \in QueueRow /\ replay_items[i] \in QueueRow
      BY <1>0
    <3>2. \/ queue_items[i] = replay_items[i]
          \/ /\ replay_items[i].status = "claimed"
             /\ queue_items[i] = [replay_items[i] EXCEPT !.status = "available"]
      BY <1>2 DEF Agree
    <3>3. CASE replay_items[i].status # "claimed" /\ queue_items'[i] = replay_items[i]
      BY <3>2, <3>3 DEF Follows
    <3>4. CASE /\ replay_items[i].status = "claimed"
               /\ queue_items'[i] = [replay_items[i] EXCEPT !.status = "available"]
      BY <3>1, <3>2, <3>4 DEF Follows, QueueRow
    <3> QED
      BY <1>3, <3>3, <3>4
  <2> QED
    BY <1>1, <1>2, <2>1 DEF QuietStep
<1>5. ReplayAgrees'
  <2>1. Agree(queue_items', replay_items)
    BY <1>3 DEF Agree
  <2>2. replay_attempts = WithoutTokens(replay_attempts)
    <3> DEFINE bare(a) == [a EXCEPT !.token = NoToken]
    <3>1. \A a \in attempts : bare(bare(a)) = bare(a)
      BY <1>0 DEF TypeOK, AttemptRow
    <3>2. \A rows : WithoutTokens(rows) = {bare(a) : a \in rows}
      BY DEF WithoutTokens
    <3> HIDE DEF bare
    <3>3. {bare(b) : b \in {bare(a) : a \in attempts}} = {bare(a) : a \in attempts}
      BY <3>1
    <3> QED
      BY <1>2, <3>2, <3>3
  <2> QED
    BY <1>1, <2>1, <2>2 DEF ReplayAgrees, Agree, WithoutTokens
<1> QED
  BY <1>1, <1>4, <1>5, QuietKeeps

(* What the other steps of a worker do to its claim.                       *)
LEMMA WorkerKeeps ==
  ASSUME HistoryInv, NEW w \in Workers,
         RenewClaim(w) \/ ReleaseClaim(w) \/ FencedCallRefused(w) \/ WorkerCrash(w)
  PROVE  ReplayAgrees' /\ TablesInv' /\ TurnsInv' /\ BudgetInv' /\ CommitsUnderClaim
<1>0. TypeOK /\ Lease \in Nat \ {0}
  BY BoundsAssumption DEF HistoryInv, LockInv
<1>1. CASE RenewClaim(w)
  <2>1. PICK c \in CurrentClaims(w) :
          queue_claims' = (queue_claims \ {c}) \union {[c EXCEPT !.left = Lease]}
    BY <1>1 DEF RenewClaim
  <2>2. UNCHANGED <<queue_items, attempts, journal, held, losses>>
    BY <1>1 DEF RenewClaim
  <2> DEFINE d == [c EXCEPT !.left = Lease]
  <2>3. /\ c \in queue_claims /\ d.item = c.item /\ d.token = c.token
        /\ d.worker = c.worker /\ ~Expired(d)
    BY <1>0 DEF CurrentClaims, TypeOK, ClaimRow, Expired
  <2>4. queue_claims' = (queue_claims \ {c}) \union {d}
    BY <2>1
  <2> HIDE DEF d
  <2>5. ASSUME NEW v \in Workers, NEW b \in CurrentClaims(v)
        PROVE  \E e \in CurrentClaims(v)' : e.item = b.item /\ e.token = b.token
    <3>1. CASE b = c
      <4>1. d \in CurrentClaims(v)'
        BY <2>2, <2>3, <2>4, <3>1 DEF CurrentClaims
      <4> QED
        BY <2>3, <3>1, <4>1
    <3>2. CASE b # c
      <4>1. b \in CurrentClaims(v)'
        BY <2>2, <2>4, <3>2 DEF CurrentClaims
      <4> QED
        BY <4>1
    <3> QED
      BY <3>1, <3>2
  <2>6. \A i \in QueueItemIds : Runs(i) => Runs(i)'
    BY <2>2, <2>5, RunsKept
  <2>7. ReplayAgrees' /\ QuietStep
    BY <2>2, SameTables
  <2>8. \A b \in queue_claims' : \E e \in queue_claims : b.item = e.item /\ b.token = e.token
    BY <2>3, <2>4
  <2> QED
    BY <2>2, <2>6, <2>7, <2>8, QuietKeeps
<1>2. CASE ReleaseClaim(w)
  <2>1. PICK c \in CurrentClaims(w) :
          /\ queue_claims' = queue_claims \ {c}
          /\ queue_items' = Recovered(queue_items, {c.item})
    BY <1>2 DEF ReleaseClaim
  <2>2. UNCHANGED <<attempts, journal>> /\ losses' = losses + 1
    BY <1>2 DEF ReleaseClaim
  <2>3. ReplayAgrees' /\ QuietStep
    BY <2>1, <2>2, RecoveryReplays
  <2> QED
    BY <2>1, <2>2, <2>3, QuietKeeps
<1>3. CASE FencedCallRefused(w)
  <2>1. /\ UNCHANGED <<queue_items, queue_claims, attempts, journal, losses>>
        /\ CurrentClaims(w) = {} /\ held' = [held EXCEPT ![w] = NoToken]
    BY <1>3 DEF FencedCallRefused
  <2>2. ASSUME NEW v \in Workers, NEW b \in CurrentClaims(v) PROVE b \in CurrentClaims(v)'
    <3>1. v # w
      BY <2>1
    <3>2. held'[v] = held[v]
      BY <1>0, <2>1, <3>1 DEF TypeOK
    <3> QED
      BY <2>1, <3>2 DEF CurrentClaims
  <2>3. \A i \in QueueItemIds : Runs(i) => Runs(i)'
    BY <2>1, <2>2, RunsKept
  <2>4. ReplayAgrees' /\ QuietStep
    BY <2>1, SameTables
  <2> QED
    BY <2>1, <2>3, <2>4, QuietKeeps
<1>4. CASE WorkerCrash(w)
  <2>1. UNCHANGED <<queue_items, queue_claims, attempts, journal>> /\ losses' = losses + 1
    BY <1>4 DEF WorkerCrash
  <2>2. ReplayAgrees' /\ QuietStep
    BY <2>1, SameTables
  <2> QED
    BY <2>1, <2>2, QuietKeeps
<1> QED
  BY <1>1, <1>2, <1>3, <1>4

(* reconcile_expired_claims.                                               *)
LEMMA ReconcileKeeps ==
  ASSUME HistoryInv, ReconcileExpiredClaims
  PROVE  ReplayAgrees' /\ TablesInv' /\ TurnsInv' /\ BudgetInv' /\ CommitsUnderClaim
<1>1. /\ queue_items' = Recovered(queue_items, ItemsOf(ExpiredClaims))
      /\ queue_claims' = queue_claims \ ExpiredClaims
      /\ UNCHANGED <<attempts, journal, held, losses>>
  BY DEF ReconcileExpiredClaims
<1>2. ReplayAgrees' /\ QuietStep
  BY <1>1, RecoveryReplays
<1>3. \A v \in Workers : \A b \in CurrentClaims(v) : b \in CurrentClaims(v)'
  BY <1>1 DEF CurrentClaims, ExpiredClaims
<1>4. \A i \in QueueItemIds : Runs(i) => Runs(i)'
  BY <1>1, <1>3, RunsKept
<1> QED
  BY <1>1, <1>2, <1>4, QuietKeeps

-----------------------------------------------------------------------------
(* The inductive step, and what an action may not do.                      *)

(* Every step preserves the invariant, and commits only under a claim.     *)
LEMMA HistoryStep == HistoryInv /\ [Next]_vars => HistoryInv' /\ [CommitsUnderClaim]_vars
<1> SUFFICES ASSUME HistoryInv, [Next]_vars PROVE HistoryInv' /\ [CommitsUnderClaim]_vars
  OBVIOUS
<1> DEFINE Goal == /\ ReplayAgrees' /\ TablesInv' /\ TurnsInv' /\ BudgetInv'
                   /\ CommitsUnderClaim
<1>0. /\ LockInv /\ TypeOK /\ LockInv' /\ TypeOK' /\ TablesInv /\ TurnsInv /\ BudgetInv
      /\ ReplayAgrees
  <2>1. LockInv /\ LockInv'
    BY LockStep DEF HistoryInv
  <2> QED
    BY <2>1 DEF LockInv, HistoryInv
<1> SUFFICES Goal
  BY <1>0 DEF HistoryInv
<1>1. CASE IngestEvent
  <2>1. last_event + 1 \in Nat
    BY <1>0 DEF TypeOK
  <2> QED
    BY <1>0, <1>1, <2>1, IngestBinds, BindKeeps
<1>2. ASSUME NEW e \in Events, NEW plan \in RoutePlans, RouteIngressEvent(e, plan)
      PROVE  Goal
  <2>1. e \in Nat
    BY BoundsAssumption DEF Events
  <2> QED
    BY <1>0, <1>2, <2>1, RouteBinds, BindKeeps
<1>3. ASSUME NEW m \in MessageTargets, SubmitSessionMessage(m[1], m[2])
      PROVE  Goal
  <2>1. last_event + 1 \in Nat
    BY <1>0 DEF TypeOK
  <2> QED
    BY <1>0, <1>3, <2>1, SubmitBinds, BindKeeps
<1>4. ASSUME NEW w \in Workers, Worker(w) PROVE Goal
  <2>1. CASE ClaimNextQueueItem(w)
    BY <2>1, ClaimKeeps
  <2>2. CASE StartClaimedAttempt(w)
    BY <1>0, <2>2, StartKeeps
  <2>3. CASE RenewClaim(w) \/ ReleaseClaim(w) \/ FencedCallRefused(w) \/ WorkerCrash(w)
    BY <2>3, WorkerKeeps
  <2>4. CASE EndClaimedAttempt(w)
    BY <1>0, <2>4, EndClaimedKeeps
  <2> QED
    BY <1>4, <2>1, <2>2, <2>3, <2>4 DEF Worker
<1>5. CASE ReconcileExpiredClaims
  BY <1>5, ReconcileKeeps
<1>6. ASSUME NEW i \in CancelTargets, CancelQueueItem(i) PROVE Goal
  BY <1>0, <1>6, CancelKeeps
<1>7. CASE FinalizeNextRequestedCancellation
  BY <1>0, <1>7, FinalizeKeeps
<1>8. CASE RebuildProjections
  BY <1>8, RebuildKeeps
<1>9. CASE Tick
  BY <1>9, TickKeeps
<1>10. CASE UNCHANGED vars
  <2>1. UNCHANGED <<queue_items, queue_claims, attempts, journal, held, losses>>
    BY <1>10 DEF vars
  <2>2. ReplayAgrees' /\ QuietStep
    BY <2>1, SameTables
  <2>3. \A v \in Workers : \A b \in CurrentClaims(v) : b \in CurrentClaims(v)'
    BY <2>1 DEF CurrentClaims
  <2>4. \A i \in QueueItemIds : Runs(i) => Runs(i)'
    BY <2>1, <2>3, RunsKept
  <2> QED
    BY <2>1, <2>2, <2>4, QuietKeeps
<1> QED
  BY <1>1, <1>2, <1>3, <1>4, <1>5, <1>6, <1>7, <1>8, <1>9, <1>10 DEF Next

(* The empty queue has the empty history.                                  *)
LEMMA HistoryInit == Init => HistoryInv
<1> SUFFICES ASSUME Init PROVE HistoryInv
  OBVIOUS
<1>1. /\ \A i \in QueueItemIds : queue_items[i] = NoRow /\ replay_items[i] = NoRow
      /\ queue_claims = {} /\ attempts = {} /\ replay_attempts = {} /\ losses = 0
  BY DEF Init
<1>2. ReplayAgrees
  BY <1>1 DEF ReplayAgrees
<1>3. TablesInv
  <2>1. RowsInv
    BY <1>1 DEF RowsInv, RowInv, NoRow
  <2>2. OneTurnPerEvent
    BY <1>1 DEF OneTurnPerEvent, NoRow
  <2>3. AttemptHistory
    <3>1. \A i \in QueueItemIds : queue_items[i].attempt_count = 0
      BY <1>1 DEF NoRow
    <3>2. 1..0 = {}
      OBVIOUS
    <3> QED
      BY <1>1, <3>1, <3>2 DEF AttemptHistory
  <2>4. OutcomeOfLastAttempt
    BY <1>1 DEF OutcomeOfLastAttempt, NoRow, Absent
  <2> QED
    BY <2>1, <2>2, <2>3, <2>4 DEF TablesInv
<1>4. TurnsInv
  BY <1>1 DEF TurnsInv, NoBarrierBefore, RunsLastAttempt, SessionOrder
<1>5. BudgetInv
  BY <1>1, BoundsAssumption DEF BudgetInv, AttemptBudget, SpareAttempt, NoRow, Absent
<1>6. LockInv
  BY LockInit
<1> QED
  BY <1>2, <1>3, <1>4, <1>5, <1>6 DEF HistoryInv

(* The invariant of the histories holds in every state.                    *)
LEMMA HistoryInvHolds == Spec => []HistoryInv
BY HistoryInit, HistoryStep, PTL DEF Spec

(* While the journal replays, a rebuild restores every queue item and the  *)
(* whole history of attempts: the live projections of index_event and the  *)
(* replayed ones never drift apart, for every instance.                    *)
THEOREM RebuildRestores == Spec => []ReplayAgrees
<1>1. HistoryInv => ReplayAgrees
  BY DEF HistoryInv
<1> QED
  BY <1>1, HistoryInvHolds, PTL

(* The turns of a session run one at a time and in input order, whichever  *)
(* claims expire, are released or are rebuilt away.                        *)
THEOREM SessionsRunInOrder == Spec => []SessionOrder
<1>1. HistoryInv => SessionOrder
  BY DEF HistoryInv, TurnsInv
<1> QED
  BY <1>1, HistoryInvHolds, PTL

(* The outcome of an item is that of its last attempt, its attempts are    *)
(* numbered without gaps and exceed the retry policy by lost claims only,  *)
(* and a requested cancellation wins over success and dead letter.         *)
THEOREM OutcomesFollowHistory == Spec => []OutcomeFollowsHistory
<1>1. RowsInv => CancellationWins
  BY DEF RowsInv, RowInv, CancellationWins
<1>2. HistoryInv => OutcomeFollowsHistory
  BY <1>1 DEF HistoryInv, TablesInv, BudgetInv, OutcomeFollowsHistory
<1> QED
  BY <1>2, HistoryInvHolds, PTL

(* A stale worker commits nothing: an attempt is completed or failed only  *)
(* under its own claim, whose lease has not ended, and the claim goes away *)
(* in the same step.                                                       *)
THEOREM CommitsAreFenced == Spec => FencedCommit
<1>1. HistoryInv /\ [Next]_vars => [CommitsUnderClaim]_vars
  BY HistoryStep
<1> QED
  BY <1>1, HistoryInvHolds, PTL DEF Spec, FencedCommit

=============================================================================
