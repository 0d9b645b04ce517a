---------------------- MODULE DispatchQueueStepProofs -----------------------
(***************************************************************************)
(* The history of queue items, the first part: the invariant that the      *)
(* proofs of DispatchQueueHistoryProofs go by, and the kinds of steps that *)
(* keep it.                                                                *)
(*                                                                         *)
(* None of the properties is inductive.  HistoryInv adds what they rest    *)
(* on: the rows a table can hold (RowInv), that an event has at most one   *)
(* item per session (OneTurnPerEvent), that no barrier stands before a     *)
(* claimed item (NoBarrierBefore), that the attempt a claim runs is the    *)
(* last of its item (RunsLastAttempt), and that an item nobody runs has an *)
(* attempt to spare (SpareAttempt).                                        *)
(***************************************************************************)
EXTENDS DispatchQueueCoordinationProofs

(* Both provers are given time on every leaf that names none.              *)
USE ZenonT(5), SMTT(20)

(* An unbound row is a barrier or what became of one, and was never        *)
(* started; a bound row has a session; only work that had not ended can    *)
(* have been asked to stop.                                                *)
RowInv(r) ==
  /\ r.status \in {Absent, "pending", "available", "claimed", "completed",
                   "dead_lettered", "cancelled", "unhandled"}
  /\ r.target = Unbound =>
       r.attempt_count = 0 /\ r.status \in {Absent, "pending", "unhandled", "cancelled"}
  /\ r.target # Unbound => r.session # NoSession /\ r.status \notin {Absent, "pending"}
  /\ r.cancel => r.status \in {"available", "claimed", "cancelled"}

RowsInv == \A i \in QueueItemIds : RowInv(queue_items[i])

OneTurnPerEvent ==
  \A i, j \in QueueItemIds :
    /\ queue_items[i].target # Unbound /\ queue_items[j].target # Unbound
    /\ InputCursor(i) = InputCursor(j)
    /\ queue_items[i].session = queue_items[j].session
    => i = j

NoBarrierBefore ==
  \A c \in queue_claims, b \in QueueItemIds :
    InputCursor(b) < InputCursor(c.item) => queue_items[b].status # "pending"

RunsLastAttempt ==
  \A c \in queue_claims : \A a \in RunningForClaim(c) :
    a.number = queue_items[c.item].attempt_count

(* A worker that still owns its claim runs an attempt of the item.         *)
Runs(i) ==
  \E w \in Workers : \E c \in CurrentClaims(w) : c.item = i /\ RunningForClaim(c) # {}

SpareAttempt ==
  \A i \in QueueItemIds :
    queue_items[i].status \in {"available", "claimed"} /\ ~Runs(i) =>
      queue_items[i].attempt_count < MaxAttempts + losses

(* What is said of the tables, of the claims and of the attempts left.     *)
TablesInv == RowsInv /\ OneTurnPerEvent /\ AttemptHistory /\ OutcomeOfLastAttempt
TurnsInv == NoBarrierBefore /\ RunsLastAttempt /\ SessionOrder
BudgetInv == AttemptBudget /\ SpareAttempt

HistoryInv == LockInv /\ ReplayAgrees /\ TablesInv /\ TurnsInv /\ BudgetInv

-----------------------------------------------------------------------------
(* What a rebuild restores.                                                *)

(* A stored table and the replayed one: equal up to claims given up.       *)
Agree(live, replayed) ==
  \A i \in QueueItemIds :
    \/ live[i] = replayed[i]
    \/ /\ replayed[i].status = "claimed"
       /\ live[i] = [replayed[i] EXCEPT !.status = "available"]

(* The replay has no claims, and therefore no tokens.                      *)
WithoutTokens(rows) == {[a EXCEPT !.token = NoToken] : a \in rows}

(* The fields of two rows that agree.                                      *)
LEMMA AgreeingRows ==
  ASSUME NEW r \in QueueRow, NEW s \in QueueRow,
         \/ r = s
         \/ s.status = "claimed" /\ r = [s EXCEPT !.status = "available"]
  PROVE  /\ r.target = s.target /\ r.session = s.session /\ r.locks = s.locks
         /\ r.delay = s.delay /\ r.cancel = s.cancel /\ r.attempt_count = s.attempt_count
         /\ \/ r.status = s.status
            \/ s.status = "claimed" /\ r.status = "available"
BY DEF QueueRow

(* A fact projects the same on tables that agree.                          *)
LEMMA FactKeepsAgreement ==
  ASSUME NEW live \in [QueueItemIds -> QueueRow],
         NEW replayed \in [QueueItemIds -> QueueRow],
         NEW f \in QueueFactType, NEW g \in AttemptFactType, Agree(live, replayed)
  PROVE  Agree(IndexAttemptCount(IndexQueueItem(live, f), g),
               IndexAttemptCount(IndexQueueItem(replayed, f), g))
<1> DEFINE l == IndexQueueItem(live, f)
           r == IndexQueueItem(replayed, f)
<1>1. l \in [QueueItemIds -> QueueRow] /\ r \in [QueueItemIds -> QueueRow]
  BY IndexQueueItemType
<1>2. ASSUME NEW i \in QueueItemIds
      PROVE  \/ l[i] = r[i]
             \/ /\ r[i].status = "claimed"
                /\ l[i] = [r[i] EXCEPT !.status = "available"]
  <2>1. /\ live[i].target = replayed[i].target /\ live[i].session = replayed[i].session
        /\ live[i].locks = replayed[i].locks /\ live[i].delay = replayed[i].delay
        /\ live[i].cancel = replayed[i].cancel
        /\ live[i].attempt_count = replayed[i].attempt_count
    BY AgreeingRows DEF Agree
  <2>2. IndexedRow(live[i], f) = IndexedRow(replayed[i], f)
    BY <2>1 DEF IndexedRow
  <2>3. CASE i = f.item
    BY <2>2, <2>3 DEF IndexQueueItem
  <2>4. CASE i # f.item
    BY <2>1, <2>4 DEF IndexQueueItem, Agree
  <2> QED
    BY <2>3, <2>4
<1>3. Agree(l, r)
  BY <1>2 DEF Agree
<1> SUFFICES Agree(IndexAttemptCount(l, g), IndexAttemptCount(r, g))
  OBVIOUS
<1> HIDE DEF l, r
<1>4. CASE g = NoAttemptFact
  BY <1>3, <1>4 DEF IndexAttemptCount, NoAttemptFact, Absent
<1>5. CASE g \in AttemptRow
  <2>1. CASE g.status = "running"
    <3> DEFINE up(items) ==
          [items EXCEPT ![g.item].attempt_count = IF g.number > @ THEN g.number ELSE @]
    <3>1. ASSUME NEW i \in QueueItemIds
          PROVE  \/ up(l)[i] = up(r)[i]
                 \/ /\ up(r)[i].status = "claimed"
                    /\ up(l)[i] = [up(r)[i] EXCEPT !.status = "available"]
      <4>1. l[i].attempt_count = r[i].attempt_count
        BY <1>1, <1>3, AgreeingRows DEF Agree
      <4>2. CASE i = g.item
        <5> DEFINE n == IF g.number > r[i].attempt_count THEN g.number
                        ELSE r[i].attempt_count
        <5>1. /\ up(l)[i] = [l[i] EXCEPT !.attempt_count = n]
              /\ up(r)[i] = [r[i] EXCEPT !.attempt_count = n]
          BY <1>1, <4>1, <4>2
        <5> HIDE DEF n, up
        <5>2. r[i] \in QueueRow /\ l[i] \in QueueRow
          BY <1>1
        <5>3. CASE l[i] = r[i]
          BY <5>1, <5>3
        <5>4. CASE r[i].status = "claimed" /\ l[i] = [r[i] EXCEPT !.status = "available"]
          <6>1. \A s \in QueueRow :
                  /\ [s EXCEPT !.attempt_count = n].status = s.status
                  /\ [[s EXCEPT !.status = "available"] EXCEPT !.attempt_count = n]
                       = [[s EXCEPT !.attempt_count = n] EXCEPT !.status = "available"]
            BY DEF QueueRow
          <6> QED
            BY <5>1, <5>2, <5>4, <6>1
        <5> QED
          BY <1>3, <5>3, <5>4 DEF Agree
      <4>3. CASE i # g.item
        BY <1>1, <1>3, <4>3 DEF Agree
      <4> QED
        BY <4>2, <4>3
    <3>2. IndexAttemptCount(l, g) = up(l) /\ IndexAttemptCount(r, g) = up(r)
      BY <2>1 DEF IndexAttemptCount
    <3> HIDE DEF up
    <3> QED
      BY <3>1, <3>2 DEF Agree
  <2>2. CASE g.status # "running"
    BY <1>3, <2>2 DEF IndexAttemptCount
  <2> QED
    BY <2>1, <2>2
<1> QED
  BY <1>4, <1>5 DEF AttemptFactType

(* The history of attempts replays without its tokens.                     *)
LEMMA AttemptsWithoutTokens ==
  ASSUME NEW rows \in SUBSET AttemptRow, NEW g \in AttemptFactType
  PROVE  IndexAttempt(WithoutTokens(rows), [g EXCEPT !.token = NoToken])
           = WithoutTokens(IndexAttempt(rows, g))
<1> DEFINE h == [g EXCEPT !.token = NoToken]
<1>1. CASE g = NoAttemptFact
  BY <1>1 DEF IndexAttempt, NoAttemptFact, Absent
<1>2. CASE g \in AttemptRow /\ g.status = "running"
  <2>1. h.status = "running"
    BY <1>2 DEF AttemptRow
  <2> QED
    BY <1>2, <2>1 DEF IndexAttempt, WithoutTokens, Absent
<1>3. CASE g \in AttemptRow /\ g.status # "running"
  <2>1. /\ h.status = g.status /\ h.item = g.item /\ h.number = g.number
        /\ g.status # Absent
    BY <1>3 DEF AttemptRow, AttemptStatus, Absent
  <2> DEFINE bare(a) == [a EXCEPT !.token = NoToken]
             old(a) == IF a \in AttemptRows(rows, g)
                         THEN [a EXCEPT !.status = g.status, !.token = NoToken] ELSE a
             new(b) == IF b \in AttemptRows(WithoutTokens(rows), h)
                         THEN [b EXCEPT !.status = h.status, !.token = NoToken] ELSE b
  <2>2. ASSUME NEW a \in rows PROVE new(bare(a)) = bare(old(a))
    <3>1. a \in AttemptRow /\ bare(a).item = a.item /\ bare(a).number = a.number
      BY DEF AttemptRow
    <3>2. bare(a) \in AttemptRows(WithoutTokens(rows), h) <=> a \in AttemptRows(rows, g)
      BY <2>1, <3>1 DEF AttemptRows, WithoutTokens
    <3>3. CASE a \in AttemptRows(rows, g)
      BY <2>1, <3>1, <3>2, <3>3 DEF AttemptRow
    <3>4. CASE a \notin AttemptRows(rows, g)
      BY <3>2, <3>4
    <3> QED
      BY <3>3, <3>4
  <2>3. IndexAttempt(WithoutTokens(rows), h) = {new(b) : b \in {bare(a) : a \in rows}}
    BY <1>3, <2>1 DEF IndexAttempt, WithoutTokens
  <2>4. WithoutTokens(IndexAttempt(rows, g)) = {bare(b) : b \in {old(a) : a \in rows}}
    BY <1>3, <2>1 DEF IndexAttempt, WithoutTokens
  <2> HIDE DEF bare, old, new, h
  <2>5. {new(b) : b \in {bare(a) : a \in rows}} = {bare(b) : b \in {old(a) : a \in rows}}
    BY <2>2
  <2> QED
    BY <2>3, <2>4, <2>5 DEF h
<1> QED
  BY <1>1, <1>2, <1>3 DEF AttemptFactType

(* The facts of a transaction are replayed as they were projected.         *)
LEMMA AppendKeepsReplay ==
  ASSUME TypeOK,
         NEW live \in [QueueItemIds -> QueueRow],
         NEW replayed \in [QueueItemIds -> QueueRow],
         NEW f \in QueueFactType, NEW g \in AttemptFactType,
         replay_ok => Agree(live, replayed) /\ replay_attempts = WithoutTokens(attempts),
         AppendFacts(live, replayed, f, g)
  PROVE  ReplayAgrees'
<1> SUFFICES ASSUME replay_ok'
             PROVE  /\ Agree(queue_items', replay_items')
                    /\ replay_attempts' = WithoutTokens(attempts')
  BY DEF ReplayAgrees, Agree, WithoutTokens
<1>1. replay_ok
  BY Zenon DEF AppendFacts
<1>2. /\ queue_items' = IndexAttemptCount(IndexQueueItem(live, f), g)
      /\ attempts' = IndexAttempt(attempts, g)
      /\ replay_items' = IndexAttemptCount(IndexQueueItem(replayed, f), g)
      /\ replay_attempts' = IndexAttempt(replay_attempts, [g EXCEPT !.token = NoToken])
  BY Zenon DEF AppendFacts
<1>3. Agree(queue_items', replay_items')
  BY <1>1, <1>2, FactKeepsAgreement
<1>4. replay_attempts' = WithoutTokens(attempts')
  BY <1>1, <1>2, AttemptsWithoutTokens DEF TypeOK
<1> QED
  BY <1>3, <1>4

(* The other updates of a table project the same, too.                     *)
LEMMA UpdatesKeepAgreement ==
  ASSUME NEW live \in [QueueItemIds -> QueueRow],
         NEW replayed \in [QueueItemIds -> QueueRow], Agree(live, replayed)
  PROVE  /\ \A e \in Events : Agree(IndexPending(live, e), IndexPending(replayed, e))
         /\ \A i \in QueueItemIds :
              Agree(IndexCancelRequested(live, i), IndexCancelRequested(replayed, i))
         /\ \A e \in Events, plan \in RoutePlans :
              Agree(IndexFanOut(live, e, plan), IndexFanOut(replayed, e, plan))
         /\ \A ids : Agree(Recovered(live, ids), replayed)
         /\ Agree(Later(live), Later(replayed))
<1>r. \A i \in QueueItemIds : live[i] \in QueueRow /\ replayed[i] \in QueueRow
  OBVIOUS
<1>0. ASSUME NEW i \in QueueItemIds
      PROVE  /\ live[i].target = replayed[i].target
             /\ live[i].session = replayed[i].session
             /\ live[i].locks = replayed[i].locks /\ live[i].delay = replayed[i].delay
             /\ live[i].cancel = replayed[i].cancel
             /\ live[i].attempt_count = replayed[i].attempt_count
             /\ \/ live[i] = replayed[i]
                \/ replayed[i].status = "claimed" /\ live[i].status = "available"
  <2>1. \/ live[i] = replayed[i]
        \/ /\ replayed[i].status = "claimed"
           /\ live[i] = [replayed[i] EXCEPT !.status = "available"]
    BY DEF Agree
  <2> QED
    BY <1>r, <2>1 DEF QueueRow
<1>1. ASSUME NEW e \in Events PROVE Agree(IndexPending(live, e), IndexPending(replayed, e))
  <2>1. \A i \in QueueItemIds : live[i].status = Absent \/ replayed[i].status = Absent =>
          live[i] = replayed[i]
    BY <1>0 DEF Absent
  <2>2. ASSUME NEW i \in QueueItemIds
        PROVE  \/ IndexPending(live, e)[i] = IndexPending(replayed, e)[i]
               \/ /\ IndexPending(live, e)[i] = live[i]
                  /\ IndexPending(replayed, e)[i] = replayed[i]
    BY <2>1 DEF IndexPending
  <2> QED
    BY <2>2 DEF Agree
<1>2. ASSUME NEW i \in QueueItemIds
      PROVE  Agree(IndexCancelRequested(live, i), IndexCancelRequested(replayed, i))
  <2>1. \A s \in QueueRow :
          /\ [s EXCEPT !.cancel = TRUE].status = s.status
          /\ [[s EXCEPT !.status = "available"] EXCEPT !.cancel = TRUE]
               = [[s EXCEPT !.cancel = TRUE] EXCEPT !.status = "available"]
    BY DEF QueueRow
  <2> DEFINE l == IndexCancelRequested(live, i)
             r == IndexCancelRequested(replayed, i)
  <2>2. /\ l[i] = [live[i] EXCEPT !.cancel = TRUE]
        /\ r[i] = [replayed[i] EXCEPT !.cancel = TRUE]
        /\ \A j \in QueueItemIds \ {i} : l[j] = live[j] /\ r[j] = replayed[j]
    BY DEF IndexCancelRequested
  <2> HIDE DEF l, r
  <2>3. \/ l[i] = r[i]
        \/ r[i].status = "claimed" /\ l[i] = [r[i] EXCEPT !.status = "available"]
    <3>1. CASE live[i] = replayed[i]
      BY <2>2, <3>1
    <3>2. CASE /\ replayed[i].status = "claimed"
               /\ live[i] = [replayed[i] EXCEPT !.status = "available"]
      <4> DEFINE s == replayed[i]
      <4>1. /\ [s EXCEPT !.cancel = TRUE].status = s.status
            /\ [[s EXCEPT !.status = "available"] EXCEPT !.cancel = TRUE]
                 = [[s EXCEPT !.cancel = TRUE] EXCEPT !.status = "available"]
        BY <1>r, <2>1
      <4>2. /\ l[i] = [[s EXCEPT !.status = "available"] EXCEPT !.cancel = TRUE]
            /\ r[i] = [s EXCEPT !.cancel = TRUE]
        BY <2>2, <3>2
      <4> HIDE DEF s
      <4> QED
        BY <3>2, <4>1, <4>2, Zenon DEF s
    <3> QED
      BY <3>1, <3>2 DEF Agree
  <2>4. ASSUME NEW j \in QueueItemIds
        PROVE  \/ l[j] = r[j]
               \/ r[j].status = "claimed" /\ l[j] = [r[j] EXCEPT !.status = "available"]
    <3>1. CASE j = i
      BY <2>3, <3>1, Zenon
    <3>2. CASE j # i
      <4>1. l[j] = live[j] /\ r[j] = replayed[j]
        BY <2>2, <3>2, Zenon
      <4> QED
        BY <4>1, Zenon DEF Agree
    <3> QED
      BY <3>1, <3>2, Zenon
  <2> QED
    BY <2>4, Zenon DEF Agree, l, r
<1>3. ASSUME NEW e \in Events, NEW plan \in RoutePlans
      PROVE  Agree(IndexFanOut(live, e, plan), IndexFanOut(replayed, e, plan))
  <2>1. \A f : \A i \in QueueItemIds : IndexedRow(live[i], f) = IndexedRow(replayed[i], f)
    BY <1>0 DEF IndexedRow
  <2>2. ASSUME NEW i \in QueueItemIds
        PROVE  \/ IndexFanOut(live, e, plan)[i] = IndexFanOut(replayed, e, plan)[i]
               \/ /\ IndexFanOut(live, e, plan)[i] = live[i]
                  /\ IndexFanOut(replayed, e, plan)[i] = replayed[i]
    BY <2>1 DEF IndexFanOut
  <2> QED
    BY <2>2 DEF Agree
<1>4. ASSUME NEW ids PROVE Agree(Recovered(live, ids), replayed)
  <2>1. ASSUME NEW i \in QueueItemIds
        PROVE  \/ Recovered(live, ids)[i] = live[i]
               \/ /\ live[i].status = "claimed"
                  /\ Recovered(live, ids)[i] = [live[i] EXCEPT !.status = "available"]
    BY DEF Recovered
  <2> QED
    BY <1>0, <2>1 DEF Agree
<1>5. Agree(Later(live), Later(replayed))
  <2>1. \A s \in QueueRow : \A d \in Nat :
          /\ [s EXCEPT !.delay = d].status = s.status
          /\ [[s EXCEPT !.status = "available"] EXCEPT !.delay = d]
               = [[s EXCEPT !.delay = d] EXCEPT !.status = "available"]
    BY DEF QueueRow
  <2>2. \A i \in QueueItemIds :
          /\ Later(live)[i] = [live[i] EXCEPT !.delay = Dec(replayed[i].delay)]
          /\ Later(replayed)[i] = [replayed[i] EXCEPT !.delay = Dec(replayed[i].delay)]
    BY <1>0 DEF Later
  <2>3. \A i \in QueueItemIds : Dec(replayed[i].delay) \in Nat
    BY <1>r DEF Dec, QueueRow
  <2>4. ASSUME NEW i \in QueueItemIds
        PROVE  \/ Later(live)[i] = Later(replayed)[i]
               \/ /\ Later(replayed)[i].status = "claimed"
                  /\ Later(live)[i] = [Later(replayed)[i] EXCEPT !.status = "available"]
    <3>1. \/ live[i] = replayed[i]
          \/ /\ replayed[i].status = "claimed"
             /\ live[i] = [replayed[i] EXCEPT !.status = "available"]
      BY DEF Agree
    <3>2. CASE live[i] = replayed[i]
      BY <2>2, <3>2
    <3>3. CASE /\ replayed[i].status = "claimed"
               /\ live[i] = [replayed[i] EXCEPT !.status = "available"]
      <4> DEFINE d == Dec(replayed[i].delay)
                 s == replayed[i]
      <4>1. /\ [s EXCEPT !.delay = d].status = s.status
            /\ [[s EXCEPT !.status = "available"] EXCEPT !.delay = d]
                 = [[s EXCEPT !.delay = d] EXCEPT !.status = "available"]
        BY <1>r, <2>1, <2>3
      <4>2. /\ Later(live)[i] = [[s EXCEPT !.status = "available"] EXCEPT !.delay = d]
            /\ Later(replayed)[i] = [s EXCEPT !.delay = d]
        BY <2>2, <3>3
      <4> HIDE DEF d, s
      <4> QED
        BY <3>3, <4>1, <4>2, Zenon DEF s
    <3> QED
      BY <3>1, <3>2, <3>3
  <2> QED
    BY <2>4 DEF Agree
<1> QED
  BY <1>1, <1>2, <1>3, <1>4, <1>5

-----------------------------------------------------------------------------
(* What the steps do to the tables.                                        *)

(* Every other item keeps its row, or was the barrier that goes away.      *)
Others(j) ==
  \A i \in QueueItemIds \ {j} :
    \/ queue_items'[i] = queue_items[i]
    \/ queue_items[i].target = Unbound /\ queue_items'[i] = NoRow

(* Item j moves to state q with n attempts.                                *)
Moves(j, q, n) ==
  /\ queue_items'[j].status = q
  /\ queue_items'[j].target = queue_items[j].target
  /\ queue_items'[j].session = queue_items[j].session
  /\ queue_items'[j].attempt_count = n
  /\ Others(j)

(* The row a fact is about, when the attempt fact is about the same item.  *)
LEMMA FactRow ==
  ASSUME NEW items \in [QueueItemIds -> QueueRow], NEW f \in QueueFactType,
         NEW g \in AttemptFactType, g = NoAttemptFact \/ g.item = f.item
  PROVE  LET new == IndexAttemptCount(IndexQueueItem(items, f), g)
             n == items[f.item].attempt_count
         IN  /\ SameBinding(new[f.item], IndexedRow(items[f.item], f))
             /\ new[f.item].attempt_count =
                  IF g.status = "running" /\ g.number > n THEN g.number ELSE n
             /\ \A i \in QueueItemIds \ {f.item} :
                  \/ new[i] = items[i]
                  \/ /\ InputCursor(i) = InputCursor(f.item)
                     /\ items[i].target = Unbound /\ new[i] = NoRow
<1> DEFINE mid == IndexQueueItem(items, f)
           new == IndexAttemptCount(mid, g)
           n == items[f.item].attempt_count
<1>0. f.item \in QueueItemIds
  BY DEF QueueFactType
<1>1. mid \in [QueueItemIds -> QueueRow]
  BY IndexQueueItemType
<1>2. mid[f.item] = IndexedRow(items[f.item], f)
  BY <1>0 DEF IndexQueueItem
<1>3. ASSUME NEW i \in QueueItemIds \ {f.item}
      PROVE  \/ mid[i] = items[i]
             \/ /\ InputCursor(i) = InputCursor(f.item)
                /\ items[i].target = Unbound /\ mid[i] = NoRow
  BY DEF IndexQueueItem, PendingQueueItemId, InputCursor
<1>4. mid[f.item].attempt_count = n
  BY <1>2 DEF IndexedRow
<1> HIDE DEF mid
<1>5. CASE g.status # "running"
  BY <1>2, <1>3, <1>4, <1>5 DEF IndexAttemptCount, SameBinding, mid
<1>6. CASE g.status = "running"
  <2>1. g \in AttemptRow /\ g.item = f.item /\ g.number \in Nat
    BY <1>6, BoundsAssumption DEF AttemptFactType, NoAttemptFact, Absent, AttemptRow
  <2>2. new = [mid EXCEPT ![f.item].attempt_count = IF g.number > @ THEN g.number ELSE @]
    BY <1>6, <2>1 DEF IndexAttemptCount
  <2>3. new[f.item] = [mid[f.item] EXCEPT !.attempt_count =
                         IF g.number > n THEN g.number ELSE n]
    BY <1>0, <1>1, <1>4, <2>2
  <2>4. \A i \in QueueItemIds \ {f.item} : new[i] = mid[i]
    BY <1>1, <2>2
  <2>5. mid[f.item] \in QueueRow
    BY <1>0, <1>1
  <2> HIDE DEF new, n
  <2>6. /\ SameBinding(new[f.item], mid[f.item])
        /\ new[f.item].attempt_count = IF g.number > n THEN g.number ELSE n
    BY <2>3, <2>5 DEF SameBinding, QueueRow
  <2> QED
    BY <1>2, <1>3, <1>6, <2>4, <2>6 DEF new, mid, n
<1> QED
  BY <1>5, <1>6

(* A fact that repeats the binding of a stored item.                       *)
LEMMA RowFactMoves ==
  ASSUME TypeOK, NEW live \in [QueueItemIds -> QueueRow],
         NEW replayed \in [QueueItemIds -> QueueRow],
         NEW j \in QueueItemIds, NEW q \in QueueItemStatus, NEW d \in Nat,
         NEW g \in AttemptFactType, g = NoAttemptFact \/ g.item = j,
         \A i \in QueueItemIds \ {j} : live[i] = queue_items[i],
         live[j].session = queue_items[j].session,
         live[j].attempt_count = queue_items[j].attempt_count,
         AppendFacts(live, replayed, RowFact(j, q, d), g)
  PROVE  /\ Moves(j, q, LET n == queue_items[j].attempt_count
                        IN  IF g.status = "running" /\ g.number > n THEN g.number ELSE n)
         /\ queue_items'[j].cancel = live[j].cancel
         /\ attempts' = IndexAttempt(attempts, g)
<1> DEFINE f == RowFact(j, q, d)
           n == queue_items[j].attempt_count
<1>1. /\ f \in QueueFactType /\ f.item = j /\ f.status = q
      /\ f.target = queue_items[j].target /\ f.session = queue_items[j].session
  BY RowFactType DEF RowFact, QueueFact
<1> HIDE DEF f
<1>2. queue_items' = IndexAttemptCount(IndexQueueItem(live, f), g)
  BY DEF AppendFacts, f
<1>3. /\ SameBinding(queue_items'[j], IndexedRow(live[j], f))
      /\ queue_items'[j].attempt_count = IF g.status = "running" /\ g.number > n
                                           THEN g.number ELSE n
      /\ \A i \in QueueItemIds \ {j} :
           \/ queue_items'[i] = live[i]
           \/ live[i].target = Unbound /\ queue_items'[i] = NoRow
  BY <1>1, <1>2, FactRow
<1>4. /\ queue_items'[j].status = q
      /\ queue_items'[j].target = queue_items[j].target
      /\ queue_items'[j].session = queue_items[j].session
      /\ queue_items'[j].cancel = live[j].cancel
  BY <1>1, <1>3 DEF SameBinding, IndexedRow
<1>5. Others(j)
  BY <1>3 DEF Others
<1> QED
  BY <1>3, <1>4, <1>5 DEF Moves, AppendFacts

-----------------------------------------------------------------------------
(* Steps that move one stored item: start, end and cancellation.           *)

Running(i) == queue_items[i].status \notin Terminal \union {Absent}

(* Item j moves, its row is sound, and nobody else's attempts change.      *)
StoredStep(j, q, n) ==
  /\ j \in QueueItemIds /\ n \in Nat /\ Running(j) /\ q # "pending"
  /\ Moves(j, q, n) /\ RowInv(queue_items'[j])
  /\ \A a \in attempts \union attempts' :
       a.item # j => (a \in attempts <=> a \in attempts')
  /\ queue_claims' \subseteq queue_claims /\ losses' = losses

(* The rows of the other items, seen from the properties.                  *)
LEMMA OtherRows ==
  ASSUME RowsInv, NEW j, NEW q, NEW n, Moves(j, q, n),
         NEW i \in QueueItemIds \ {j}
  PROVE  /\ queue_items'[i].attempt_count = queue_items[i].attempt_count
         /\ RowInv(queue_items'[i])
         /\ \/ queue_items'[i] = queue_items[i]
            \/ /\ queue_items[i].target = Unbound /\ queue_items'[i].target = Unbound
               /\ queue_items[i].status \notin {"available", "claimed", "completed",
                                                "dead_lettered"}
               /\ queue_items'[i].status = Absent
               /\ queue_items'[i].session = NoSession
<1>1. RowInv(queue_items[i]) /\ RowInv(NoRow)
  BY DEF RowsInv, RowInv, NoRow, Absent
<1>2. CASE queue_items'[i] = queue_items[i]
  BY <1>1, <1>2
<1>3. CASE queue_items[i].target = Unbound /\ queue_items'[i] = NoRow
  BY <1>1, <1>3 DEF RowInv, NoRow, Absent
<1> QED
  BY <1>2, <1>3 DEF Moves, Others

(* The tables, given what becomes of the attempts of the item that moves.  *)
LEMMA StoredTablesKept ==
  ASSUME TablesInv, TypeOK, TypeOK', NEW j, NEW q, NEW n, StoredStep(j, q, n),
         \A a, b \in attempts' : a.item = j /\ b.item = j /\ a.number = b.number => a = b,
         {a.number : a \in {b \in attempts' : b.item = j}} = 1..n,
         \A a \in attempts' : a.item = j /\ a.status = "completed" =>
           a.number = n /\ q = "completed",
         q \in {"completed", "dead_lettered"} => \E a \in attempts' :
           /\ a.item = j /\ a.number = n
           /\ a.status = IF q = "completed" THEN "completed" ELSE "failed"
  PROVE  TablesInv'
<1> USE DEF TablesInv
<1>0. /\ j \in QueueItemIds /\ Moves(j, q, n) /\ RowInv(queue_items'[j])
      /\ \A a \in attempts \union attempts' :
           a.item # j => (a \in attempts <=> a \in attempts')
      /\ queue_items'[j].status = q /\ queue_items'[j].attempt_count = n
      /\ queue_items'[j].target = queue_items[j].target
      /\ queue_items'[j].session = queue_items[j].session
  BY DEF StoredStep, Moves
<1>1. RowsInv'
  BY <1>0, OtherRows DEF RowsInv
<1>2. OneTurnPerEvent'
  <2>1. \A i \in QueueItemIds :
          /\ queue_items'[i].target # Unbound => queue_items[i].target # Unbound
          /\ queue_items'[i].target # Unbound =>
               queue_items'[i].session = queue_items[i].session
    BY <1>0, OtherRows
  <2> QED
    BY <2>1 DEF OneTurnPerEvent
<1>3. AttemptHistory'
  <2>1. \A a, b \in attempts' : a.item = b.item /\ a.number = b.number => a = b
    BY <1>0 DEF AttemptHistory
  <2>2. ASSUME NEW i \in QueueItemIds \ {j}
        PROVE  {a.number : a \in {b \in attempts' : b.item = i}}
                 = 1..queue_items'[i].attempt_count
    <3>1. {b \in attempts' : b.item = i} = {b \in attempts : b.item = i}
      BY <1>0
    <3> QED
      BY <1>0, <3>1, OtherRows DEF AttemptHistory
  <2> QED
    BY <1>0, <2>1, <2>2 DEF AttemptHistory
<1>4. OutcomeOfLastAttempt'
  <2>1. ASSUME NEW a \in attempts', a.status = "completed"
        PROVE  /\ a.number = queue_items'[a.item].attempt_count
               /\ queue_items'[a.item].status = "completed"
    <3>1. CASE a.item = j
      BY <1>0, <2>1, <3>1
    <3>2. CASE a.item # j
      <4>1. a \in attempts /\ a.item \in QueueItemIds
        BY <1>0, <3>2 DEF TypeOK, AttemptRow
      <4>2. queue_items[a.item].status = "completed"
        BY <2>1, <4>1 DEF OutcomeOfLastAttempt
      <4>3. queue_items'[a.item] = queue_items[a.item]
        BY <1>0, <3>2, <4>1, <4>2, OtherRows
      <4> QED
        BY <2>1, <4>1, <4>3 DEF OutcomeOfLastAttempt
    <3> QED
      BY <3>1, <3>2
  <2>2. ASSUME NEW i \in QueueItemIds,
               queue_items'[i].status \in {"completed", "dead_lettered"}
        PROVE  \E a \in attempts' :
                 /\ a.item = i /\ a.number = queue_items'[i].attempt_count
                 /\ a.status = IF queue_items'[i].status = "completed"
                                 THEN "completed" ELSE "failed"
    <3>1. CASE i = j
      BY <1>0, <2>2, <3>1
    <3>2. CASE i # j
      <4>1. queue_items'[i] = queue_items[i]
        BY <1>0, <2>2, <3>2, OtherRows DEF Absent
      <4> QED
        BY <1>0, <2>2, <3>2, <4>1 DEF OutcomeOfLastAttempt
    <3> QED
      BY <3>1, <3>2
  <2> QED
    BY <2>1, <2>2 DEF OutcomeOfLastAttempt
<1> QED
  BY <1>1, <1>2, <1>3, <1>4

(* The claims: no turn of a session gets in front of another.              *)
LEMMA StoredTurnsKept ==
  ASSUME LockInv, TablesInv, TurnsInv, TypeOK', NEW j, NEW q, NEW n, StoredStep(j, q, n),
         \A c \in queue_claims' : c.item = j =>
           \A a \in RunningForClaim(c)' : a.number = n
  PROVE  TurnsInv'
<1> USE DEF TablesInv, TurnsInv
<1>0. /\ j \in QueueItemIds /\ Moves(j, q, n) /\ Running(j) /\ q # "pending"
      /\ \A a \in attempts \union attempts' :
           a.item # j => (a \in attempts <=> a \in attempts')
      /\ queue_claims' \subseteq queue_claims
      /\ queue_items'[j].status = q /\ queue_items'[j].attempt_count = n
      /\ queue_items'[j].target = queue_items[j].target
      /\ queue_items'[j].session = queue_items[j].session
  BY DEF StoredStep, Moves
<1>1. \A c \in queue_claims :
        /\ c.item \in QueueItemIds
        /\ queue_items[c.item].target # Unbound
        /\ queue_items[c.item].session # NoSession
        /\ c.item # j => queue_items'[c.item] = queue_items[c.item]
  <2> TAKE c \in queue_claims
  <2>1. /\ c.item \in QueueItemIds /\ queue_items[c.item].target # Unbound
    BY StoredItems
  <2> QED
    BY <1>0, <2>1, OtherRows DEF RowsInv, RowInv
<1>2. NoBarrierBefore'
  <2> SUFFICES ASSUME NEW c \in queue_claims', NEW b \in QueueItemIds,
                      InputCursor(b) < InputCursor(c.item)
               PROVE  queue_items'[b].status # "pending"
    BY DEF NoBarrierBefore
  <2>1. queue_items[b].status # "pending"
    BY <1>0 DEF NoBarrierBefore
  <2> QED
    BY <1>0, <2>1, OtherRows DEF Absent
<1>3. RunsLastAttempt'
  <2> SUFFICES ASSUME NEW c \in queue_claims', NEW a \in RunningForClaim(c)'
               PROVE  a.number = queue_items'[c.item].attempt_count
    BY DEF RunsLastAttempt
  <2>1. CASE c.item = j
    BY <1>0, <2>1
  <2>2. CASE c.item # j
    <3>1. a \in attempts' /\ a.item = c.item /\ a.token = c.token /\ a.status = "running"
      BY DEF RunningForClaim
    <3>2. a \in RunningForClaim(c)
      BY <1>0, <2>2, <3>1 DEF RunningForClaim
    <3> QED
      BY <1>0, <1>1, <2>2, <3>2 DEF RunsLastAttempt
  <2> QED
    BY <2>1, <2>2
<1>4. SessionOrder'
  <2> SUFFICES ASSUME NEW c \in queue_claims', NEW i \in QueueItemIds,
                      queue_items'[i].session = queue_items'[c.item].session,
                      i # c.item
               PROVE  /\ InputCursor(i) < InputCursor(c.item)
                           => queue_items'[i].status \in Terminal \union {Absent}
                      /\ i \notin ItemsOf(queue_claims')
    BY DEF SessionOrder
  <2>1. c \in queue_claims /\ queue_items'[c.item].session = queue_items[c.item].session
    BY <1>0, <1>1
  <2>2. queue_items[i].session = queue_items[c.item].session
    BY <1>0, <1>1, <2>1, OtherRows
  <2>3. /\ InputCursor(i) < InputCursor(c.item)
             => queue_items[i].status \in Terminal \union {Absent}
        /\ i \notin ItemsOf(queue_claims)
    BY <2>1, <2>2 DEF SessionOrder
  <2>4. i \notin ItemsOf(queue_claims')
    BY <1>0, <2>3 DEF ItemsOf
  <2>5. CASE i = j
    BY <1>0, <2>3, <2>4, <2>5 DEF Running
  <2>6. CASE i # j
    BY <1>0, <2>3, <2>4, <2>6, OtherRows
  <2> QED
    BY <2>5, <2>6
<1> QED
  BY <1>2, <1>3, <1>4

(* The attempts left.                                                      *)
LEMMA StoredBudgetKept ==
  ASSUME TypeOK, TypeOK', TablesInv, BudgetInv, NEW j, NEW q, NEW n, StoredStep(j, q, n),
         n <= MaxAttempts + losses,
         \A i \in QueueItemIds \ {j} : Runs(i) => Runs(i)',
         q \in {"available", "claimed"} /\ ~Runs(j)' => n < MaxAttempts + losses
  PROVE  BudgetInv'
<1> USE DEF TablesInv, BudgetInv
<1>0. /\ j \in QueueItemIds /\ Moves(j, q, n) /\ losses' = losses
      /\ queue_items'[j].status = q /\ queue_items'[j].attempt_count = n
  BY DEF StoredStep, Moves
<1>1. AttemptBudget'
  BY <1>0, OtherRows DEF AttemptBudget
<1>2. SpareAttempt'
  <2> SUFFICES ASSUME NEW i \in QueueItemIds,
                      queue_items'[i].status \in {"available", "claimed"}, ~Runs(i)'
               PROVE  queue_items'[i].attempt_count < MaxAttempts + losses'
    BY DEF SpareAttempt
  <2>1. CASE i = j
    BY <1>0, <2>1
  <2>2. CASE i # j
    <3>1. queue_items'[i] = queue_items[i]
      BY <1>0, <2>2, OtherRows DEF Absent
    <3>2. ~Runs(i)
      BY <2>2
    <3> QED
      BY <1>0, <3>1, <3>2 DEF SpareAttempt
  <2> QED
    BY <2>1, <2>2
<1> QED
  BY <1>1, <1>2

-----------------------------------------------------------------------------
(* Steps that move no item: claims, leases, time and rebuilds.             *)

(* A row keeps everything but a claim that is given up.                    *)
Follows(r, s) ==
  /\ s.target = r.target /\ s.session = r.session /\ s.cancel = r.cancel
  /\ s.attempt_count = r.attempt_count
  /\ \/ s.status = r.status
     \/ r.status = "claimed" /\ s.status = "available"

(* A rebuild forgets who ran an attempt, and deletes every claim.          *)
QuietStep ==
  /\ \A i \in QueueItemIds : Follows(queue_items[i], queue_items'[i])
  /\ \/ attempts' = attempts
     \/ attempts' = WithoutTokens(attempts) /\ queue_claims' = {}

(* A quiet step keeps the invariants of the tables.                        *)
LEMMA QuietTablesKept ==
  ASSUME TablesInv, TypeOK, QuietStep
  PROVE  TablesInv'
<1> USE DEF TablesInv
<1>0. \A i \in QueueItemIds : Follows(queue_items[i], queue_items'[i])
  BY DEF QuietStep
<1>1. RowsInv'
  BY <1>0 DEF RowsInv, RowInv, Follows, Absent
<1>2. OneTurnPerEvent'
  BY <1>0 DEF OneTurnPerEvent, Follows
<1>3. AttemptHistory' /\ OutcomeOfLastAttempt'
  <2>1. CASE attempts' = attempts
    <3>1. AttemptHistory'
      BY <1>0, <2>1 DEF AttemptHistory, Follows
    <3>2. \A a \in attempts : a.item \in QueueItemIds
      BY DEF TypeOK, AttemptRow
    <3>3. OutcomeOfLastAttempt'
      BY <1>0, <2>1, <3>2 DEF OutcomeOfLastAttempt, Follows
    <3> QED
      BY <3>1, <3>3
  <2>2. CASE attempts' = WithoutTokens(attempts)
    <3> DEFINE bare(a) == [a EXCEPT !.token = NoToken]
    <3>1. \A a \in attempts :
            /\ bare(a).item = a.item /\ bare(a).number = a.number
            /\ bare(a).status = a.status /\ a.item \in QueueItemIds
      BY DEF TypeOK, AttemptRow
    <3>2. attempts' = {bare(a) : a \in attempts}
      BY <2>2 DEF WithoutTokens
    <3> HIDE DEF bare
    <3>3. \A a, b \in attempts' : a.item = b.item /\ a.number = b.number => a = b
      BY <3>1, <3>2 DEF AttemptHistory
    <3>4. ASSUME NEW i \in QueueItemIds
          PROVE  {a.number : a \in {b \in attempts' : b.item = i}}
                   = 1..queue_items'[i].attempt_count
      <4>1. {a.number : a \in {b \in attempts' : b.item = i}}
              = {a.number : a \in {b \in attempts : b.item = i}}
        BY <3>1, <3>2
      <4> QED
        BY <1>0, <4>1 DEF AttemptHistory, Follows
    <3>5. OutcomeOfLastAttempt'
      BY <1>0, <3>1, <3>2 DEF OutcomeOfLastAttempt, Follows
    <3> QED
      BY <3>3, <3>4, <3>5 DEF AttemptHistory
  <2> QED
    BY <2>1, <2>2 DEF QuietStep
<1> QED
  BY <1>1, <1>2, <1>3

(* Every claim was there before the step.                                  *)
LEMMA QuietTurnsKept ==
  ASSUME TurnsInv, TypeOK, QuietStep,
         \A c \in queue_claims' : \E d \in queue_claims : c.item = d.item /\ c.token = d.token
  PROVE  TurnsInv'
<1> USE DEF TurnsInv
<1>0. /\ \A i \in QueueItemIds : Follows(queue_items[i], queue_items'[i])
      /\ queue_claims' # {} => attempts' = attempts
  BY DEF QuietStep
<1>1. \A c \in queue_claims' : \E d \in queue_claims :
        /\ c.item = d.item /\ c.token = d.token /\ d.item \in QueueItemIds
  BY DEF TypeOK, ClaimRow
<1>2. NoBarrierBefore'
  BY <1>0, <1>1 DEF NoBarrierBefore, Follows
<1>3. RunsLastAttempt'
  <2> SUFFICES ASSUME NEW c \in queue_claims', NEW a \in RunningForClaim(c)'
               PROVE  a.number = queue_items'[c.item].attempt_count
    BY DEF RunsLastAttempt
  <2>1. PICK d \in queue_claims :
          c.item = d.item /\ c.token = d.token /\ d.item \in QueueItemIds
    BY <1>1
  <2>2. a \in RunningForClaim(d)
    BY <1>0, <2>1 DEF RunningForClaim
  <2> QED
    BY <1>0, <2>1, <2>2 DEF RunsLastAttempt, Follows
<1>4. SessionOrder'
  <2> SUFFICES ASSUME NEW c \in queue_claims', NEW i \in QueueItemIds,
                      queue_items'[i].session = queue_items'[c.item].session,
                      i # c.item
               PROVE  /\ InputCursor(i) < InputCursor(c.item)
                           => queue_items'[i].status \in Terminal \union {Absent}
                      /\ i \notin ItemsOf(queue_claims')
    BY DEF SessionOrder
  <2>1. PICK d \in queue_claims :
          c.item = d.item /\ c.token = d.token /\ d.item \in QueueItemIds
    BY <1>1
  <2>2. queue_items[i].session = queue_items[d.item].session
    BY <1>0, <2>1 DEF Follows
  <2>3. /\ InputCursor(i) < InputCursor(c.item)
             => queue_items[i].status \in Terminal \union {Absent}
        /\ i \notin ItemsOf(queue_claims)
    BY <2>1, <2>2 DEF SessionOrder
  <2>4. i \notin ItemsOf(queue_claims')
    BY <1>1, <2>3 DEF ItemsOf
  <2> QED
    BY <1>0, <2>3, <2>4 DEF Follows, Terminal, Absent
<1> QED
  BY <1>2, <1>3, <1>4

(* A claim that is lost is counted, and any other step leaves the workers  *)
(* the attempts they run.                                                  *)
LEMMA QuietBudgetKept ==
  ASSUME BudgetInv, TypeOK, QuietStep,
         \/ losses' = losses + 1
         \/ losses' = losses /\ \A i \in QueueItemIds : Runs(i) => Runs(i)'
  PROVE  BudgetInv'
<1> USE DEF BudgetInv
<1>0. \A i \in QueueItemIds :
        /\ queue_items'[i].attempt_count = queue_items[i].attempt_count
        /\ queue_items'[i].status \in {"available", "claimed"} =>
             queue_items[i].status \in {"available", "claimed"}
  BY DEF QuietStep, Follows
<1>1. /\ losses \in Nat /\ MaxAttempts \in Nat
      /\ \A i \in QueueItemIds : queue_items[i].attempt_count \in Nat
  BY BoundsAssumption DEF TypeOK, QueueRow
<1>2. CASE losses' = losses + 1
  BY <1>0, <1>1, <1>2 DEF AttemptBudget, SpareAttempt
<1>3. CASE losses' = losses /\ \A i \in QueueItemIds : Runs(i) => Runs(i)'
  BY <1>0, <1>3 DEF AttemptBudget, SpareAttempt
<1> QED
  BY <1>2, <1>3

(* No attempt ends in a step that moves no item.                           *)
LEMMA QuietCommitsNothing ==
  ASSUME TablesInv, TypeOK, QuietStep
  PROVE  CommitsUnderClaim
<1> SUFFICES ASSUME NEW a \in attempts, a.status = "running", NEW b \in attempts',
                    b.item = a.item, b.number = a.number
             PROVE  b.status = "running"
  BY DEF CommitsUnderClaim
<1>1. \E d \in attempts : b.item = d.item /\ b.number = d.number /\ b.status = d.status
  <2>1. CASE attempts' = attempts
    BY <2>1
  <2>2. CASE attempts' = WithoutTokens(attempts)
    BY <2>2 DEF WithoutTokens, TypeOK, AttemptRow
  <2> QED
    BY <2>1, <2>2 DEF QuietStep
<1> QED
  BY <1>1 DEF TablesInv, AttemptHistory

-----------------------------------------------------------------------------
(* Steps that accept or bind the items of one event.                       *)

(* No item of event e was stored but its barrier, and no later item is     *)
(* claimed.                                                                *)
BindStep(e) ==
  /\ \A i \in QueueItemIds : InputCursor(i) # e => queue_items'[i] = queue_items[i]
  /\ \A i \in QueueItemIds : InputCursor(i) = e =>
       /\ queue_items[i].status \in {Absent, "pending"}
       /\ queue_items'[i].status \in {Absent, "pending", "available", "unhandled"}
       /\ queue_items'[i].attempt_count = queue_items[i].attempt_count
       /\ RowInv(queue_items'[i])
  /\ \A i, j \in QueueItemIds :
       /\ InputCursor(i) = e /\ InputCursor(j) = e
       /\ queue_items'[i].target # Unbound /\ queue_items'[j].target # Unbound
       /\ queue_items'[i].session = queue_items'[j].session
       => i = j
  /\ \A c \in queue_claims : InputCursor(c.item) < e
  /\ UNCHANGED <<queue_claims, attempts, held, losses>>

(* A step that binds an event to its turns keeps the histories and commits *)
(* nothing.                                                                *)
LEMMA BindKeeps ==
  ASSUME LockInv, TablesInv, TurnsInv, BudgetInv, NEW e \in Nat, BindStep(e)
  PROVE  TablesInv' /\ TurnsInv' /\ BudgetInv' /\ CommitsUnderClaim
<1> USE DEF TablesInv, TurnsInv, BudgetInv
<1>t. TypeOK
  BY DEF LockInv
<1>u. /\ queue_claims' = queue_claims /\ attempts' = attempts /\ held' = held
      /\ losses' = losses
  BY DEF BindStep
<1>0. \A i \in QueueItemIds :
        /\ queue_items'[i].attempt_count = queue_items[i].attempt_count
        /\ RowInv(queue_items[i]) /\ RowInv(queue_items'[i])
        /\ \/ queue_items'[i] = queue_items[i]
           \/ /\ InputCursor(i) = e
              /\ queue_items[i].status \in {Absent, "pending"}
              /\ queue_items'[i].status \in {Absent, "pending", "available", "unhandled"}
  BY DEF BindStep, RowsInv
<1>c. \A c \in queue_claims : /\ c.item \in QueueItemIds
                              /\ queue_items'[c.item] = queue_items[c.item]
                              /\ InputCursor(c.item) \in Nat /\ InputCursor(c.item) < e
  <2> TAKE c \in queue_claims
  <2>1. c.item \in QueueItemIds /\ InputCursor(c.item) < e
    BY <1>t DEF BindStep, TypeOK, ClaimRow
  <2>2. InputCursor(c.item) \in Nat
    BY <2>1, BoundsAssumption DEF QueueItemIds, InputCursor, Events
  <2> QED
    BY <2>1, <2>2 DEF BindStep
<1>1. RowsInv'
  BY <1>0 DEF RowsInv
<1>2. OneTurnPerEvent'
  BY DEF OneTurnPerEvent, BindStep
<1>3. AttemptHistory'
  BY <1>0, <1>u DEF AttemptHistory
<1>4. OutcomeOfLastAttempt'
  <2>1. \A a \in attempts : a.item \in QueueItemIds
    BY <1>t DEF TypeOK, AttemptRow
  <2> QED
    BY <1>0, <1>u, <2>1 DEF OutcomeOfLastAttempt, Absent
<1>5. NoBarrierBefore'
  <2> SUFFICES ASSUME NEW c \in queue_claims, NEW b \in QueueItemIds,
                      InputCursor(b) < InputCursor(c.item)
               PROVE  queue_items'[b].status # "pending"
    BY <1>u DEF NoBarrierBefore
  <2>1. InputCursor(b) # e
    BY <1>c
  <2> QED
    BY <2>1 DEF NoBarrierBefore, BindStep
<1>6. RunsLastAttempt'
  BY <1>c, <1>u DEF RunsLastAttempt, RunningForClaim
<1>7. SessionOrder'
  <2> SUFFICES ASSUME NEW c \in queue_claims, NEW i \in QueueItemIds,
                      queue_items'[i].session = queue_items'[c.item].session,
                      i # c.item
               PROVE  /\ InputCursor(i) < InputCursor(c.item)
                           => queue_items'[i].status \in Terminal \union {Absent}
                      /\ i \notin ItemsOf(queue_claims)
    BY <1>u DEF SessionOrder
  <2>1. CASE InputCursor(i) = e
    BY <1>c, <2>1 DEF ItemsOf
  <2>2. CASE InputCursor(i) # e
    BY <1>c, <2>2 DEF SessionOrder, BindStep
  <2> QED
    BY <2>1, <2>2
<1>8. AttemptBudget'
  BY <1>0, <1>u DEF AttemptBudget
<1>9. SpareAttempt'
  <2> SUFFICES ASSUME NEW i \in QueueItemIds,
                      queue_items'[i].status \in {"available", "claimed"}, ~Runs(i)'
               PROVE  queue_items'[i].attempt_count < MaxAttempts + losses
    BY <1>u DEF SpareAttempt
  <2>1. CASE queue_items'[i] = queue_items[i]
    <3>1. ~Runs(i)
      BY <1>u DEF Runs, CurrentClaims, RunningForClaim
    <3> QED
      BY <2>1, <3>1 DEF SpareAttempt
  <2>2. CASE queue_items[i].status \in {Absent, "pending"}
    <3>1. queue_items[i].attempt_count = 0
      BY <1>0, <2>2 DEF RowInv, Absent
    <3>2. MaxAttempts \in Nat \ {0} /\ losses \in Nat
      BY <1>t, BoundsAssumption DEF TypeOK
    <3> QED
      BY <1>0, <3>1, <3>2
  <2> QED
    BY <1>0, <2>1, <2>2
<1>10. CommitsUnderClaim
  BY <1>u DEF CommitsUnderClaim, AttemptHistory
<1> QED
  BY <1>1, <1>2, <1>3, <1>4, <1>5, <1>6, <1>7, <1>8, <1>9, <1>10

(* An event that is new, or whose barrier stands, has no other item, and   *)
(* no item at or after it is claimed.                                      *)
LEMMA OnlyTheBarrier ==
  ASSUME LockInv, TablesInv, TurnsInv, NEW e \in Events,
         \/ e > last_event
         \/ /\ queue_items[PendingQueueItemId(e)].status = "pending"
            /\ queue_items[PendingQueueItemId(e)].target = Unbound
  PROVE  /\ \A i \in QueueItemIds : InputCursor(i) = e =>
              /\ queue_items[i].status \in {Absent, "pending"}
              /\ i # PendingQueueItemId(e) => queue_items[i].status = Absent
              /\ queue_items[i].target = Unbound
              /\ queue_items[i].attempt_count = 0 /\ ~queue_items[i].cancel
         /\ \A c \in queue_claims : InputCursor(c.item) < e
<1> USE DEF TablesInv, TurnsInv
<1>0. TypeOK /\ last_event \in Nat /\ TableInv(queue_items, last_event) /\ e \in Nat
  BY BoundsAssumption DEF LockInv, TypeOK, Events
<1>1. ASSUME NEW i \in QueueItemIds, InputCursor(i) = e
      PROVE  /\ queue_items[i].status \in {Absent, "pending"}
             /\ i # PendingQueueItemId(e) => queue_items[i].status = Absent
             /\ queue_items[i].target = Unbound
             /\ queue_items[i].attempt_count = 0 /\ ~queue_items[i].cancel
  <2>1. PICK x \in Agents \union {Unbound} : i = <<e, x>>
    BY <1>1 DEF QueueItemIds, InputCursor
  <2>2. /\ queue_items[i].status \in {Absent, "pending"}
        /\ i # PendingQueueItemId(e) => queue_items[i].status = Absent
    BY <1>0, <2>1 DEF TableInv, PendingQueueItemId
  <2>3. RowInv(queue_items[i])
    BY DEF RowsInv
  <2> QED
    BY <2>2, <2>3 DEF RowInv, Absent
<1>2. ASSUME NEW c \in queue_claims PROVE InputCursor(c.item) < e
  <2>1. /\ c.item \in QueueItemIds /\ InputCursor(c.item) <= last_event
        /\ queue_items[c.item].status \in {"available", "claimed"}
    BY StoredItems DEF InputCursor
  <2>2. InputCursor(c.item) \in Nat
    BY <2>1, BoundsAssumption DEF QueueItemIds, InputCursor, Events
  <2>3. InputCursor(c.item) # e
    BY <1>1, <2>1 DEF Absent
  <2>4. CASE e > last_event
    BY <1>0, <2>1, <2>2, <2>4
  <2>5. CASE queue_items[PendingQueueItemId(e)].status = "pending"
    <3>1. PendingQueueItemId(e) \in QueueItemIds /\ InputCursor(PendingQueueItemId(e)) = e
      BY DEF PendingQueueItemId, QueueItemIds, InputCursor
    <3>2. ~(e < InputCursor(c.item))
      BY <2>5, <3>1 DEF NoBarrierBefore
    <3> QED
      BY <1>0, <2>2, <2>3, <3>2
  <2> QED
    BY <2>4, <2>5
<1> QED
  BY <1>1, <1>2

(* ReplayAgrees in the words of the lemmas above.                          *)
LEMMA ReplayIsAgreement ==
  ReplayAgrees <=>
    (replay_ok => Agree(queue_items, replay_items) /\ replay_attempts = WithoutTokens(attempts))
BY DEF ReplayAgrees, Agree, WithoutTokens

(* Ingestion puts a barrier at the end of the input order.                 *)
LEMMA IngestBinds ==
  ASSUME LockInv, ReplayAgrees, TablesInv, TurnsInv, IngestEvent
  PROVE  BindStep(last_event + 1) /\ ReplayAgrees'
<1> DEFINE e == last_event + 1
           p == PendingQueueItemId(e)
<1>0. /\ TypeOK /\ last_event \in Nat /\ e \in Events /\ e > last_event
      /\ p \in QueueItemIds /\ InputCursor(p) = e
  <2>1. TypeOK /\ last_event \in Nat
    BY DEF LockInv, TypeOK
  <2>2. e \in Events /\ e > last_event
    BY <2>1, BoundsAssumption DEF IngestEvent, Events
  <2> QED
    BY <2>1, <2>2 DEF PendingQueueItemId, QueueItemIds, InputCursor
<1>1. /\ queue_items \in [QueueItemIds -> QueueRow]
      /\ replay_items \in [QueueItemIds -> QueueRow]
  BY StoredTables
<1> HIDE DEF p, e
<1>2. /\ \A i \in QueueItemIds : InputCursor(i) = e =>
           /\ queue_items[i].status \in {Absent, "pending"}
           /\ i # p => queue_items[i].status = Absent
           /\ queue_items[i].target = Unbound
           /\ queue_items[i].attempt_count = 0 /\ ~queue_items[i].cancel
      /\ \A c \in queue_claims : InputCursor(c.item) < e
  BY <1>0, OnlyTheBarrier DEF p
<1>3. \A i \in QueueItemIds \ {p} : queue_items'[i] = queue_items[i]
  BY <1>1 DEF IngestEvent, IndexPending, p, e
<1>4. /\ queue_items'[p].target = queue_items[p].target
      /\ queue_items'[p].attempt_count = queue_items[p].attempt_count
      /\ queue_items'[p].cancel = queue_items[p].cancel
      /\ queue_items'[p].status \in {queue_items[p].status, "pending"}
  BY <1>0, <1>1 DEF IngestEvent, IndexPending, p, e, QueueRow
<1>5. RowInv(queue_items'[p])
  BY <1>0, <1>2, <1>4 DEF RowInv, Absent
<1>6. BindStep(e)
  <2>1. \A i \in QueueItemIds : InputCursor(i) # e => queue_items'[i] = queue_items[i]
    BY <1>0, <1>3
  <2>2. ASSUME NEW i \in QueueItemIds, InputCursor(i) = e
        PROVE  /\ queue_items[i].status \in {Absent, "pending"}
               /\ queue_items'[i].status \in {Absent, "pending", "available", "unhandled"}
               /\ queue_items'[i].attempt_count = queue_items[i].attempt_count
               /\ RowInv(queue_items'[i]) /\ queue_items'[i].target = Unbound
    <3>1. CASE i = p
      BY <1>2, <1>4, <1>5, <2>2, <3>1
    <3>2. CASE i # p
      BY <1>2, <1>3, <2>2, <3>2 DEF TablesInv, RowsInv
    <3> QED
      BY <3>1, <3>2
  <2>3. UNCHANGED <<queue_claims, attempts, held, losses>>
    BY DEF IngestEvent
  <2> QED
    BY <1>2, <2>1, <2>2, <2>3 DEF BindStep
<1>7. ReplayAgrees'
  <2>1. ASSUME replay_ok PROVE Agree(queue_items', replay_items')
    <3>1. Agree(queue_items, replay_items)
      BY <2>1, ReplayIsAgreement
    <3>2. /\ queue_items' = IndexPending(queue_items, e)
          /\ replay_items' = IndexPending(replay_items, e)
      BY <2>1 DEF IngestEvent, e
    <3> QED
      BY <1>0, <1>1, <3>1, <3>2, UpdatesKeepAgreement
  <2>2. /\ replay_ok' = replay_ok /\ attempts' = attempts
        /\ replay_attempts' = replay_attempts
    BY DEF IngestEvent
  <2> QED
    BY <2>1, <2>2 DEF ReplayAgrees, Agree
<1> QED
  BY <1>6, <1>7 DEF e

(* Nothing of event e was bound in this table.                             *)
NoneBound(items, e) ==
  \A i \in QueueItemIds : InputCursor(i) = e =>
    /\ items[i].status \in {Absent, "pending"} /\ items[i].target = Unbound
    /\ items[i].attempt_count = 0 /\ ~items[i].cancel

(* A fact that binds one item of the event, or leaves it unhandled.        *)
LEMMA FactBinds ==
  ASSUME LockInv, ReplayAgrees, TablesInv, TurnsInv,
         NEW live \in [QueueItemIds -> QueueRow],
         NEW replayed \in [QueueItemIds -> QueueRow],
         NEW e \in Events, NoneBound(queue_items, e), NoneBound(live, e),
         \A i \in QueueItemIds : InputCursor(i) # e => live[i] = queue_items[i],
         \A c \in queue_claims : InputCursor(c.item) < e,
         replay_ok => Agree(live, replayed),
         NEW f \in QueueFactType, InputCursor(f.item) = e,
         \/ f.status = "available" /\ f.target # Unbound /\ f.session # NoSession
         \/ f.status = "unhandled" /\ f.target = Unbound,
         AppendQueueFact(live, replayed, f),
         UNCHANGED <<queue_claims, held, losses>>
  PROVE  BindStep(e) /\ ReplayAgrees'
<1> DEFINE g == NoAttemptFact
<1>0. /\ TypeOK /\ g \in AttemptFactType /\ g.status # "running" /\ f.item \in QueueItemIds
      /\ AppendFacts(live, replayed, f, g)
  BY DEF LockInv, AttemptFactType, NoAttemptFact, Absent, QueueFactType, AppendQueueFact
<1>1. ReplayAgrees'
  <2>1. replay_ok => Agree(live, replayed) /\ replay_attempts = WithoutTokens(attempts)
    BY ReplayIsAgreement
  <2> HIDE DEF g
  <2> QED
    BY <1>0, <2>1, AppendKeepsReplay
<1>2. queue_items' = IndexAttemptCount(IndexQueueItem(live, f), g) /\ attempts' = attempts
  BY <1>0 DEF AppendFacts, IndexAttempt, NoAttemptFact
<1>3. /\ SameBinding(queue_items'[f.item], IndexedRow(live[f.item], f))
      /\ queue_items'[f.item].attempt_count = live[f.item].attempt_count
      /\ \A i \in QueueItemIds \ {f.item} :
           \/ queue_items'[i] = live[i]
           \/ /\ InputCursor(i) = InputCursor(f.item)
              /\ live[i].target = Unbound /\ queue_items'[i] = NoRow
  BY <1>0, <1>2, FactRow, SMTT(60)
<1> HIDE DEF g
<1>4. /\ queue_items'[f.item].status = f.status
      /\ queue_items'[f.item].target = f.target
      /\ f.session # NoSession => queue_items'[f.item].session = f.session
      /\ queue_items'[f.item].cancel = live[f.item].cancel
  BY <1>3 DEF SameBinding, IndexedRow
<1>5. RowInv(queue_items'[f.item])
  <2>1. live[f.item].attempt_count = 0 /\ ~live[f.item].cancel
    BY <1>0 DEF NoneBound
  <2>2. ~queue_items'[f.item].cancel
    BY <1>4, <2>1, Zenon
  <2> QED
    BY <1>3, <1>4, <2>1, <2>2 DEF RowInv, Absent
<1>6. ASSUME NEW i \in QueueItemIds \ {f.item}, InputCursor(i) = e
      PROVE  /\ queue_items'[i].status \in {Absent, "pending"}
             /\ queue_items'[i].target = Unbound
             /\ queue_items'[i].attempt_count = 0
             /\ RowInv(queue_items'[i])
  <2>1. CASE queue_items'[i] = live[i]
    BY <1>6, <2>1 DEF NoneBound, RowInv
  <2>2. CASE queue_items'[i] = NoRow
    BY <2>2 DEF NoRow, RowInv
  <2> QED
    BY <1>3, <2>1, <2>2
<1>7. \A i \in QueueItemIds : InputCursor(i) # e => queue_items'[i] = queue_items[i]
  BY <1>3
<1>8. ASSUME NEW i \in QueueItemIds, InputCursor(i) = e
      PROVE  /\ queue_items[i].status \in {Absent, "pending"}
             /\ queue_items'[i].status \in {Absent, "pending", "available", "unhandled"}
             /\ queue_items'[i].attempt_count = queue_items[i].attempt_count
             /\ RowInv(queue_items'[i])
             /\ queue_items'[i].target # Unbound => i = f.item
  <2>1. queue_items[i].status \in {Absent, "pending"} /\ queue_items[i].attempt_count = 0
    BY <1>8 DEF NoneBound
  <2>2. CASE i = f.item
    BY <1>3, <1>4, <1>5, <1>8, <2>1, <2>2 DEF NoneBound
  <2>3. CASE i # f.item
    BY <1>6, <1>8, <2>1, <2>3
  <2> QED
    BY <2>2, <2>3
<1>9. BindStep(e)
  BY <1>2, <1>7, <1>8 DEF BindStep
<1> QED
  BY <1>1, <1>9

(* A session message becomes one turn at the end of the input order.       *)
LEMMA SubmitBinds ==
  ASSUME LockInv, ReplayAgrees, TablesInv, TurnsInv,
         NEW m \in MessageTargets, SubmitSessionMessage(m[1], m[2])
  PROVE  BindStep(last_event + 1) /\ ReplayAgrees'
<1> DEFINE e == last_event + 1
           p == PendingQueueItemId(e)
           f == QueueFact(<<e, m[1]>>, m[1], m[2], {}, "available", 0)
           live == IndexPending(queue_items, e)
           replayed == IndexPending(replay_items, e)
<1>0. /\ TypeOK /\ last_event \in Nat /\ e \in Events /\ e > last_event
      /\ p \in QueueItemIds /\ InputCursor(p) = e
  <2>1. TypeOK /\ last_event \in Nat
    BY DEF LockInv, TypeOK
  <2>2. e \in Events /\ e > last_event
    BY <2>1, BoundsAssumption DEF SubmitSessionMessage, Events
  <2> QED
    BY <2>1, <2>2 DEF PendingQueueItemId, QueueItemIds, InputCursor
<1>1. /\ queue_items \in [QueueItemIds -> QueueRow]
      /\ replay_items \in [QueueItemIds -> QueueRow]
  BY StoredTables
<1>2. m[1] \in Agents /\ m[2] \in Sessions /\ m[1] # Unbound /\ m[2] # NoSession
  BY NamesAssumption
<1>3. /\ f \in QueueFactType /\ InputCursor(f.item) = e /\ f.status = "available"
      /\ f.target # Unbound /\ f.session # NoSession
  <2>1. <<e, m[1]>> \in QueueItemIds
    BY <1>0, <1>2 DEF QueueItemIds
  <2>2. f \in QueueFactType
    BY <1>2, <2>1 DEF QueueFact, QueueFactType, QueueItemStatus
  <2>3. /\ f.item = <<e, m[1]>> /\ f.status = "available" /\ f.target = m[1]
        /\ f.session = m[2]
    BY DEF QueueFact
  <2> HIDE DEF f, e
  <2> QED
    BY <1>2, <2>2, <2>3 DEF InputCursor
<1>4. AppendQueueFact(live, replayed, f) /\ UNCHANGED <<queue_claims, held, losses>>
  BY DEF SubmitSessionMessage
<1>5. live \in [QueueItemIds -> QueueRow] /\ replayed \in [QueueItemIds -> QueueRow]
  BY <1>0, <1>1, RowUpdateType
     DEF IndexPending, PendingQueueItemId, QueueItemIds, QueueItemStatus
<1> HIDE DEF e, f
<1>6. NoneBound(queue_items, e) /\ \A c \in queue_claims : InputCursor(c.item) < e
  BY <1>0, OnlyTheBarrier DEF NoneBound
<1>7. \A i \in QueueItemIds \ {p} : live[i] = queue_items[i]
  BY <1>1 DEF IndexPending
<1>8. /\ live[p].target = queue_items[p].target
      /\ live[p].attempt_count = queue_items[p].attempt_count
      /\ live[p].cancel = queue_items[p].cancel
      /\ live[p].status \in {queue_items[p].status, "pending"}
  BY <1>0, <1>1 DEF IndexPending, QueueRow
<1>9. replay_ok => Agree(live, replayed)
  <2>1. ASSUME replay_ok PROVE Agree(queue_items, replay_items)
    BY <2>1, ReplayIsAgreement
  <2> QED
    BY <1>0, <1>1, <2>1, UpdatesKeepAgreement
<1> HIDE DEF live, replayed, p
<1>10. NoneBound(live, e)
  BY <1>0, <1>6, <1>7, <1>8 DEF NoneBound
<1>11. \A i \in QueueItemIds : InputCursor(i) # e => live[i] = queue_items[i]
  BY <1>0, <1>7
<1> QED
  BY <1>0, <1>3, <1>4, <1>5, <1>6, <1>9, <1>10, <1>11, FactBinds DEF e

(* Routing replaces the barrier of an event by the turns of its plan.      *)
LEMMA RouteBinds ==
  ASSUME LockInv, ReplayAgrees, TablesInv, TurnsInv,
         NEW e \in Events, NEW plan \in RoutePlans, RouteIngressEvent(e, plan)
  PROVE  BindStep(e) /\ ReplayAgrees'
<1> DEFINE p == PendingQueueItemId(e)
<1>0. /\ TypeOK /\ p \in QueueItemIds /\ InputCursor(p) = e
      /\ queue_items \in [QueueItemIds -> QueueRow]
      /\ replay_items \in [QueueItemIds -> QueueRow]
  BY StoredTables DEF LockInv, PendingQueueItemId, QueueItemIds, InputCursor
<1>1. /\ queue_items[p].status = "pending" /\ queue_items[p].target = Unbound
      /\ UNCHANGED <<queue_claims, held, losses>>
  BY DEF RouteIngressEvent
<1>2. NoneBound(queue_items, e) /\ \A c \in queue_claims : InputCursor(c.item) < e
  BY <1>1, OnlyTheBarrier DEF NoneBound
<1>3. /\ plan \subseteq Agents /\ Unbound \notin Agents
      /\ \A a \in Agents : SessionOf[a][e] \in Sessions /\ SessionOf[a][e] # NoSession
  BY NamesAssumption
<1>4. replay_ok => Agree(queue_items, replay_items)
  BY ReplayIsAgreement
<1>5. CASE AppendQueueFact(queue_items, replay_items,
             QueueFact(p, Unbound, NoSession, {}, "unhandled", 0))
  <2> DEFINE f == QueueFact(p, Unbound, NoSession, {}, "unhandled", 0)
  <2>1. /\ f \in QueueFactType /\ InputCursor(f.item) = e /\ f.status = "unhandled"
        /\ f.target = Unbound
    BY <1>0 DEF QueueFact, QueueFactType, QueueItemStatus
  <2> HIDE DEF f, p
  <2> QED
    BY <1>0, <1>1, <1>2, <1>4, <1>5, <2>1, FactBinds DEF f
<1>6. ASSUME NEW a \in plan,
             AppendQueueFact(queue_items, replay_items, RouteFact(p, e, a))
      PROVE  BindStep(e) /\ ReplayAgrees'
  <2> DEFINE f == RouteFact(p, e, a)
  <2>1. /\ f \in QueueFactType /\ InputCursor(f.item) = e /\ f.status = "available"
        /\ f.target # Unbound /\ f.session # NoSession
    BY <1>0, <1>3, NamesAssumption
       DEF RouteFact, QueueFact, QueueFactType, QueueItemStatus
  <2> HIDE DEF f, p
  <2> QED
    BY <1>0, <1>1, <1>2, <1>4, <1>6, <2>1, FactBinds DEF f
<1>7. CASE FanOut(e, plan)
  <2>1. queue_items' = IndexFanOut(queue_items, e, plan) /\ attempts' = attempts
    BY <1>7 DEF FanOut
  <2>2. ASSUME NEW i \in QueueItemIds
        PROVE  /\ InputCursor(i) # e => queue_items'[i] = queue_items[i]
               /\ InputCursor(i) = e /\ i[2] \in plan =>
                    /\ queue_items'[i].status = "available" /\ queue_items'[i].target = i[2]
                    /\ queue_items'[i].session = SessionOf[i[2]][e]
                    /\ queue_items'[i].attempt_count = queue_items[i].attempt_count
               /\ InputCursor(i) = e /\ i[2] \notin plan =>
                    queue_items'[i] = NoRow \/ queue_items'[i] = queue_items[i]
    <3>1. CASE InputCursor(i) # e
      BY <1>0, <2>1, <3>1 DEF IndexFanOut, InputCursor
    <3>2. CASE InputCursor(i) = e /\ i[2] \in plan
      <4>1. queue_items'[i] = IndexedRow(queue_items[i], RouteFact(i, e, i[2]))
        BY <2>1, <3>2 DEF IndexFanOut, InputCursor
      <4> QED
        BY <1>3, <3>2, <4>1, SMTT(60) DEF IndexedRow, RouteFact, QueueFact
    <3>3. CASE InputCursor(i) = e /\ i[2] \notin plan
      BY <2>1, <3>3 DEF IndexFanOut
    <3> QED
      BY <3>1, <3>2, <3>3
  <2>3. ASSUME NEW i \in QueueItemIds, InputCursor(i) = e
        PROVE  /\ queue_items[i].status \in {Absent, "pending"}
               /\ queue_items'[i].status \in {Absent, "pending", "available", "unhandled"}
               /\ queue_items'[i].attempt_count = queue_items[i].attempt_count
               /\ RowInv(queue_items'[i])
               /\ queue_items'[i].target # Unbound =>
                    i[2] \in plan /\ queue_items'[i].session = SessionOf[i[2]][e]
    <3>1. /\ queue_items[i].status \in {Absent, "pending"} /\ queue_items[i].target = Unbound
          /\ queue_items[i].attempt_count = 0 /\ ~queue_items[i].cancel
      BY <1>2, <2>3 DEF NoneBound
    <3>2. CASE i[2] \in plan
      <4>1. queue_items'[i].cancel = queue_items[i].cancel
        <5>1. queue_items'[i] = IndexedRow(queue_items[i], RouteFact(i, e, i[2]))
          BY <2>1, <2>3, <3>2 DEF IndexFanOut, InputCursor
        <5> QED
          BY <5>1 DEF IndexedRow
      <4> QED
        BY <1>3, <2>2, <2>3, <3>1, <3>2, <4>1 DEF RowInv, Absent
    <3>3. CASE queue_items'[i] = NoRow
      BY <3>1, <3>3 DEF NoRow, RowInv
    <3>4. CASE queue_items'[i] = queue_items[i]
      BY <3>1, <3>4 DEF RowInv
    <3> QED
      BY <2>2, <2>3, <3>2, <3>3, <3>4
  <2>4. ASSUME NEW i \in QueueItemIds, NEW j \in QueueItemIds,
               InputCursor(i) = e, InputCursor(j) = e,
               queue_items'[i].target # Unbound, queue_items'[j].target # Unbound,
               queue_items'[i].session = queue_items'[j].session
        PROVE  i = j
    <3>1. i[2] = j[2]
      BY <1>3, <2>3, <2>4, SessionsAreAgentScoped
    <3>2. i = <<i[1], i[2]>> /\ j = <<j[1], j[2]>>
      BY DEF QueueItemIds
    <3> QED
      BY <2>4, <3>1, <3>2 DEF InputCursor
  <2>5. BindStep(e)
    BY <1>1, <1>2, <2>1, <2>2, <2>3, <2>4, SMTT(60) DEF BindStep
  <2>6. ReplayAgrees'
    <3>1. ASSUME replay_ok' PROVE replay_ok /\ replay_items' = IndexFanOut(replay_items, e, plan)
      BY <1>7, <3>1, Zenon DEF FanOut
    <3>2. ASSUME replay_ok' PROVE Agree(queue_items', replay_items')
      BY <1>0, <1>4, <2>1, <3>1, <3>2, UpdatesKeepAgreement
    <3>3. attempts' = attempts /\ replay_attempts' = replay_attempts
      BY <1>7 DEF FanOut
    <3> QED
      BY <3>1, <3>2, <3>3 DEF ReplayAgrees, Agree
  <2> QED
    BY <2>5, <2>6
<1> QED
  BY <1>5, <1>6, <1>7 DEF RouteIngressEvent
=============================================================================
