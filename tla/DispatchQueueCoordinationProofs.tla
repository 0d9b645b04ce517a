------------------ MODULE DispatchQueueCoordinationProofs ------------------
(***************************************************************************)
(* Mutual exclusion on lock keys, for every number of events, agents,      *)
(* workers, tokens and keys.                                               *)
(*                                                                         *)
(* LockExclusion and LocksFollowClaims are not inductive: a lock key could *)
(* change hands if the lock keys of a claimed item could change.  They     *)
(* cannot, because a claimed item is bound to an agent (so a later fact    *)
(* never deletes its row as a routing barrier) and because an event whose  *)
(* barrier still stands has no other item (so routing never rewrites a     *)
(* claimed row).  TableInv says that of a table, ClaimInv of the claims.   *)
(***************************************************************************)
EXTENDS DispatchQueueProofs

(* Both provers are given time on every leaf that names none.              *)
USE ZenonT(5), SMTT(20)

(* A table of queue items in which n events were accepted: runnable items  *)
(* are bound, a standing barrier is the only item of its event, and later  *)
(* events have no items.                                                   *)
TableInv(items, n) ==
  \A e \in Events : \A x \in Agents \union {Unbound} :
    /\ items[<<e, x>>].status \in {"available", "claimed"} =>
         items[<<e, x>>].target # Unbound
    /\ /\ items[<<e, Unbound>>].status = "pending"
       /\ items[<<e, Unbound>>].target = Unbound
       /\ x # Unbound
       => items[<<e, x>>].status = Absent
    /\ e > n => items[<<e, x>>].status = Absent

(* Claims are unique by token and by item, and claimed items are runnable. *)
ClaimInv ==
  /\ \A c, d \in queue_claims : c.token = d.token \/ c.item = d.item => c = d
  /\ \A c \in queue_claims : queue_items[c.item].status \in {"available", "claimed"}

LockInv ==
  /\ TypeOK
  /\ TableInv(queue_items, last_event)
  /\ TableInv(replay_items, last_event)
  /\ ClaimInv
  /\ LocksFollowClaims
  /\ LockExclusion

-----------------------------------------------------------------------------
(* What one appended fact does to the rows of a table.                     *)

(* Two rows that differ at most in attempt_count.                          *)
SameBinding(r, s) ==
  /\ r.status = s.status /\ r.target = s.target /\ r.session = s.session
  /\ r.locks = s.locks /\ r.delay = s.delay /\ r.cancel = s.cancel

(* index_attempt changes attempt_count and nothing else of a queue item.   *)
LEMMA CountKeepsBinding ==
  ASSUME NEW items \in [QueueItemIds -> QueueRow], NEW g \in AttemptFactType,
         NEW i \in QueueItemIds
  PROVE  SameBinding(IndexAttemptCount(items, g)[i], items[i])
<1>1. CASE g = NoAttemptFact
  BY <1>1 DEF IndexAttemptCount, NoAttemptFact, Absent, SameBinding
<1>2. CASE g \in AttemptRow
  BY <1>2 DEF IndexAttemptCount, AttemptRow, QueueRow, SameBinding
<1> QED
  BY <1>1, <1>2 DEF AttemptFactType

(* The row a fact is about gets the fact's status and binding; the barrier *)
(* of its event is deleted if nobody owns it; every other row is kept.     *)
LEMMA AppendedRow ==
  ASSUME NEW items \in [QueueItemIds -> QueueRow], NEW f \in QueueFactType,
         NEW g \in AttemptFactType, NEW i \in QueueItemIds
  PROVE  LET r == IndexAttemptCount(IndexQueueItem(items, f), g)[i]
         IN  /\ i = f.item => SameBinding(r, IndexedRow(items[i], f))
             /\ /\ i # f.item
                /\ i = PendingQueueItemId(f.item[1]) /\ items[i].target = Unbound
                => SameBinding(r, NoRow)
             /\ /\ i # f.item
                /\ ~(i = PendingQueueItemId(f.item[1]) /\ items[i].target = Unbound)
                => SameBinding(r, items[i])
<1>1. IndexQueueItem(items, f) \in [QueueItemIds -> QueueRow]
  BY IndexQueueItemType
<1>2. SameBinding(IndexAttemptCount(IndexQueueItem(items, f), g)[i],
                  IndexQueueItem(items, f)[i])
  BY <1>1, CountKeepsBinding
<1> QED
  BY <1>2 DEF IndexQueueItem

(* A fact the queue appends for an accepted event, binding what it makes   *)
(* runnable, keeps TableInv.                                               *)
LEMMA FactKeepsTableInv ==
  ASSUME NEW items \in [QueueItemIds -> QueueRow], NEW f \in QueueFactType,
         NEW g \in AttemptFactType, NEW n \in Nat, TableInv(items, n),
         f.status # "pending",
         f.status \in {"available", "claimed"} => f.target # Unbound,
         f.item[1] <= n
  PROVE  TableInv(IndexAttemptCount(IndexQueueItem(items, f), g), n)
<1> DEFINE new == IndexAttemptCount(IndexQueueItem(items, f), g)
<1> SUFFICES ASSUME NEW e \in Events, NEW x \in Agents \union {Unbound}
             PROVE  /\ new[<<e, x>>].status \in {"available", "claimed"} =>
                         new[<<e, x>>].target # Unbound
                    /\ /\ new[<<e, Unbound>>].status = "pending"
                       /\ new[<<e, Unbound>>].target = Unbound
                       /\ x # Unbound
                       => new[<<e, x>>].status = Absent
                    /\ e > n => new[<<e, x>>].status = Absent
  BY DEF TableInv
<1> DEFINE i == <<e, x>>
           b == <<e, Unbound>>
<1>1. i \in QueueItemIds /\ b \in QueueItemIds
  BY DEF QueueItemIds
<1>2. \A j \in QueueItemIds :
         /\ j = f.item => new[j].status = f.status /\ new[j].target = f.target
         /\ /\ j # f.item
            /\ j = PendingQueueItemId(f.item[1]) /\ items[j].target = Unbound
            => new[j].status = Absent /\ new[j].target = Unbound
         /\ /\ j # f.item
            /\ ~(j = PendingQueueItemId(f.item[1]) /\ items[j].target = Unbound)
            => new[j].status = items[j].status /\ new[j].target = items[j].target
  <2> TAKE j \in QueueItemIds
  <2>1. /\ j = f.item => SameBinding(new[j], IndexedRow(items[j], f))
        /\ /\ j # f.item
           /\ j = PendingQueueItemId(f.item[1]) /\ items[j].target = Unbound
           => SameBinding(new[j], NoRow)
        /\ /\ j # f.item
           /\ ~(j = PendingQueueItemId(f.item[1]) /\ items[j].target = Unbound)
           => SameBinding(new[j], items[j])
    BY AppendedRow
  <2> HIDE DEF new
  <2> QED
    BY <2>1 DEF SameBinding, IndexedRow, NoRow
<1> HIDE DEF new
<1>3. f.item \in QueueItemIds /\ f.item = <<f.item[1], f.item[2]>>
  BY DEF QueueFactType, QueueItemIds
<1>4. /\ items[i].status \in {"available", "claimed"} => items[i].target # Unbound
      /\ /\ items[b].status = "pending" /\ items[b].target = Unbound
         /\ x # Unbound
         => items[i].status = Absent
      /\ e > n => items[i].status = Absent
  BY DEF TableInv
<1>5. new[i].status \in {"available", "claimed"} => new[i].target # Unbound
  BY <1>1, <1>2, <1>4 DEF Absent
<1>6. ASSUME new[b].status = "pending", new[b].target = Unbound, x # Unbound
      PROVE  new[i].status = Absent
  <2>1. b # f.item /\ new[b].status = items[b].status /\ new[b].target = items[b].target
        /\ ~(b = PendingQueueItemId(f.item[1]) /\ items[b].target = Unbound)
    BY <1>1, <1>2, <1>6 DEF Absent
  <2>2. f.item[1] # e
    BY <1>6, <2>1 DEF PendingQueueItemId
  <2>3. i # f.item /\ i # PendingQueueItemId(f.item[1])
    BY <1>3, <1>6, <2>2 DEF PendingQueueItemId
  <2> QED
    BY <1>1, <1>2, <1>4, <1>6, <2>1, <2>3
<1>7. ASSUME e > n PROVE new[i].status = Absent
  <2>1. f.item[1] # e
    BY <1>7, <1>3 DEF Events, QueueItemIds
  <2>2. i # f.item /\ i # PendingQueueItemId(f.item[1])
    BY <1>3, <2>1 DEF PendingQueueItemId
  <2> QED
    BY <1>1, <1>2, <1>4, <1>7, <2>2
<1> QED
  BY <1>5, <1>6, <1>7

(* The two tables after a transaction that appends a queue fact and maybe  *)
(* an attempt fact.                                                        *)
LEMMA AppendKeepsTableInv ==
  ASSUME NEW live \in [QueueItemIds -> QueueRow],
         NEW replayed \in [QueueItemIds -> QueueRow],
         NEW f \in QueueFactType, NEW g \in AttemptFactType, NEW n \in Nat,
         TableInv(live, n), TableInv(replayed, n), TableInv(replay_items, n),
         f.status # "pending",
         f.status \in {"available", "claimed"} => f.target # Unbound,
         f.item[1] <= n,
         AppendFacts(live, replayed, f, g)
  PROVE  /\ TableInv(queue_items', n)
         /\ TableInv(replay_items', n)
         /\ queue_items'[f.item].status = f.status
         /\ queue_items'[f.item].locks = IF f.locks = {} THEN live[f.item].locks ELSE f.locks
         /\ \A i \in QueueItemIds \ {f.item} : live[i].target # Unbound =>
              /\ queue_items'[i].status = live[i].status
              /\ queue_items'[i].locks = live[i].locks
<1>1. TableInv(queue_items', n)
  <2>1. queue_items' = IndexAttemptCount(IndexQueueItem(live, f), g)
    BY DEF AppendFacts
  <2> QED
    BY <2>1, FactKeepsTableInv
<1>2. TableInv(replay_items', n)
  <2>1. \/ replay_items' = IndexAttemptCount(IndexQueueItem(replayed, f), g)
        \/ replay_items' = replay_items
    BY DEF AppendFacts
  <2>2. TableInv(IndexAttemptCount(IndexQueueItem(replayed, f), g), n)
    BY FactKeepsTableInv
  <2> QED
    BY <2>1, <2>2
<1>3. f.item \in QueueItemIds
  BY DEF QueueFactType
<1>4. SameBinding(queue_items'[f.item], IndexedRow(live[f.item], f))
  BY <1>3, AppendedRow DEF AppendFacts
<1>5. \A i \in QueueItemIds \ {f.item} : live[i].target # Unbound =>
        SameBinding(queue_items'[i], live[i])
  BY AppendedRow DEF AppendFacts
<1> QED
  BY <1>1, <1>2, <1>4, <1>5 DEF SameBinding, IndexedRow

(* The other updates of a table.                                           *)
LEMMA UpdatesKeepTableInv ==
  ASSUME NEW items \in [QueueItemIds -> QueueRow], NEW n \in Nat, TableInv(items, n)
  PROVE  /\ \A ids : TableInv(Recovered(items, ids), n)
         /\ TableInv(Later(items), n)
         /\ \A i \in QueueItemIds : TableInv(IndexCancelRequested(items, i), n)
         /\ TableInv(items, n + 1)
         /\ n + 1 \in Events => TableInv(IndexPending(items, n + 1), n + 1)
<1>0. \A e \in Events, x \in Agents \union {Unbound} : <<e, x>> \in QueueItemIds
  BY DEF QueueItemIds
<1>1. ASSUME NEW ids PROVE TableInv(Recovered(items, ids), n)
  <2>1. \A i \in QueueItemIds :
          /\ Recovered(items, ids)[i].target = items[i].target
          /\ \/ Recovered(items, ids)[i].status = items[i].status
             \/ /\ Recovered(items, ids)[i].status = "available"
                /\ items[i].status = "claimed"
    BY DEF Recovered, QueueRow
  <2> DEFINE new == Recovered(items, ids)
  <2> HIDE DEF new
  <2>2. ASSUME NEW e \in Events, NEW x \in Agents \union {Unbound}
        PROVE  /\ new[<<e, x>>].status \in {"available", "claimed"} =>
                    new[<<e, x>>].target # Unbound
               /\ /\ new[<<e, Unbound>>].status = "pending"
                  /\ new[<<e, Unbound>>].target = Unbound
                  /\ x # Unbound
                  => new[<<e, x>>].status = Absent
               /\ e > n => new[<<e, x>>].status = Absent
    BY <1>0, <2>1 DEF TableInv, Absent, new
  <2> QED
    BY <2>2 DEF TableInv, new
<1>2. TableInv(Later(items), n)
  <2> DEFINE new == Later(items)
  <2>1. \A i \in QueueItemIds : /\ new[i].target = items[i].target
                               /\ new[i].status = items[i].status
    BY DEF Later, QueueRow
  <2> HIDE DEF new
  <2>2. ASSUME NEW e \in Events, NEW x \in Agents \union {Unbound}
        PROVE  /\ new[<<e, x>>].status \in {"available", "claimed"} =>
                    new[<<e, x>>].target # Unbound
               /\ /\ new[<<e, Unbound>>].status = "pending"
                  /\ new[<<e, Unbound>>].target = Unbound
                  /\ x # Unbound
                  => new[<<e, x>>].status = Absent
               /\ e > n => new[<<e, x>>].status = Absent
    <3>1. /\ new[<<e, x>>].target = items[<<e, x>>].target
          /\ new[<<e, x>>].status = items[<<e, x>>].status
          /\ new[<<e, Unbound>>].target = items[<<e, Unbound>>].target
          /\ new[<<e, Unbound>>].status = items[<<e, Unbound>>].status
      BY <1>0, <2>1
    <3> QED
      BY <3>1 DEF TableInv
  <2> QED
    BY <2>2 DEF TableInv, new
<1>3. ASSUME NEW i \in QueueItemIds PROVE TableInv(IndexCancelRequested(items, i), n)
  <2> DEFINE new == IndexCancelRequested(items, i)
  <2>1. \A j \in QueueItemIds : /\ new[j].target = items[j].target
                               /\ new[j].status = items[j].status
    BY DEF IndexCancelRequested, QueueRow
  <2> HIDE DEF new
  <2>2. ASSUME NEW e \in Events, NEW x \in Agents \union {Unbound}
        PROVE  /\ new[<<e, x>>].status \in {"available", "claimed"} =>
                    new[<<e, x>>].target # Unbound
               /\ /\ new[<<e, Unbound>>].status = "pending"
                  /\ new[<<e, Unbound>>].target = Unbound
                  /\ x # Unbound
                  => new[<<e, x>>].status = Absent
               /\ e > n => new[<<e, x>>].status = Absent
    <3>1. /\ new[<<e, x>>].target = items[<<e, x>>].target
          /\ new[<<e, x>>].status = items[<<e, x>>].status
          /\ new[<<e, Unbound>>].target = items[<<e, Unbound>>].target
          /\ new[<<e, Unbound>>].status = items[<<e, Unbound>>].status
      BY <1>0, <2>1
    <3> QED
      BY <3>1 DEF TableInv
  <2> QED
    BY <2>2 DEF TableInv, new
<1>4. TableInv(items, n + 1)
  <2>1. \A e \in Events : e > n + 1 => e > n
    BY BoundsAssumption DEF Events
  <2> QED
    BY <2>1 DEF TableInv
<1>5. ASSUME n + 1 \in Events PROVE TableInv(IndexPending(items, n + 1), n + 1)
  <2> DEFINE new == IndexPending(items, n + 1)
  <2>1. \A j \in QueueItemIds :
          /\ new[j].target = items[j].target
          /\ \/ new[j].status = items[j].status
             \/ j = <<n + 1, Unbound>> /\ new[j].status = "pending"
    BY DEF IndexPending, PendingQueueItemId, QueueRow
  <2> HIDE DEF new
  <2> SUFFICES ASSUME NEW e \in Events, NEW x \in Agents \union {Unbound}
               PROVE  /\ new[<<e, x>>].status \in {"available", "claimed"} =>
                           new[<<e, x>>].target # Unbound
                      /\ /\ new[<<e, Unbound>>].status = "pending"
                         /\ new[<<e, Unbound>>].target = Unbound
                         /\ x # Unbound
                         => new[<<e, x>>].status = Absent
                      /\ e > n + 1 => new[<<e, x>>].status = Absent
    BY DEF TableInv, new
  <2>2. new[<<e, x>>].status \in {"available", "claimed"} => new[<<e, x>>].target # Unbound
    BY <1>0, <2>1 DEF TableInv
  <2>3. /\ new[<<e, Unbound>>].status = "pending" /\ new[<<e, Unbound>>].target = Unbound
        /\ x # Unbound
        => new[<<e, x>>].status = Absent
    <3>1. CASE e = n + 1
      BY <1>0, <2>1, <3>1 DEF TableInv, Events
    <3>2. CASE e # n + 1
      BY <1>0, <2>1, <3>2 DEF TableInv
    <3> QED
      BY <3>1, <3>2
  <2>4. e > n + 1 => new[<<e, x>>].status = Absent
    <3>1. ASSUME e > n + 1 PROVE e > n /\ e # n + 1
      BY <3>1, BoundsAssumption DEF Events
    <3> QED
      BY <1>0, <2>1, <3>1 DEF TableInv
  <2> QED
    BY <2>2, <2>3, <2>4
<1> QED
  BY <1>1, <1>2, <1>3, <1>4, <1>5

-----------------------------------------------------------------------------
(* Claims and locks.                                                       *)

ClaimsAndLocks == ClaimInv /\ LocksFollowClaims /\ LockExclusion

(* A step that deletes claims with the locks of their tokens, and keeps    *)
(* the remaining claimed items runnable with the same keys, keeps the      *)
(* claims and locks consistent.                                            *)
LEMMA FewerClaims ==
  ASSUME TypeOK, ClaimsAndLocks, NEW gone \in SUBSET queue_claims,
         queue_claims' = queue_claims \ gone, locks' = LocksWithout(gone),
         \A c \in queue_claims \ gone :
           /\ queue_items'[c.item].status \in {"available", "claimed"}
           /\ queue_items'[c.item].locks = queue_items[c.item].locks
  PROVE  ClaimsAndLocks'
<1> USE DEF ClaimsAndLocks
<1>1. ClaimInv'
  BY DEF ClaimInv
<1>2. LocksFollowClaims'
  <2>1. ASSUME NEW l \in locks'
        PROVE  \E c \in queue_claims' : /\ l.owner = c.token /\ l.left = c.left
                                        /\ l.key \in queue_items'[c.item].locks
    <3>1. PICK c \in queue_claims : /\ l.owner = c.token /\ l.left = c.left
                                    /\ l.key \in queue_items[c.item].locks
      BY DEF LocksWithout, LocksFollowClaims
    <3>2. c \notin gone
      BY <3>1 DEF LocksWithout
    <3> QED
      BY <3>1, <3>2
  <2>2. ASSUME NEW c \in queue_claims', NEW k \in queue_items'[c.item].locks
        PROVE  [key |-> k, owner |-> c.token, left |-> c.left] \in locks'
    <3>1. [key |-> k, owner |-> c.token, left |-> c.left] \in locks
      BY DEF LocksFollowClaims
    <3>2. \A d \in gone : d.token # c.token
      BY DEF ClaimInv
    <3> QED
      BY <3>1, <3>2 DEF LocksWithout
  <2> QED
    BY <2>1, <2>2 DEF LocksFollowClaims
<1>3. LockExclusion'
  BY DEF LockExclusion
<1> QED
  BY <1>1, <1>2, <1>3

(* A step that leaves the claims and their items' keys alone.              *)
LEMMA SameClaims ==
  ASSUME TypeOK, ClaimsAndLocks, UNCHANGED <<queue_claims, locks>>,
         \A c \in queue_claims :
           /\ queue_items'[c.item].status \in {"available", "claimed"}
           /\ queue_items'[c.item].locks = queue_items[c.item].locks
  PROVE  ClaimsAndLocks'
<1>1. queue_claims' = queue_claims \ {} /\ locks' = LocksWithout({})
  BY DEF LocksWithout
<1> QED
  BY <1>1, FewerClaims

(* Renewal gives the claim and all its locks the same new lease.           *)
LEMMA RenewKeepsLocks ==
  ASSUME TypeOK, ClaimsAndLocks, NEW w \in Workers, RenewClaim(w)
  PROVE  ClaimsAndLocks'
<1> USE DEF ClaimsAndLocks
<1>1. PICK c \in queue_claims :
        /\ queue_claims' = (queue_claims \ {c}) \union {[c EXCEPT !.left = Lease]}
        /\ locks' = {IF l.owner = c.token THEN [l EXCEPT !.left = Lease] ELSE l :
                       l \in locks}
  BY DEF RenewClaim, CurrentClaims
<1> DEFINE c2 == [c EXCEPT !.left = Lease]
<1>2. queue_items' = queue_items
  BY DEF RenewClaim
<1>3. c2.item = c.item /\ c2.token = c.token /\ c2.left = Lease
  BY DEF TypeOK, ClaimRow
<1>4. \A l \in locks : LET m == [l EXCEPT !.left = Lease]
                       IN  m.key = l.key /\ m.owner = l.owner /\ m.left = Lease
  BY DEF TypeOK, LockRow
<1> HIDE DEF c2
<1>5. queue_claims' = (queue_claims \ {c}) \union {c2}
  BY <1>1 DEF c2
<1>6. ClaimInv'
  BY <1>2, <1>3, <1>5 DEF ClaimInv
<1>7. LocksFollowClaims'
  <2>1. ASSUME NEW m \in locks'
        PROVE  \E d \in queue_claims' : /\ m.owner = d.token /\ m.left = d.left
                                        /\ m.key \in queue_items'[d.item].locks
    <3>1. PICK l \in locks : m = IF l.owner = c.token THEN [l EXCEPT !.left = Lease] ELSE l
      BY <1>1
    <3>2. PICK d \in queue_claims : /\ l.owner = d.token /\ l.left = d.left
                                    /\ l.key \in queue_items[d.item].locks
      BY DEF LocksFollowClaims
    <3>3. CASE l.owner = c.token
      BY <1>2, <1>3, <1>4, <1>5, <3>1, <3>2, <3>3 DEF ClaimInv
    <3>4. CASE l.owner # c.token
      BY <1>2, <1>5, <3>1, <3>2, <3>4
    <3> QED
      BY <3>3, <3>4
  <2>2. ASSUME NEW d \in queue_claims', NEW k \in queue_items'[d.item].locks
        PROVE  [key |-> k, owner |-> d.token, left |-> d.left] \in locks'
    <3>1. CASE d = c2
      <4> DEFINE l == [key |-> k, owner |-> c.token, left |-> c.left]
      <4>1. l \in locks
        BY <1>2, <1>3, <3>1 DEF LocksFollowClaims
      <4>2. [l EXCEPT !.left = Lease] = [key |-> k, owner |-> d.token, left |-> d.left]
        BY <1>3, <3>1
      <4>3. [l EXCEPT !.left = Lease] \in locks'
        BY <1>1, <4>1
      <4> QED
        BY <4>2, <4>3
    <3>2. CASE d # c2
      <4> DEFINE l == [key |-> k, owner |-> d.token, left |-> d.left]
      <4>1. d \in queue_claims /\ d # c
        BY <1>5, <3>2
      <4>2. l \in locks
        BY <1>2, <4>1 DEF LocksFollowClaims
      <4>3. l.owner # c.token
        BY <4>1 DEF ClaimInv
      <4> HIDE DEF l
      <4>4. l \in locks'
        BY <1>1, <4>2, <4>3
      <4> QED
        BY <4>4 DEF l
    <3> QED
      BY <3>1, <3>2
  <2> QED
    BY <2>1, <2>2 DEF LocksFollowClaims
<1>8. LockExclusion'
  BY <1>2, <1>3, <1>5 DEF LockExclusion
<1> QED
  BY <1>6, <1>7, <1>8

(* Time passes for a claim and its locks alike.                            *)
LEMMA TickKeepsLocks ==
  ASSUME TypeOK, ClaimsAndLocks, Tick
  PROVE  ClaimsAndLocks'
<1> USE DEF ClaimsAndLocks
<1> DEFINE older(r) == [r EXCEPT !.left = Dec(r.left)]
<1>1. /\ queue_claims' = {older(c) : c \in queue_claims}
      /\ locks' = {older(l) : l \in locks}
  BY DEF Tick
<1>2. \A i \in QueueItemIds : /\ queue_items'[i].status = queue_items[i].status
                             /\ queue_items'[i].locks = queue_items[i].locks
  BY DEF Tick, Later, TypeOK, QueueRow
<1>3. \A c \in queue_claims : /\ older(c).item = c.item /\ older(c).token = c.token
                              /\ older(c).left = Dec(c.left)
                              /\ c.item \in QueueItemIds
  BY DEF TypeOK, ClaimRow
<1>4. \A l \in locks : /\ older(l).key = l.key /\ older(l).owner = l.owner
                       /\ older(l).left = Dec(l.left)
  BY DEF TypeOK, LockRow
<1>5. ASSUME NEW k, NEW t, NEW n
      PROVE  older([key |-> k, owner |-> t, left |-> n])
               = [key |-> k, owner |-> t, left |-> Dec(n)]
  OBVIOUS
<1> HIDE DEF older
<1>6. ClaimInv'
  BY <1>1, <1>2, <1>3 DEF ClaimInv
<1>7. LocksFollowClaims'
  <2>1. ASSUME NEW m \in locks'
        PROVE  \E d \in queue_claims' : /\ m.owner = d.token /\ m.left = d.left
                                        /\ m.key \in queue_items'[d.item].locks
    <3>1. PICK l \in locks : m = older(l)
      BY <1>1
    <3>2. PICK c \in queue_claims : /\ l.owner = c.token /\ l.left = c.left
                                    /\ l.key \in queue_items[c.item].locks
      BY DEF LocksFollowClaims
    <3> QED
      BY <1>1, <1>2, <1>3, <1>4, <3>1, <3>2
  <2>2. ASSUME NEW d \in queue_claims', NEW k \in queue_items'[d.item].locks
        PROVE  [key |-> k, owner |-> d.token, left |-> d.left] \in locks'
    <3>1. PICK c \in queue_claims : d = older(c)
      BY <1>1
    <3>2. [key |-> k, owner |-> c.token, left |-> c.left] \in locks
      BY <1>2, <1>3, <3>1 DEF LocksFollowClaims
    <3>3. older([key |-> k, owner |-> c.token, left |-> c.left]) \in locks'
      BY <1>1, <3>2
    <3>4. [key |-> k, owner |-> c.token, left |-> Dec(c.left)] \in locks'
      BY <1>5, <3>3
    <3> QED
      BY <1>3, <3>1, <3>4
  <2> QED
    BY <2>1, <2>2 DEF LocksFollowClaims
<1>8. LockExclusion'
  BY <1>1, <1>2, <1>3 DEF LockExclusion
<1> QED
  BY <1>6, <1>7, <1>8

(* A claim takes the keys of its item, none of which another claim holds.  *)
LEMMA ClaimKeepsLocks ==
  ASSUME TypeOK, ClaimsAndLocks, NEW w \in Workers, ClaimNextQueueItem(w)
  PROVE  ClaimsAndLocks'
<1> USE DEF ClaimsAndLocks
<1> DEFINE items == Recovered(queue_items, ItemsOf(ExpiredClaims))
           claims == queue_claims \ ExpiredClaims
           rows == LocksWithout(ExpiredClaims)
           free == {i \in ClaimCandidates(items, claims) : LocksAreAvailable(rows, i)}
<1>1. queue_items' = items
  BY DEF ClaimNextQueueItem
<1>2. \A i \in QueueItemIds : /\ items[i].locks = queue_items[i].locks
                             /\ \/ items[i].status = queue_items[i].status
                                \/ items[i].status = "available"
  BY DEF Recovered, TypeOK, QueueRow
<1>3. \A c \in queue_claims : c.item \in QueueItemIds
  BY DEF TypeOK, ClaimRow
<1> HIDE DEF items
<1>4. CASE queue_claims' = claims /\ locks' = rows
  <2>1. ExpiredClaims \in SUBSET queue_claims
    BY DEF ExpiredClaims
  <2>2. \A c \in claims : /\ queue_items'[c.item].status \in {"available", "claimed"}
                          /\ queue_items'[c.item].locks = queue_items[c.item].locks
    BY <1>1, <1>2, <1>3 DEF ClaimInv
  <2> QED
    BY <1>4, <2>1, <2>2, FewerClaims
<1>5. ASSUME NEW i \in free, NEW t \in Tokens \ TokensInUse,
             queue_claims' = claims \union
               {[item |-> i, worker |-> w, token |-> t, left |-> Lease]},
             locks' = rows \union
               {[key |-> k, owner |-> t, left |-> Lease] : k \in items[i].locks}
      PROVE  ClaimsAndLocks'
  <2> DEFINE n == [item |-> i, worker |-> w, token |-> t, left |-> Lease]
  <2>1. n.item = i /\ n.token = t /\ n.left = Lease
    OBVIOUS
  <2>2. /\ i \in QueueItemIds /\ items[i].status = "available" /\ i \notin ItemsOf(claims)
        /\ LocksAreAvailable(rows, i)
    BY <1>5 DEF ClaimCandidates
  <2> HIDE DEF n
  <2>3. queue_claims' = claims \union {n}
    BY <1>5 DEF n
  <2>4. \A c \in queue_claims : c.token # t
    BY DEF TokensInUse
  <2>5. \A c \in claims : c.item # i
    BY <2>2 DEF ItemsOf
  <2>6. ClaimInv'
    <3>1. \A c \in claims : items[c.item].status \in {"available", "claimed"}
      BY <1>2, <1>3 DEF ClaimInv
    <3> QED
      BY <1>1, <2>1, <2>2, <2>3, <2>4, <2>5, <3>1 DEF ClaimInv
  <2>7. ASSUME NEW c \in claims, NEW k \in items[c.item].locks
        PROVE  [key |-> k, owner |-> c.token, left |-> c.left] \in rows
    <3>1. [key |-> k, owner |-> c.token, left |-> c.left] \in locks
      BY <1>2, <1>3 DEF LocksFollowClaims
    <3>2. \A d \in ExpiredClaims : d.token # c.token
      BY DEF ClaimInv, ExpiredClaims
    <3> QED
      BY <3>1, <3>2 DEF LocksWithout
  <2>8. LocksFollowClaims'
    <3>1. ASSUME NEW l \in locks'
          PROVE  \E c \in queue_claims' : /\ l.owner = c.token /\ l.left = c.left
                                          /\ l.key \in queue_items'[c.item].locks
      <4>1. CASE l \in rows
        <5>1. PICK c \in queue_claims : /\ l.owner = c.token /\ l.left = c.left
                                        /\ l.key \in queue_items[c.item].locks
          BY <4>1 DEF LocksWithout, LocksFollowClaims
        <5>2. c \in claims
          BY <4>1, <5>1 DEF LocksWithout
        <5> QED
          BY <1>1, <1>2, <1>3, <2>3, <5>1, <5>2
      <4>2. CASE l \notin rows
        BY <1>1, <1>5, <2>1, <2>3, <4>2
      <4> QED
        BY <4>1, <4>2
    <3>2. ASSUME NEW c \in queue_claims', NEW k \in queue_items'[c.item].locks
          PROVE  [key |-> k, owner |-> c.token, left |-> c.left] \in locks'
      <4>1. CASE c = n
        BY <1>1, <1>5, <2>1, <4>1
      <4>2. CASE c # n
        BY <1>1, <1>5, <2>3, <2>7, <4>2
      <4> QED
        BY <4>1, <4>2
    <3> QED
      BY <3>1, <3>2 DEF LocksFollowClaims
  <2>9. LockExclusion'
    <3>1. ASSUME NEW c \in claims, NEW k \in items[c.item].locks
          PROVE  k \notin items[i].locks
      <4> DEFINE l == [key |-> k, owner |-> c.token, left |-> c.left]
      <4>1. l \in rows /\ l.key = k /\ l.left = c.left
        BY <2>7, <3>1
      <4>2. c.left # 0
        BY DEF ExpiredClaims, Expired
      <4> QED
        BY <1>2, <2>2, <4>1, <4>2 DEF LocksAreAvailable
    <3>2. ASSUME NEW c \in claims, NEW d \in claims, c # d
          PROVE  items[c.item].locks \intersect items[d.item].locks = {}
      BY <1>2, <1>3, <3>2 DEF LockExclusion
    <3> QED
      BY <1>1, <2>1, <2>3, <3>1, <3>2 DEF LockExclusion
  <2> QED
    BY <2>6, <2>8, <2>9
<1> QED
  BY <1>4, <1>5 DEF ClaimNextQueueItem, items

-----------------------------------------------------------------------------
(* The inductive step.                                                     *)

(* A stored item belongs to an accepted event; a claimed one is bound.     *)
LEMMA StoredItems ==
  ASSUME LockInv
  PROVE  /\ \A i \in QueueItemIds : queue_items[i].status # Absent => i[1] <= last_event
         /\ \A c \in queue_claims : /\ c.item \in QueueItemIds
                                    /\ queue_items[c.item].target # Unbound
                                    /\ queue_items[c.item].status \in {"available", "claimed"}
                                    /\ c.item[1] <= last_event
<1>0. TypeOK /\ last_event \in Nat
  BY DEF LockInv, TypeOK
<1>1. ASSUME NEW i \in QueueItemIds
      PROVE  /\ queue_items[i].status # Absent => i[1] <= last_event
             /\ queue_items[i].status \in {"available", "claimed"} =>
                  queue_items[i].target # Unbound
  <2>1. PICK e \in Events, x \in Agents \union {Unbound} : i = <<e, x>>
    BY DEF QueueItemIds
  <2>2. /\ e > last_event => queue_items[<<e, x>>].status = Absent
        /\ queue_items[<<e, x>>].status \in {"available", "claimed"} =>
             queue_items[<<e, x>>].target # Unbound
    BY DEF LockInv, TableInv
  <2> QED
    BY <1>0, <2>1, <2>2, BoundsAssumption DEF Events
<1>2. \A c \in queue_claims : /\ c.item \in QueueItemIds
                              /\ queue_items[c.item].status \in {"available", "claimed"}
  BY <1>0 DEF TypeOK, ClaimRow, LockInv, ClaimInv
<1> QED
  BY <1>1, <1>2 DEF Absent

(* The tables of a state of LockInv, and their types.                      *)
LEMMA StoredTables ==
  ASSUME LockInv
  PROVE  /\ queue_items \in [QueueItemIds -> QueueRow]
         /\ replay_items \in [QueueItemIds -> QueueRow]
         /\ last_event \in Nat
         /\ TableInv(queue_items, last_event)
         /\ TableInv(replay_items, last_event)
<1>1. TypeOK /\ TableInv(queue_items, last_event) /\ TableInv(replay_items, last_event)
  BY DEF LockInv
<1> QED
  BY <1>1 DEF TypeOK

(* A fact appended to the tables as they are.                              *)
LEMMA StoredAppend ==
  ASSUME LockInv, NEW f \in QueueFactType, NEW g \in AttemptFactType,
         f.status # "pending",
         f.status \in {"available", "claimed"} => f.target # Unbound,
         f.item[1] <= last_event,
         AppendFacts(queue_items, replay_items, f, g)
  PROVE  /\ TableInv(queue_items', last_event) /\ TableInv(replay_items', last_event)
         /\ queue_items'[f.item].status = f.status
         /\ queue_items'[f.item].locks =
              IF f.locks = {} THEN queue_items[f.item].locks ELSE f.locks
         /\ \A i \in QueueItemIds \ {f.item} : queue_items[i].target # Unbound =>
              /\ queue_items'[i].status = queue_items[i].status
              /\ queue_items'[i].locks = queue_items[i].locks
<1>1. /\ queue_items \in [QueueItemIds -> QueueRow]
      /\ replay_items \in [QueueItemIds -> QueueRow]
      /\ last_event \in Nat
  BY StoredTables
<1>2. TableInv(queue_items, last_event) /\ TableInv(replay_items, last_event)
  BY StoredTables
<1>3. TableInv(queue_items', last_event)
  BY <1>1, <1>2, AppendKeepsTableInv, SMTT(20)
<1>4. TableInv(replay_items', last_event)
  BY <1>1, <1>2, AppendKeepsTableInv, SMTT(20)
<1>5. queue_items'[f.item].status = f.status
  BY <1>1, <1>2, AppendKeepsTableInv, SMTT(20)
<1>6. queue_items'[f.item].locks =
        IF f.locks = {} THEN queue_items[f.item].locks ELSE f.locks
  BY <1>1, <1>2, AppendKeepsTableInv, SMTT(20)
<1>7. \A i \in QueueItemIds \ {f.item} : queue_items[i].target # Unbound =>
        /\ queue_items'[i].status = queue_items[i].status
        /\ queue_items'[i].locks = queue_items[i].locks
  BY <1>1, <1>2, AppendKeepsTableInv, SMTT(20)
<1> QED
  BY <1>3, <1>4, <1>5, <1>6, <1>7

(* The end of an attempt deletes its own claim, and no other claimed item  *)
(* is touched.                                                             *)
LEMMA EndAttemptKeepsLocks ==
  ASSUME LockInv, NEW w \in Workers, NEW c \in queue_claims, NEW a \in attempts,
         NEW s \in AttemptStatus, NEW q \in QueueItemStatus \ {"pending"}, NEW d \in Nat,
         EndAttempt(w, c, a, s, q, d)
  PROVE  /\ TableInv(queue_items', last_event')
         /\ TableInv(replay_items', last_event')
         /\ ClaimsAndLocks'
<1> DEFINE f == RowFact(c.item, q, d)
           g == AttemptFact(a.item, a.number, s, NoToken)
<1>0. TypeOK /\ ClaimsAndLocks /\ last_event \in Nat
  BY DEF LockInv, ClaimsAndLocks, TypeOK
<1>1. c.item \in QueueItemIds /\ \A b \in queue_claims : b.item \in QueueItemIds
  BY <1>0 DEF TypeOK, ClaimRow
<1>2. f \in QueueFactType
  BY <1>0, <1>1, RowFactType
<1>3. g \in AttemptFactType
  BY <1>0 DEF TypeOK, AttemptRow, AttemptFact, AttemptFactType
<1>4. /\ f.item = c.item /\ f.status = q /\ f.target = queue_items[c.item].target
      /\ f.locks = queue_items[c.item].locks
  BY DEF RowFact, QueueFact
<1> HIDE DEF f, g
<1>5. \A b \in queue_claims : /\ queue_items[b.item].target # Unbound
                              /\ b.item[1] <= last_event
  BY StoredItems
<1>6. AppendFacts(queue_items, replay_items, f, g)
  BY DEF EndAttempt, f, g
<1>7. /\ TableInv(queue_items', last_event)
      /\ TableInv(replay_items', last_event)
      /\ \A i \in QueueItemIds \ {c.item} : queue_items[i].target # Unbound =>
           /\ queue_items'[i].status = queue_items[i].status
           /\ queue_items'[i].locks = queue_items[i].locks
  <2>1. /\ f.status # "pending" /\ f.item[1] <= last_event
        /\ f.status \in {"available", "claimed"} => f.target # Unbound
    BY <1>4, <1>5
  <2>2. TableInv(queue_items', last_event)
    BY <1>2, <1>3, <1>6, <2>1, StoredAppend
  <2>3. TableInv(replay_items', last_event)
    BY <1>2, <1>3, <1>6, <2>1, StoredAppend
  <2>4. \A i \in QueueItemIds \ {f.item} : queue_items[i].target # Unbound =>
          /\ queue_items'[i].status = queue_items[i].status
          /\ queue_items'[i].locks = queue_items[i].locks
    BY <1>2, <1>3, <1>6, <2>1, StoredAppend
  <2> QED
    BY <1>4, <2>2, <2>3, <2>4
<1>8. \A b \in queue_claims \ {c} :
        /\ queue_items'[b.item].status \in {"available", "claimed"}
        /\ queue_items'[b.item].locks = queue_items[b.item].locks
  BY <1>1, <1>5, <1>7 DEF LockInv, ClaimInv
<1>9. queue_claims' = queue_claims \ {c} /\ locks' = LocksWithout({c})
  BY DEF EndAttempt
<1>10. ClaimsAndLocks'
  BY <1>0, <1>8, <1>9, FewerClaims
<1> QED
  BY <1>7, <1>10 DEF EndAttempt

(* Routing an event: its barrier stands, so none of its items is claimed.  *)
LEMMA RouteKeepsLocks ==
  ASSUME LockInv, NEW e \in Events, NEW plan \in RoutePlans, RouteIngressEvent(e, plan)
  PROVE  /\ TableInv(queue_items', last_event')
         /\ TableInv(replay_items', last_event')
         /\ ClaimsAndLocks'
<1> DEFINE p == PendingQueueItemId(e)
<1>0. TypeOK /\ ClaimsAndLocks /\ last_event \in Nat
  BY DEF LockInv, ClaimsAndLocks, TypeOK
<1>1. p \in QueueItemIds /\ p[1] = e /\ p = <<e, Unbound>>
  BY DEF PendingQueueItemId, QueueItemIds
<1>2. queue_items[p].status = "pending" /\ queue_items[p].target = Unbound
  BY DEF RouteIngressEvent
<1>3. e <= last_event
  BY <1>1, <1>2, StoredItems DEF Absent
<1>4. UNCHANGED <<queue_claims, locks, last_event>>
  BY DEF RouteIngressEvent
<1>5. NoAttemptFact \in AttemptFactType
  BY DEF AttemptFactType
<1>6. plan \subseteq Agents
  BY NamesAssumption
<1> HIDE DEF p
<1>7. \A c \in queue_claims : c.item # p
  BY <1>2, StoredItems
<1>8. ASSUME NEW f \in QueueFactType, f.item = p, f.status \in {"available", "unhandled"},
             f.status = "available" => f.target # Unbound,
             AppendQueueFact(queue_items, replay_items, f)
      PROVE  /\ TableInv(queue_items', last_event')
             /\ TableInv(replay_items', last_event')
             /\ ClaimsAndLocks'
  <2>1. AppendFacts(queue_items, replay_items, f, NoAttemptFact)
    BY <1>8 DEF AppendQueueFact
  <2>2. /\ TableInv(queue_items', last_event)
        /\ TableInv(replay_items', last_event)
        /\ \A i \in QueueItemIds \ {p} : queue_items[i].target # Unbound =>
             /\ queue_items'[i].status = queue_items[i].status
             /\ queue_items'[i].locks = queue_items[i].locks
    <3>1. f.status # "pending" /\ f.item[1] <= last_event
      BY <1>1, <1>3, <1>8
    <3> QED
      BY <1>5, <1>8, <2>1, <3>1, StoredAppend
  <2>3. ClaimsAndLocks'
    BY <1>0, <1>4, <1>7, <2>2, SameClaims, StoredItems
  <2> QED
    BY <1>4, <2>2, <2>3
<1>9. CASE AppendQueueFact(queue_items, replay_items,
             QueueFact(p, Unbound, NoSession, {}, "unhandled", 0))
  <2> DEFINE f == QueueFact(p, Unbound, NoSession, {}, "unhandled", 0)
  <2>1. f \in QueueFactType /\ f.item = p /\ f.status = "unhandled"
    BY <1>1 DEF QueueFact, QueueFactType, QueueItemStatus
  <2> QED
    BY <1>8, <1>9, <2>1
<1>10. ASSUME NEW a \in plan,
              AppendQueueFact(queue_items, replay_items, RouteFact(p, e, a))
       PROVE  /\ TableInv(queue_items', last_event')
              /\ TableInv(replay_items', last_event')
              /\ ClaimsAndLocks'
  <2> DEFINE f == RouteFact(p, e, a)
  <2>1. /\ f \in QueueFactType /\ f.item = p /\ f.status = "available"
        /\ f.target # Unbound
    BY <1>1, <1>6, NamesAssumption
       DEF RouteFact, QueueFact, QueueFactType, QueueItemStatus
  <2> QED
    BY <1>8, <1>10, <2>1
<1>11. CASE FanOut(e, plan)
  <2>1. ASSUME NEW items \in [QueueItemIds -> QueueRow], TableInv(items, last_event)
        PROVE  TableInv(IndexFanOut(items, e, plan), last_event)
    <3> DEFINE new == IndexFanOut(items, e, plan)
    <3>1. \A i \in QueueItemIds :
            /\ i[1] = e /\ i[2] \in plan => /\ new[i].status = "available"
                                           /\ new[i].target = i[2]
            /\ ~(i[1] = e /\ i[2] \in plan) /\ i = p => new[i].status = Absent
            /\ ~(i[1] = e /\ i[2] \in plan) /\ i # p => new[i] = items[i]
      BY DEF IndexFanOut, IndexedRow, RouteFact, QueueFact, NoRow, p
    <3>2. \A d \in Events, x \in Agents \union {Unbound} :
            <<d, x>> \in QueueItemIds /\ <<d, x>>[1] = d /\ <<d, x>>[2] = x
      BY DEF QueueItemIds
    <3> HIDE DEF new
    <3> SUFFICES ASSUME NEW d \in Events, NEW x \in Agents \union {Unbound}
                 PROVE  /\ new[<<d, x>>].status \in {"available", "claimed"} =>
                             new[<<d, x>>].target # Unbound
                        /\ /\ new[<<d, Unbound>>].status = "pending"
                           /\ new[<<d, Unbound>>].target = Unbound
                           /\ x # Unbound
                           => new[<<d, x>>].status = Absent
                        /\ d > last_event => new[<<d, x>>].status = Absent
      BY DEF TableInv, new
    <3>3. Unbound \notin plan
      BY <1>6, NamesAssumption
    <3>4. CASE d = e
      <4>1. new[<<d, Unbound>>].status = Absent
        BY <1>1, <3>1, <3>2, <3>3, <3>4
      <4>2. ~(d > last_event)
        BY <1>0, <1>3, <3>4, BoundsAssumption DEF Events
      <4>3. new[<<d, x>>].status \in {"available", "claimed"} =>
              new[<<d, x>>].target # Unbound
        <5>1. CASE x \in plan
          BY <3>1, <3>2, <3>3, <3>4, <5>1
        <5>2. CASE x \notin plan /\ x = Unbound
          BY <4>1, <5>2 DEF Absent
        <5>3. CASE x \notin plan /\ x # Unbound
          <6>1. new[<<d, x>>] = items[<<d, x>>]
            BY <1>1, <3>1, <3>2, <3>4, <5>3
          <6> QED
            BY <2>1, <6>1 DEF TableInv
        <5> QED
          BY <5>1, <5>2, <5>3
      <4> QED
        BY <4>1, <4>2, <4>3 DEF Absent
    <3>5. CASE d # e
      <4>1. /\ new[<<d, x>>] = items[<<d, x>>]
            /\ new[<<d, Unbound>>] = items[<<d, Unbound>>]
        BY <1>1, <3>1, <3>2, <3>5
      <4> QED
        BY <2>1, <4>1 DEF TableInv
    <3> QED
      BY <3>4, <3>5
  <2>t. /\ queue_items \in [QueueItemIds -> QueueRow]
        /\ replay_items \in [QueueItemIds -> QueueRow]
    BY <1>0 DEF TypeOK
  <2>v. TableInv(queue_items, last_event) /\ TableInv(replay_items, last_event)
    BY DEF LockInv
  <2>2. TableInv(queue_items', last_event)
    BY <1>11, <2>1, <2>t, <2>v DEF FanOut
  <2>3. TableInv(replay_items', last_event)
    BY <1>11, <2>1, <2>t, <2>v DEF FanOut
  <2>4. ASSUME NEW c \in queue_claims PROVE queue_items'[c.item] = queue_items[c.item]
    <3>1. c.item \in QueueItemIds /\ queue_items[c.item].status # Absent /\ c.item # p
      BY <1>7, StoredItems DEF Absent
    <3>2. PICK d \in Events, x \in Agents \union {Unbound} : c.item = <<d, x>>
      BY <3>1 DEF QueueItemIds
    <3>3. d # e
      <4>1. CASE x = Unbound
        BY <1>1, <3>1, <3>2, <4>1
      <4>2. CASE x # Unbound
        <5>1. queue_items[<<e, x>>].status = Absent
          BY <1>1, <1>2, <4>2 DEF LockInv, TableInv
        <5> QED
          BY <3>1, <3>2, <5>1
      <4> QED
        BY <4>1, <4>2
    <3> QED
      BY <1>11, <3>1, <3>2, <3>3 DEF FanOut, IndexFanOut, p
  <2>5. ClaimsAndLocks'
    BY <1>0, <1>4, <2>4, SameClaims, StoredItems
  <2> QED
    BY <1>4, <2>2, <2>3, <2>5
<1> QED
  BY <1>9, <1>10, <1>11 DEF RouteIngressEvent, p

(* LockInv is inductive.                                                   *)
LEMMA LockStep == LockInv /\ [Next]_vars => LockInv'
<1> SUFFICES ASSUME LockInv, [Next]_vars PROVE LockInv'
  OBVIOUS
<1> DEFINE Goal == /\ TableInv(queue_items', last_event')
                   /\ TableInv(replay_items', last_event')
                   /\ ClaimsAndLocks'
<1>0. TypeOK /\ TypeOK' /\ ClaimsAndLocks /\ last_event \in Nat
  <2>1. TypeOK /\ ClaimsAndLocks
    BY DEF LockInv, ClaimsAndLocks
  <2>2. TypeOK'
    BY <2>1, TypeStep
  <2> QED
    BY <2>1, <2>2, StoredTables
<1> SUFFICES Goal
  BY <1>0 DEF LockInv, ClaimsAndLocks
<1>n. NoAttemptFact \in AttemptFactType
  BY DEF AttemptFactType
<1>1. CASE IngestEvent
  <2>1. last_event + 1 \in Events /\ last_event' = last_event + 1
    BY <1>0, <1>1, BoundsAssumption DEF IngestEvent, Events
  <2>2. TableInv(queue_items', last_event') /\ TableInv(replay_items', last_event')
    BY <1>0, <1>1, <2>1, UpdatesKeepTableInv DEF IngestEvent, LockInv, TypeOK
  <2>3. \A c \in queue_claims : queue_items'[c.item] = queue_items[c.item]
    BY <1>0, <1>1, StoredItems DEF IngestEvent, IndexPending, TypeOK, Absent
  <2>4. ClaimsAndLocks'
    BY <1>0, <1>1, <2>3, SameClaims, StoredItems DEF IngestEvent
  <2> QED
    BY <2>2, <2>4
<1>2. ASSUME NEW e \in Events, NEW plan \in RoutePlans, RouteIngressEvent(e, plan)
      PROVE  Goal
  BY <1>2, RouteKeepsLocks
<1>3. ASSUME NEW m \in MessageTargets, SubmitSessionMessage(m[1], m[2])
      PROVE  Goal
  <2> DEFINE n == last_event + 1
             f == QueueFact(<<n, m[1]>>, m[1], m[2], {}, "available", 0)
             live == IndexPending(queue_items, n)
             replayed == IndexPending(replay_items, n)
  <2>1. n \in Events /\ n \in Nat /\ last_event' = n
    BY <1>0, <1>3, BoundsAssumption DEF SubmitSessionMessage, Events
  <2>2. m[1] \in Agents /\ m[2] \in Sessions /\ m[1] # Unbound
    BY NamesAssumption
  <2>3. /\ f \in QueueFactType /\ f.item = <<n, m[1]>> /\ f.status = "available"
        /\ f.target # Unbound /\ f.item[1] = n /\ f.item[1] <= n
    <3>1. <<n, m[1]>> \in QueueItemIds
      BY <2>1, <2>2 DEF QueueItemIds
    <3>2. f \in QueueFactType
      BY <2>2, <3>1 DEF QueueFact, QueueFactType, QueueItemStatus
    <3>3. f.item = <<n, m[1]>> /\ f.status = "available" /\ f.target = m[1]
      BY DEF QueueFact
    <3> HIDE DEF f
    <3> QED
      BY <2>1, <2>2, <3>2, <3>3
  <2>4. AppendFacts(live, replayed, f, NoAttemptFact)
    BY <1>3 DEF SubmitSessionMessage, AppendQueueFact
  <2>5. \A items \in [QueueItemIds -> QueueRow] :
          IndexPending(items, n) \in [QueueItemIds -> QueueRow]
    BY <2>1, RowUpdateType
       DEF IndexPending, PendingQueueItemId, QueueItemIds, QueueItemStatus
  <2>6. /\ live \in [QueueItemIds -> QueueRow] /\ replayed \in [QueueItemIds -> QueueRow]
        /\ TableInv(live, n) /\ TableInv(replayed, n) /\ TableInv(replay_items, n)
    <3>1. /\ queue_items \in [QueueItemIds -> QueueRow]
          /\ replay_items \in [QueueItemIds -> QueueRow]
      BY <1>0 DEF TypeOK
    <3>2. TableInv(queue_items, last_event) /\ TableInv(replay_items, last_event)
      BY DEF LockInv
    <3>3. live \in [QueueItemIds -> QueueRow] /\ replayed \in [QueueItemIds -> QueueRow]
      BY <2>5, <3>1
    <3>4. TableInv(live, n)
      BY <1>0, <2>1, <3>1, <3>2, UpdatesKeepTableInv
    <3>5. TableInv(replayed, n) /\ TableInv(replay_items, n)
      BY <1>0, <2>1, <3>1, <3>2, UpdatesKeepTableInv
    <3> QED
      BY <3>3, <3>4, <3>5
  <2>7. \A c \in queue_claims : live[c.item] = queue_items[c.item]
    BY <1>0, StoredItems DEF IndexPending, TypeOK, Absent
  <2> HIDE DEF f, live, replayed
  <2>8. /\ TableInv(queue_items', n)
        /\ TableInv(replay_items', n)
        /\ \A i \in QueueItemIds \ {f.item} : live[i].target # Unbound =>
             /\ queue_items'[i].status = live[i].status
             /\ queue_items'[i].locks = live[i].locks
    BY <1>n, <2>1, <2>3, <2>4, <2>6, AppendKeepsTableInv, ZenonT(60)
  <2>9. \A c \in queue_claims : c.item # f.item
    <3>1. \A c \in queue_claims : c.item[1] <= last_event
      BY StoredItems
    <3>2. ~(f.item[1] <= last_event)
      BY <1>0, <2>1, <2>3
    <3> QED
      BY <3>1, <3>2
  <2>10. ClaimsAndLocks'
    <3>1. \A c \in queue_claims :
            /\ queue_items'[c.item].status \in {"available", "claimed"}
            /\ queue_items'[c.item].locks = queue_items[c.item].locks
      BY <2>7, <2>8, <2>9, StoredItems
    <3>2. UNCHANGED <<queue_claims, locks>>
      BY <1>3 DEF SubmitSessionMessage
    <3> QED
      BY <1>0, <3>1, <3>2, SameClaims
  <2> QED
    BY <2>1, <2>8, <2>10
<1>4. ASSUME NEW w \in Workers, ClaimNextQueueItem(w)
      PROVE  Goal
  <2>1. /\ TableInv(queue_items', last_event)
        /\ UNCHANGED <<replay_items, last_event>>
    BY <1>0, <1>4, UpdatesKeepTableInv DEF ClaimNextQueueItem, LockInv, TypeOK, journal
  <2> QED
    BY <1>0, <1>4, <2>1, ClaimKeepsLocks DEF LockInv
<1>5. ASSUME NEW w \in Workers, StartClaimedAttempt(w)
      PROVE  Goal
  <2>1. PICK c \in queue_claims :
               LET n == queue_items[c.item].attempt_count + 1
               IN  /\ n <= MaxStarts
                   /\ AppendFacts(queue_items, replay_items, RowFact(c.item, "claimed", 0),
                                  AttemptFact(c.item, n, "running", c.token))
    BY <1>5 DEF StartClaimedAttempt, CurrentClaims
  <2> DEFINE n == queue_items[c.item].attempt_count + 1
             f == RowFact(c.item, "claimed", 0)
             g == AttemptFact(c.item, n, "running", c.token)
  <2>2. c.item \in QueueItemIds /\ c.token \in Tokens
    BY <1>0 DEF TypeOK, ClaimRow
  <2>3. n \in 1..MaxStarts
    <3>1. queue_items[c.item].attempt_count \in Nat
      BY <1>0, <2>2 DEF TypeOK, QueueRow
    <3> QED
      BY <2>1, <3>1, BoundsAssumption
  <2>4. /\ f \in QueueFactType /\ f.item = c.item /\ f.status = "claimed"
        /\ f.target = queue_items[c.item].target /\ f.locks = queue_items[c.item].locks
    BY <1>0, <2>2, RowFactType DEF QueueItemStatus, RowFact, QueueFact
  <2>5. g \in AttemptFactType
    BY <2>2, <2>3 DEF AttemptFact, AttemptFactType, AttemptRow, AttemptStatus
  <2>6. AppendFacts(queue_items, replay_items, f, g)
    BY <2>1
  <2> HIDE DEF f, g
  <2>7. /\ TableInv(queue_items', last_event)
        /\ TableInv(replay_items', last_event)
        /\ queue_items'[c.item].status = "claimed"
        /\ queue_items'[c.item].locks = queue_items[c.item].locks
        /\ \A i \in QueueItemIds \ {c.item} : queue_items[i].target # Unbound =>
             /\ queue_items'[i].status = queue_items[i].status
             /\ queue_items'[i].locks = queue_items[i].locks
    <3>1. queue_items[c.item].target # Unbound /\ c.item[1] <= last_event
      BY <2>2, StoredItems
    <3>2. /\ f.status # "pending" /\ f.item[1] <= last_event
          /\ f.status \in {"available", "claimed"} => f.target # Unbound
      BY <2>4, <3>1
    <3>3. TableInv(queue_items', last_event)
      BY <2>4, <2>5, <2>6, <3>2, StoredAppend
    <3>4. TableInv(replay_items', last_event)
      BY <2>4, <2>5, <2>6, <3>2, StoredAppend
    <3>5. queue_items'[f.item].status = f.status
      BY <2>4, <2>5, <2>6, <3>2, StoredAppend
    <3>6. queue_items'[f.item].locks =
            IF f.locks = {} THEN queue_items[f.item].locks ELSE f.locks
      BY <2>4, <2>5, <2>6, <3>2, StoredAppend
    <3>7. \A i \in QueueItemIds \ {f.item} : queue_items[i].target # Unbound =>
            /\ queue_items'[i].status = queue_items[i].status
            /\ queue_items'[i].locks = queue_items[i].locks
      BY <2>4, <2>5, <2>6, <3>2, StoredAppend
    <3> QED
      BY <2>4, <3>3, <3>4, <3>5, <3>6, <3>7
  <2>8. ClaimsAndLocks'
    BY <1>0, <1>5, <2>7, SameClaims, StoredItems DEF StartClaimedAttempt
  <2> QED
    BY <1>5, <2>7, <2>8 DEF StartClaimedAttempt
<1>6. ASSUME NEW w \in Workers, RenewClaim(w)
      PROVE  Goal
  BY <1>0, <1>6, RenewKeepsLocks DEF RenewClaim, LockInv, journal
<1>7. ASSUME NEW w \in Workers, ReleaseClaim(w)
      PROVE  Goal
  <2>1. PICK c \in queue_claims : /\ queue_claims' = queue_claims \ {c}
                                  /\ locks' = LocksWithout({c})
                                  /\ queue_items' = Recovered(queue_items, {c.item})
    BY <1>7 DEF ReleaseClaim, CurrentClaims
  <2>2. TableInv(queue_items', last_event)
    BY <1>0, <2>1, UpdatesKeepTableInv DEF LockInv, TypeOK
  <2>3. \A d \in queue_claims :
          /\ queue_items'[d.item].status \in {"available", "claimed"}
          /\ queue_items'[d.item].locks = queue_items[d.item].locks
    BY <1>0, <2>1, StoredItems DEF Recovered, TypeOK, QueueRow
  <2>4. ClaimsAndLocks'
    BY <1>0, <2>1, <2>3, FewerClaims
  <2> QED
    BY <1>7, <2>2, <2>4 DEF ReleaseClaim, LockInv, journal
<1>8. ASSUME NEW w \in Workers, FencedCallRefused(w) \/ WorkerCrash(w)
      PROVE  Goal
  BY <1>0, <1>8, SameClaims, StoredItems
     DEF FencedCallRefused, WorkerCrash, LockInv, journal
<1>9. ASSUME NEW w \in Workers, NEW code \in Failures, FailClaimedAttempt(w, code)
      PROVE  Goal
  <2>1. PICK c \in queue_claims, a \in attempts :
               \/ EndAttempt(w, c, a, "cancelled", "cancelled", 0)
               \/ EndAttempt(w, c, a, "failed", "available", RetryDelay[a.number])
               \/ EndAttempt(w, c, a, "failed", "dead_lettered", 0)
    BY <1>9 DEF FailClaimedAttempt, CurrentClaims, RunningForClaim
  <2>2. RetryDelay[a.number] \in Nat
    BY <1>0, BoundsAssumption DEF TypeOK, AttemptRow
  <2> QED
    BY <2>1, <2>2, EndAttemptKeepsLocks DEF AttemptStatus, QueueItemStatus
<1>10. ASSUME NEW w \in Workers, NEW d \in {"succeeded", "cancelled"},
              CompleteClaimedAttempt(w, d)
       PROVE  Goal
  <2>1. PICK c \in queue_claims, a \in attempts :
               \/ EndAttempt(w, c, a, "cancelled", "cancelled", 0)
               \/ EndAttempt(w, c, a, "completed", "completed", 0)
    BY <1>10 DEF CompleteClaimedAttempt, CurrentClaims, RunningForClaim
  <2> QED
    BY <2>1, EndAttemptKeepsLocks DEF AttemptStatus, QueueItemStatus
<1>11. CASE ReconcileExpiredClaims
  <2>1. TableInv(queue_items', last_event)
    BY <1>0, <1>11, UpdatesKeepTableInv DEF ReconcileExpiredClaims, LockInv, TypeOK
  <2>2. \A d \in queue_claims :
          /\ queue_items'[d.item].status \in {"available", "claimed"}
          /\ queue_items'[d.item].locks = queue_items[d.item].locks
    BY <1>0, <1>11, StoredItems DEF ReconcileExpiredClaims, Recovered, TypeOK, QueueRow
  <2>3. ClaimsAndLocks'
    BY <1>0, <1>11, <2>2, FewerClaims DEF ReconcileExpiredClaims, ExpiredClaims
  <2> QED
    BY <1>11, <2>1, <2>3 DEF ReconcileExpiredClaims, LockInv, journal
<1>12. ASSUME NEW i \in CancelTargets, CancelQueueItem(i)
       PROVE  Goal
  <2> DEFINE live == IndexCancelRequested(queue_items, i)
             replayed == IndexCancelRequested(replay_items, i)
             f == RowFact(i, "cancelled", 0)
  <2>0. i \in QueueItemIds
    BY NamesAssumption
  <2>1. \A items \in [QueueItemIds -> QueueRow] : \A j \in QueueItemIds :
          /\ IndexCancelRequested(items, i) \in [QueueItemIds -> QueueRow]
          /\ IndexCancelRequested(items, i)[j].status = items[j].status
          /\ IndexCancelRequested(items, i)[j].target = items[j].target
          /\ IndexCancelRequested(items, i)[j].locks = items[j].locks
    <3> TAKE items \in [QueueItemIds -> QueueRow]
    <3> TAKE j \in QueueItemIds
    <3>1. IndexCancelRequested(items, i) \in [QueueItemIds -> QueueRow]
      BY <2>0, RowUpdateType DEF IndexCancelRequested
    <3>2. /\ IndexCancelRequested(items, i)[j].status = items[j].status
          /\ IndexCancelRequested(items, i)[j].target = items[j].target
          /\ IndexCancelRequested(items, i)[j].locks = items[j].locks
      BY <2>0 DEF IndexCancelRequested, QueueRow
    <3> QED
      BY <3>1, <3>2
  <2>2. /\ live \in [QueueItemIds -> QueueRow] /\ replayed \in [QueueItemIds -> QueueRow]
        /\ \A j \in QueueItemIds : /\ live[j].status = queue_items[j].status
                                   /\ live[j].target = queue_items[j].target
                                   /\ live[j].locks = queue_items[j].locks
    BY <1>0, <2>0, <2>1 DEF TypeOK
  <2>3. TableInv(live, last_event) /\ TableInv(replayed, last_event)
    BY <1>0, <2>0, UpdatesKeepTableInv DEF LockInv, TypeOK
  <2>4. /\ f \in QueueFactType /\ f.item = i /\ f.status = "cancelled"
    BY <1>0, <2>0, RowFactType DEF QueueItemStatus, RowFact, QueueFact
  <2>5. i[1] <= last_event
    BY <1>12, <2>0, StoredItems DEF CancelQueueItem
  <2>6. CASE /\ queue_items' = live
             /\ replay_items' = IF replay_ok THEN replayed ELSE replay_items
    <3> HIDE DEF live, replayed
    <3>1. ClaimsAndLocks'
      BY <1>0, <1>12, <2>2, <2>6, SameClaims, StoredItems DEF CancelQueueItem
    <3> QED
      BY <1>12, <2>3, <2>6, <3>1 DEF CancelQueueItem, LockInv
  <2>7. CASE /\ i \notin ItemsOf(queue_claims)
             /\ AppendFacts(live, replayed, f, NoAttemptFact)
    <3>1. \A c \in queue_claims : c.item # i
      BY <2>7 DEF ItemsOf
    <3> HIDE DEF live, replayed, f
    <3>2. /\ TableInv(queue_items', last_event)
          /\ TableInv(replay_items', last_event)
          /\ \A j \in QueueItemIds \ {i} : live[j].target # Unbound =>
               /\ queue_items'[j].status = live[j].status
               /\ queue_items'[j].locks = live[j].locks
      <4>1. TableInv(replay_items, last_event)
        BY DEF LockInv
      <4>2. TableInv(queue_items', last_event)
        BY <1>0, <1>n, <2>2, <2>3, <2>4, <2>5, <2>7, <4>1, AppendKeepsTableInv
      <4>3. TableInv(replay_items', last_event)
        BY <1>0, <1>n, <2>2, <2>3, <2>4, <2>5, <2>7, <4>1, AppendKeepsTableInv
      <4>4. \A j \in QueueItemIds \ {f.item} : live[j].target # Unbound =>
              /\ queue_items'[j].status = live[j].status
              /\ queue_items'[j].locks = live[j].locks
        BY <1>0, <1>n, <2>2, <2>3, <2>4, <2>5, <2>7, <4>1, AppendKeepsTableInv
      <4> QED
        BY <2>4, <4>2, <4>3, <4>4
    <3>3. ClaimsAndLocks'
      <4>1. \A c \in queue_claims :
              /\ c.item \in QueueItemIds \ {i} /\ live[c.item].target # Unbound
              /\ live[c.item].status \in {"available", "claimed"}
              /\ live[c.item].locks = queue_items[c.item].locks
        BY <2>2, <3>1, StoredItems
      <4>2. \A c \in queue_claims :
              /\ queue_items'[c.item].status \in {"available", "claimed"}
              /\ queue_items'[c.item].locks = queue_items[c.item].locks
        BY <3>2, <4>1
      <4>3. UNCHANGED <<queue_claims, locks>>
        BY <1>12 DEF CancelQueueItem
      <4> QED
        BY <1>0, <4>2, <4>3, SameClaims
    <3> QED
      BY <1>12, <3>2, <3>3 DEF CancelQueueItem
  <2> QED
    BY <1>12, <2>6, <2>7 DEF CancelQueueItem, AppendQueueFact
<1>13. CASE FinalizeNextRequestedCancellation
  <2>1. PICK i \in AwaitingFinalization :
          \/ \E a \in attempts :
               AppendFacts(queue_items, replay_items, RowFact(i, "cancelled", 0),
                           AttemptFact(i, a.number, "cancelled", NoToken))
          \/ AppendFacts(queue_items, replay_items, RowFact(i, "cancelled", 0), NoAttemptFact)
    BY <1>13 DEF FinalizeNextRequestedCancellation, LatestRunning, RunningAttempts,
                 AppendQueueFact
  <2> DEFINE f == RowFact(i, "cancelled", 0)
  <2>2. /\ i \in QueueItemIds /\ queue_items[i].status # Absent
        /\ \A c \in queue_claims : c.item # i
    BY DEF AwaitingFinalization, ItemsOf, Absent
  <2>3. /\ f \in QueueFactType /\ f.item = i /\ f.status = "cancelled"
    BY <1>0, <2>2, RowFactType DEF QueueItemStatus, RowFact, QueueFact
  <2>4. \A a \in attempts : AttemptFact(i, a.number, "cancelled", NoToken) \in AttemptFactType
    BY <1>0, <2>2 DEF TypeOK, AttemptRow, AttemptFact, AttemptFactType, AttemptStatus
  <2>5. PICK g \in AttemptFactType : AppendFacts(queue_items, replay_items, f, g)
    BY <1>n, <2>1, <2>4
  <2> HIDE DEF f
  <2>6. /\ TableInv(queue_items', last_event)
        /\ TableInv(replay_items', last_event)
        /\ \A j \in QueueItemIds \ {i} : queue_items[j].target # Unbound =>
             /\ queue_items'[j].status = queue_items[j].status
             /\ queue_items'[j].locks = queue_items[j].locks
    <3>1. f.status # "pending" /\ f.status \notin {"available", "claimed"}
      BY <2>3
    <3>2. f.item[1] <= last_event
      BY <2>2, <2>3, StoredItems
    <3>3. TableInv(queue_items', last_event)
      BY <2>3, <2>5, <3>1, <3>2, StoredAppend
    <3>4. TableInv(replay_items', last_event)
      BY <2>3, <2>5, <3>1, <3>2, StoredAppend
    <3>5. \A j \in QueueItemIds \ {f.item} : queue_items[j].target # Unbound =>
            /\ queue_items'[j].status = queue_items[j].status
            /\ queue_items'[j].locks = queue_items[j].locks
      BY <2>3, <2>5, <3>1, <3>2, StoredAppend
    <3> QED
      BY <2>3, <3>3, <3>4, <3>5
  <2>7. ClaimsAndLocks'
    BY <1>0, <1>13, <2>2, <2>6, SameClaims, StoredItems
       DEF FinalizeNextRequestedCancellation
  <2> QED
    BY <1>13, <2>6, <2>7 DEF FinalizeNextRequestedCancellation
<1>14. CASE RebuildProjections
  <2>1. ASSUME NEW j \in QueueItemIds,
               replay_items[j].status = "claimed" => replay_items[j].target # Unbound
        PROVE  /\ queue_items'[j].target = replay_items[j].target
               /\ \/ queue_items'[j].status = replay_items[j].status
                  \/ /\ queue_items'[j].status = "available"
                     /\ replay_items[j].status = "claimed"
    BY <1>0, <1>14, <2>1 DEF RebuildProjections, TypeOK, QueueRow
  <2>2. TableInv(queue_items', last_event)
    <3> SUFFICES ASSUME NEW e \in Events, NEW x \in Agents \union {Unbound}
                 PROVE  /\ queue_items'[<<e, x>>].status \in {"available", "claimed"} =>
                             queue_items'[<<e, x>>].target # Unbound
                        /\ /\ queue_items'[<<e, Unbound>>].status = "pending"
                           /\ queue_items'[<<e, Unbound>>].target = Unbound
                           /\ x # Unbound
                           => queue_items'[<<e, x>>].status = Absent
                        /\ e > last_event => queue_items'[<<e, x>>].status = Absent
      BY DEF TableInv
    <3>1. \A y \in Agents \union {Unbound} :
            /\ <<e, y>> \in QueueItemIds
            /\ replay_items[<<e, y>>].status = "claimed" =>
                 replay_items[<<e, y>>].target # Unbound
      BY DEF QueueItemIds, LockInv, TableInv
    <3>2. ASSUME NEW y \in Agents \union {Unbound}
          PROVE  /\ queue_items'[<<e, y>>].target = replay_items[<<e, y>>].target
                 /\ \/ queue_items'[<<e, y>>].status = replay_items[<<e, y>>].status
                    \/ /\ queue_items'[<<e, y>>].status = "available"
                       /\ replay_items[<<e, y>>].status = "claimed"
      <4> DEFINE j == <<e, y>>
      <4>1. /\ j \in QueueItemIds
            /\ replay_items[j].status = "claimed" => replay_items[j].target # Unbound
        BY <3>1
      <4> HIDE DEF j
      <4>2. /\ queue_items'[j].target = replay_items[j].target
            /\ \/ queue_items'[j].status = replay_items[j].status
               \/ /\ queue_items'[j].status = "available"
                  /\ replay_items[j].status = "claimed"
        BY <2>1, <4>1
      <4> QED
        BY <4>2 DEF j
    <3>3. /\ replay_items[<<e, x>>].status \in {"available", "claimed"} =>
               replay_items[<<e, x>>].target # Unbound
          /\ /\ replay_items[<<e, Unbound>>].status = "pending"
             /\ replay_items[<<e, Unbound>>].target = Unbound
             /\ x # Unbound
             => replay_items[<<e, x>>].status = Absent
          /\ e > last_event => replay_items[<<e, x>>].status = Absent
      BY DEF LockInv, TableInv
    <3> QED
      BY <3>2, <3>3 DEF Absent
  <2>3. ClaimsAndLocks'
    BY <1>14 DEF RebuildProjections, ClaimsAndLocks, ClaimInv, LocksFollowClaims, LockExclusion
  <2> QED
    BY <1>14, <2>2, <2>3 DEF RebuildProjections, LockInv, journal
<1>15. CASE Tick
  <2>1. TableInv(queue_items', last_event) /\ TableInv(replay_items', last_event)
    BY <1>0, <1>15, UpdatesKeepTableInv DEF Tick, LockInv, TypeOK
  <2> QED
    BY <1>0, <1>15, <2>1, TickKeepsLocks DEF Tick
<1>16. CASE UNCHANGED vars
  <2>1. ClaimsAndLocks'
    BY <1>0, <1>16, SameClaims, StoredItems DEF vars
  <2> QED
    BY <1>16, <2>1 DEF vars, journal, LockInv
<1> QED
  BY <1>1, <1>2, <1>3, <1>4, <1>5, <1>6, <1>7, <1>8, <1>9, <1>10, <1>11, <1>12, <1>13,
     <1>14, <1>15, <1>16 DEF Next, Worker, EndClaimedAttempt

(* The queue starts without claims and locks.                              *)
LEMMA LockInit == Init => LockInv
<1> SUFFICES ASSUME Init PROVE LockInv
  OBVIOUS
<1>1. TypeOK
  BY TypeInit
<1>2. TableInv(queue_items, last_event) /\ TableInv(replay_items, last_event)
  BY DEF Init, TableInv, NoRow, QueueItemIds, Absent
<1>3. ClaimInv /\ LocksFollowClaims /\ LockExclusion
  BY DEF Init, ClaimInv, LocksFollowClaims, LockExclusion
<1> QED
  BY <1>1, <1>2, <1>3 DEF LockInv

(* The invariant of the locks holds in every state.                        *)
LEMMA LockInvHolds == Spec => []LockInv
BY LockInit, LockStep, PTL DEF Spec

(* Two claims never share a lock key (claim_next_queue_item, renew_claim,  *)
(* release_claim, reconcile_expired_claims and rebuild_projections in any  *)
(* order, with any number of workers).                                     *)
THEOREM LocksAreExclusive == Spec => []LockExclusion
<1>1. LockInv => LockExclusion
  BY DEF LockInv
<1> QED
  BY <1>1, LockInvHolds, PTL

(* The locks table is exactly the keys of the claimed items, with the      *)
(* lease of their claim.                                                   *)
THEOREM LocksAreBacked == Spec => []LocksFollowClaims
<1>1. LockInv => LocksFollowClaims
  BY DEF LockInv
<1> QED
  BY <1>1, LockInvHolds, PTL

=============================================================================
