--------------------------- MODULE DispatchQueue ---------------------------
(***************************************************************************)
(* The durable work queue of crates/zeta-dispatch: ingress and routing,    *)
(* claims with leases and locks, fenced attempts, retry and dead letter,   *)
(* cancellation, and the rebuild of the projections from the journal.      *)
(*                                                                         *)
(* Every operation of `Dispatch' is one IMMEDIATE SQLite transaction, so   *)
(* every operation is one atomic action here.  The concurrency is between  *)
(* workers, each of which keeps a QueueClaim value in memory (`held') that *)
(* may have lost its row in the database.                                  *)
(*                                                                         *)
(* Time.  The code only ever compares a stored deadline with `now_ms'.  A  *)
(* deadline is therefore stored as the time that is left until it: `left'  *)
(* of a claim or a lock (claimed_until - now, expires_at - now) and        *)
(* `delay' of a queue item (available_at - now), both cut off at zero.     *)
(*                                                                         *)
(* The journal.  No operation modelled here reads the journal, except that *)
(* a rebuild replays it from the start.  Replay is a left fold, so the     *)
(* journal is represented by the value of that fold so far: replay_items   *)
(* and replay_attempts are what replaying today's journal projects, and    *)
(* replay_ok is FALSE once a retained entry is refused by the replay.      *)
(*                                                                         *)
(* A definition named X_Y is X with a plausible mistake Y; it is never     *)
(* used by the specification, and the properties are expected to notice    *)
(* when it takes the place of X.                                           *)
(***************************************************************************)
EXTENDS Lifecycle, Naturals

CONSTANTS
  MaxEvents,    \* bound: events accepted by the journal
  Agents,       \* target agents
  Unbound,      \* the empty target_agent
  Sessions,     \* session ids
  NoSession,    \* a NULL session_id
  SessionOf,    \* SessionRule::resolve, per agent and event
  LockKeys,     \* authored lock keys
  LocksOf,      \* the lock keys of an agent's route
  RoutePlans,   \* the sets of agents an event may match
  MessageTargets, \* the <<agent, session>> pairs clients send messages to
  CancelTargets,  \* the items clients ask to cancel
  Failures,     \* the failure codes workers report
  Workers,      \* worker names
  Tokens,       \* claim tokens
  NoToken,      \* a NULL claim_token, and no claim in a worker's memory
  Lease,        \* lease_ms
  MaxAttempts,  \* RetryPolicy.max_attempts
  RetryDelay,   \* RetryPolicy::delay_ms, per attempt number
  MaxStarts,    \* bound: attempts started for one item
  MaxLosses     \* bound: claims lost before their attempt ended

Events == 1..MaxEvents

(* A queue item is named by its event and, for the children of a fan-out   *)
(* and for session messages, its agent; <<e, Unbound>> is the pending id.  *)
QueueItemIds == Events \X (Agents \union {Unbound})

PendingQueueItemId(e) == <<e, Unbound>>

InputCursor(i) == i[1]

ASSUME BoundsAssumption ==
  /\ MaxEvents \in Nat /\ MaxStarts \in Nat /\ MaxLosses \in Nat
  /\ MaxAttempts \in Nat \ {0}
  /\ Lease \in Nat \ {0}
  /\ RetryDelay \in [1..MaxStarts -> Nat]

ASSUME NamesAssumption ==
  /\ Unbound \notin Agents
  /\ NoSession \notin Sessions
  /\ NoToken \notin Tokens
  /\ LocksOf \in [Agents -> SUBSET LockKeys]
  /\ RoutePlans \subseteq SUBSET Agents
  /\ MessageTargets \subseteq Agents \X Sessions
  /\ CancelTargets \subseteq QueueItemIds
  /\ Failures \subseteq FailureCode
  /\ SessionOf \in [Agents -> [Events -> Sessions]]

(* SessionId::for_agent prefixes the session with its agent.               *)
ASSUME SessionsAreAgentScoped ==
  \A a, b \in Agents : \A e, f \in Events :
     SessionOf[a][e] = SessionOf[b][f] => a = b

VARIABLES
  queue_items,      \* the queue_items table, a row for every id
  queue_claims,     \* the queue_claims table
  locks,            \* the locks table
  attempts,         \* the attempts table
  replay_items,     \* queue_items as a replay of the journal projects it
  replay_attempts,  \* attempts as a replay of the journal projects it
  replay_ok,        \* whether the replay accepts every retained entry
  last_event,       \* number of events accepted so far
  held,             \* the QueueClaim each worker has in memory
  losses            \* claims lost so far (bounded by MaxLosses)

journal == <<replay_items, replay_attempts, replay_ok>>
vars == <<queue_items, queue_claims, locks, attempts, journal, last_event,
          held, losses>>

QueueRow ==
  [status : QueueItemStatus \union {Absent}, target : Agents \union {Unbound},
   session : Sessions \union {NoSession}, locks : SUBSET LockKeys,
   delay : Nat, cancel : BOOLEAN, attempt_count : Nat]

ClaimRow == [item : QueueItemIds, worker : Workers, token : Tokens, left : 0..Lease]

LockRow == [key : LockKeys, owner : Tokens, left : 0..Lease]

AttemptRow == [item : QueueItemIds, number : 1..MaxStarts,
               status : AttemptStatus, token : Tokens \union {NoToken}]

QueueClaim == [item : QueueItemIds, token : Tokens]

NoRow == [status |-> Absent, target |-> Unbound, session |-> NoSession,
          locks |-> {}, delay |-> 0, cancel |-> FALSE, attempt_count |-> 0]

Init ==
  /\ queue_items = [i \in QueueItemIds |-> NoRow]
  /\ queue_claims = {} /\ locks = {} /\ attempts = {}
  /\ replay_items = [i \in QueueItemIds |-> NoRow]
  /\ replay_attempts = {}
  /\ replay_ok = TRUE
  /\ last_event = 0
  /\ held = [w \in Workers |-> NoToken]
  /\ losses = 0

-----------------------------------------------------------------------------
(* Projection of lifecycle facts (sqlite/projection.rs index_event).  Each *)
(* operator maps a table to the table after one fact, and is applied both  *)
(* to the live table and to the replayed one.                              *)

(* runtime.queue_item.<status>: the row the fact describes.  Fields the    *)
(* fact does not carry keep their stored value; available_at moves only    *)
(* with `available'.                                                       *)
QueueFact(i, target, session, keys, status, delay) ==
  [item |-> i, target |-> target, session |-> session, locks |-> keys,
   status |-> status, delay |-> delay]

(* queue_item_payload: a later fact about a stored row repeats its fields. *)
RowFact(i, status, delay) ==
  QueueFact(i, queue_items[i].target, queue_items[i].session,
            queue_items[i].locks, status, delay)

IndexedRow(row, f) ==
  [status |-> f.status, target |-> f.target,
   session |-> IF f.session = NoSession THEN row.session ELSE f.session,
   locks |-> IF f.locks = {} THEN row.locks ELSE f.locks,
   delay |-> IF f.status = "available" THEN f.delay ELSE row.delay,
   cancel |-> row.cancel, attempt_count |-> row.attempt_count]

(* A fact about another id first deletes the unbound pending row of the    *)
(* same event.                                                             *)
IndexQueueItem(items, f) ==
  LET pending == PendingQueueItemId(f.item[1])
  IN  [i \in QueueItemIds |->
         IF i = f.item THEN IndexedRow(items[i], f)
         ELSE IF i = pending /\ items[i].target = Unbound THEN NoRow
         ELSE items[i]]

ClosesUnboundBarrier(row, f) ==
  /\ row.status = "pending" /\ f.status = "completed"
  /\ f.item = PendingQueueItemId(f.item[1]) /\ f.target = Unbound

CancelsPendingItem(row, f) ==
  row.status = "pending" /\ f.status = "cancelled" /\ row.cancel

(* index_queue_item refuses a fact with another target than a row that is  *)
(* past `pending', and every transition that state.rs does not list.       *)
FactAccepted(items, f) ==
  LET row == items[f.item]
  IN  /\ row.status = Absent \/ row.status = "pending" \/ row.target = f.target
      /\ \/ ClosesUnboundBarrier(row, f)
         \/ CancelsPendingItem(row, f)
         \/ <<row.status, f.status>> \in QueueTransitions

(* index_pending_queue_item: ON CONFLICT DO NOTHING.                       *)
IndexPending(items, e) ==
  [items EXCEPT ![PendingQueueItemId(e)] =
     IF @.status = Absent THEN [@ EXCEPT !.status = "pending"] ELSE @]

(* index_queue_item_cancel_requested keeps the first request.              *)
IndexCancelRequested(items, i) == [items EXCEPT ![i].cancel = TRUE]

(* runtime.attempt.<status>, or no attempt fact in this transaction.       *)
AttemptFact(i, n, status, token) ==
  [item |-> i, number |-> n, status |-> status, token |-> token]

NoAttemptFact == [status |-> Absent, token |-> NoToken]

AttemptRows(rows, g) == {a \in rows : a.item = g.item /\ a.number = g.number}

AttemptAccepted(rows, g) ==
  g.status # Absent =>
    /\ AttemptRows(rows, g) = {} => <<Absent, g.status>> \in AttemptTransitions
    /\ \A a \in AttemptRows(rows, g) : <<a.status, g.status>> \in AttemptTransitions

(* index_attempt: a start inserts the row; an end updates it and clears    *)
(* the token that owned it.                                                *)
IndexAttempt(rows, g) ==
  CASE g.status = Absent -> rows
    [] g.status = "running" -> rows \union {g}
    [] OTHER -> {IF a \in AttemptRows(rows, g)
                   THEN [a EXCEPT !.status = g.status, !.token = NoToken]
                   ELSE a : a \in rows}

(* ... and a start raises attempt_count of its item.                       *)
IndexAttemptCount(items, g) ==
  IF g.status = "running"
    THEN [items EXCEPT ![g.item].attempt_count = IF g.number > @ THEN g.number ELSE @]
    ELSE items

(* Appends a queue fact f and an attempt fact g to tables that hold the    *)
(* earlier facts of the same transaction.  The live projection refuses an  *)
(* illegal fact and the transaction rolls back; the replay, which has no   *)
(* claims and therefore no tokens, fails on it.                            *)
AppendFacts(live, replayed, f, g) ==
  /\ FactAccepted(live, f)
  /\ AttemptAccepted(attempts, g)
  /\ queue_items' = IndexAttemptCount(IndexQueueItem(live, f), g)
  /\ attempts' = IndexAttempt(attempts, g)
  /\ replay_ok' = (/\ replay_ok
                   /\ FactAccepted(replayed, f)
                   /\ AttemptAccepted(replay_attempts, g))
  /\ replay_items' = IF replay_ok'
       THEN IndexAttemptCount(IndexQueueItem(replayed, f), g) ELSE replay_items
  /\ replay_attempts' = IF replay_ok'
       THEN IndexAttempt(replay_attempts, [g EXCEPT !.token = NoToken])
       ELSE replay_attempts

AppendQueueFact(live, replayed, f) == AppendFacts(live, replayed, f, NoAttemptFact)

-----------------------------------------------------------------------------
(* Ingress and routing (sqlite/journal.rs, sqlite/routing.rs).             *)

(* ingest_event: a new event becomes an unbound pending item.  A duplicate *)
(* id or idempotency key returns the retained event and changes nothing.   *)
IngestEvent ==
  /\ last_event < MaxEvents
  /\ last_event' = last_event + 1
  /\ queue_items' = IndexPending(queue_items, last_event')
  /\ replay_items' = IF replay_ok THEN IndexPending(replay_items, last_event')
                                  ELSE replay_items
  /\ UNCHANGED <<queue_claims, locks, attempts, replay_attempts, replay_ok,
                 held, losses>>

RouteFact(i, e, a) ==
  QueueFact(i, a, SessionOf[a][e], LocksOf[a], "available", 0)

(* More than one decision: the barrier is completed, then deleted by the   *)
(* first child, and every child becomes available.                         *)
FanOutAccepted(items, e, plan) ==
  /\ FactAccepted(items, QueueFact(PendingQueueItemId(e), Unbound, NoSession,
                                   {}, "completed", 0))
  /\ \A a \in plan : FactAccepted(items, RouteFact(<<e, a>>, e, a))

IndexFanOut(items, e, plan) ==
  [i \in QueueItemIds |->
     IF i[1] = e /\ i[2] \in plan
       THEN IndexedRow(items[i], RouteFact(i, e, i[2]))
       ELSE IF i = PendingQueueItemId(e) THEN NoRow ELSE items[i]]

FanOut(e, plan) ==
  /\ FanOutAccepted(queue_items, e, plan)
  /\ queue_items' = IndexFanOut(queue_items, e, plan)
  /\ replay_ok' = (replay_ok /\ FanOutAccepted(replay_items, e, plan))
  /\ replay_items' = IF replay_ok' THEN IndexFanOut(replay_items, e, plan)
                                   ELSE replay_items
  /\ UNCHANGED <<attempts, replay_attempts>>

(* route_ingress_event: the plan is the set of agents whose route matches. *)
(* Only an unbound pending item is routed; a repeated call returns the     *)
(* retained facts and a different plan is refused.                         *)
RouteIngressEvent(e, plan) ==
  LET pending == PendingQueueItemId(e)
  IN  /\ queue_items[pending].status = "pending"
      /\ queue_items[pending].target = Unbound
      /\ \/ /\ plan = {}
            /\ AppendQueueFact(queue_items, replay_items,
                 QueueFact(pending, Unbound, NoSession, {}, "unhandled", 0))
         \/ \E a \in plan :
              /\ plan = {a}
              /\ AppendQueueFact(queue_items, replay_items, RouteFact(pending, e, a))
         \/ /\ \E a, b \in plan : a # b
            /\ FanOut(e, plan)
      /\ UNCHANGED <<queue_claims, locks, last_event, held, losses>>

(* submit_session_message: the message and its bound item in one           *)
(* transaction, with no lock keys.  (Its effect on waits is in             *)
(* SessionResources.)                                                      *)
SubmitSessionMessage(a, s) ==
  LET e == last_event + 1
      f == QueueFact(<<e, a>>, a, s, {}, "available", 0)
  IN  /\ last_event < MaxEvents
      /\ last_event' = e
      /\ AppendQueueFact(IndexPending(queue_items, e),
                         IndexPending(replay_items, e), f)
      /\ UNCHANGED <<queue_claims, locks, held, losses>>

-----------------------------------------------------------------------------
(* Claims, leases and locks (sqlite/coordination.rs).                      *)

Expired(c) == c.left = 0

LocksWithout_NoCascade(gone) == locks

(* Deleting a claim deletes the locks its token owns (ON DELETE CASCADE).  *)
LocksWithout(gone) == {l \in locks : \A c \in gone : l.owner # c.token}

ItemsOf(claims) == {c.item : c \in claims}

Recovered_RetryScheduled(items, ids) ==
  [i \in QueueItemIds |->
     IF i \in ids /\ items[i].status = "claimed"
       THEN [items[i] EXCEPT !.status = "retry_scheduled"] ELSE items[i]]

Recovered_Missing(items, ids) == items

(* The projection of an item whose claim goes away without a terminal      *)
(* fact: `claimed' falls back to `available', with no fact in the journal. *)
Recovered(items, ids) ==
  [i \in QueueItemIds |->
     IF i \in ids /\ items[i].status = "claimed"
       THEN [items[i] EXCEPT !.status = "available"] ELSE items[i]]

ExpiredClaims == {c \in queue_claims : Expired(c)}

CurrentClaims_IgnoresLease(w) ==
  {c \in queue_claims : /\ held[w] # NoToken
                        /\ c.item = held[w].item /\ c.token = held[w].token
                        /\ c.worker = w}

(* claim_is_current_in: the exact row exists and its lease has not ended.  *)
CurrentClaims(w) ==
  {c \in queue_claims : /\ held[w] # NoToken
                        /\ c.item = held[w].item /\ c.token = held[w].token
                        /\ c.worker = w
                        /\ ~Expired(c)}

BehindBarrier_SameSession(items, i) ==
  \E b \in QueueItemIds : /\ InputCursor(b) < InputCursor(i)
                          /\ items[b].session = items[i].session
                          /\ items[b].target = Unbound
                          /\ items[b].status = "pending"

(* An unbound pending item blocks every later item, in any session.        *)
BehindBarrier(items, i) ==
  \E b \in QueueItemIds : /\ InputCursor(b) < InputCursor(i)
                          /\ items[b].target = Unbound
                          /\ items[b].status = "pending"

BehindEarlierTurn(items, i) ==
  /\ items[i].session # NoSession
  /\ \E b \in QueueItemIds : /\ items[b].session = items[i].session
                             /\ InputCursor(b) < InputCursor(i)
                             /\ items[b].status \notin Terminal \union {Absent}

ClaimCandidates(items, claims) ==
  {i \in QueueItemIds :
     /\ items[i].status = "available"
     /\ items[i].delay = 0
     /\ i \notin ItemsOf(claims)
     /\ ~items[i].cancel
     /\ ~BehindBarrier(items, i)
     /\ ~BehindEarlierTurn(items, i)}

LocksAreAvailable_LastInstant(rows, i) ==
  \A l \in rows : l.key \in queue_items[i].locks => l.left <= 1

LocksAreAvailable(rows, i) ==
  \A l \in rows : l.key \in queue_items[i].locks => l.left = 0

(* The tokens some component still remembers.  The caller draws a token    *)
(* that was never used; one that nobody remembers is as good.              *)
TokensInUse ==
  {c.token : c \in queue_claims} \union {a.token : a \in attempts}
    \union {held[w].token : w \in {v \in Workers : held[v] # NoToken}}

(* claim_next_queue_item: expired claims are reconciled first, in the same *)
(* transaction; then the first candidate in input order whose locks are    *)
(* free is claimed together with its locks.  Without one, the              *)
(* reconciliation alone commits.                                           *)
ClaimNextQueueItem(w) ==
  LET items == Recovered(queue_items, ItemsOf(ExpiredClaims))
      claims == queue_claims \ ExpiredClaims
      rows == LocksWithout(ExpiredClaims)
      free == {i \in ClaimCandidates(items, claims) : LocksAreAvailable(rows, i)}
  IN  /\ held[w] = NoToken
      /\ queue_items' = items
      /\ \/ \E i \in free, t \in Tokens \ TokensInUse :
              /\ \A j \in free : InputCursor(i) <= InputCursor(j)
              /\ queue_claims' = claims \union
                   {[item |-> i, worker |-> w, token |-> t, left |-> Lease]}
              /\ locks' = rows \union
                   {[key |-> k, owner |-> t, left |-> Lease] : k \in items[i].locks}
              /\ held' = [held EXCEPT ![w] = [item |-> i, token |-> t]]
         \/ /\ free = {}
            /\ queue_claims' = claims /\ locks' = rows /\ held' = held
      /\ UNCHANGED <<attempts, journal, last_event, losses>>

RenewClaim_AddsToLease(w) ==
  /\ \E c \in CurrentClaims(w) :
       /\ queue_claims' = (queue_claims \ {c}) \union {[c EXCEPT !.left = @ + Lease]}
       /\ locks' = {IF l.owner = c.token THEN [l EXCEPT !.left = @ + Lease] ELSE l :
                      l \in locks}
  /\ UNCHANGED <<queue_items, attempts, journal, last_event, held, losses>>

(* renew_claim: the claim and every lock its token owns get a new lease.   *)
RenewClaim(w) ==
  /\ \E c \in CurrentClaims(w) :
       /\ queue_claims' = (queue_claims \ {c}) \union {[c EXCEPT !.left = Lease]}
       /\ locks' = {IF l.owner = c.token THEN [l EXCEPT !.left = Lease] ELSE l :
                      l \in locks}
  /\ UNCHANGED <<queue_items, attempts, journal, last_event, held, losses>>

(* release_claim: the worker gives the item back; a started attempt stays  *)
(* running in the history.                                                 *)
ReleaseClaim(w) ==
  /\ losses < MaxLosses
  /\ losses' = losses + 1
  /\ \E c \in CurrentClaims(w) :
       /\ queue_claims' = queue_claims \ {c}
       /\ locks' = LocksWithout({c})
       /\ queue_items' = Recovered(queue_items, {c.item})
  /\ held' = [held EXCEPT ![w] = NoToken]
  /\ UNCHANGED <<attempts, journal, last_event>>

(* reconcile_expired_claims.                                               *)
ReconcileExpiredClaims ==
  /\ ExpiredClaims # {}
  /\ queue_items' = Recovered(queue_items, ItemsOf(ExpiredClaims))
  /\ queue_claims' = queue_claims \ ExpiredClaims
  /\ locks' = LocksWithout(ExpiredClaims)
  /\ UNCHANGED <<attempts, journal, last_event, held, losses>>

(* A call whose claim is no longer current is refused with ClaimNotCurrent *)
(* (or `false'), and the worker gives up.                                  *)
FencedCallRefused(w) ==
  /\ held[w] # NoToken
  /\ CurrentClaims(w) = {}
  /\ held' = [held EXCEPT ![w] = NoToken]
  /\ UNCHANGED <<queue_items, queue_claims, locks, attempts, journal,
                 last_event, losses>>

(* The process of a worker dies: its memory is gone, its rows stay.        *)
WorkerCrash(w) ==
  /\ losses < MaxLosses
  /\ CurrentClaims(w) # {}
  /\ losses' = losses + 1
  /\ held' = [held EXCEPT ![w] = NoToken]
  /\ UNCHANGED <<queue_items, queue_claims, locks, attempts, journal, last_event>>

Dec(n) == IF n = 0 THEN 0 ELSE n - 1

Later(items) == [i \in QueueItemIds |-> [items[i] EXCEPT !.delay = Dec(@)]]

(* Time passes.  Leases of live workers may run out while the budget of    *)
(* lost claims lasts; a crashed worker's lease always runs out.            *)
LeaseAboutToEnd ==
  \E w \in Workers : \E c \in CurrentClaims(w) : c.left = 1

Tick ==
  /\ LeaseAboutToEnd => losses < MaxLosses
  /\ losses' = IF LeaseAboutToEnd THEN losses + 1 ELSE losses
  /\ queue_claims' = {[c EXCEPT !.left = Dec(@)] : c \in queue_claims}
  /\ locks' = {[l EXCEPT !.left = Dec(@)] : l \in locks}
  /\ queue_items' = Later(queue_items)
  /\ replay_items' = IF replay_ok THEN Later(replay_items) ELSE replay_items
  /\ UNCHANGED <<attempts, replay_attempts, replay_ok, last_event, held>>

-----------------------------------------------------------------------------
(* Attempts (sqlite/attempts.rs).                                          *)

(* load_running_attempt_for_claim.                                         *)
RunningForClaim(c) ==
  {a \in attempts : a.item = c.item /\ a.token = c.token /\ a.status = "running"}

(* start_claimed_attempt: the first call under a claim journals the claim  *)
(* and the start; a repeated call returns the running attempt.  There is   *)
(* no check for a requested cancellation here.                             *)
StartClaimedAttempt(w) ==
  /\ \E c \in CurrentClaims(w) :
       LET n == queue_items[c.item].attempt_count + 1
       IN  /\ queue_items[c.item].target # Unbound
           /\ RunningForClaim(c) = {}
           /\ n <= MaxStarts
           /\ AppendFacts(queue_items, replay_items,
                          RowFact(c.item, "claimed", 0),
                          AttemptFact(c.item, n, "running", c.token))
  /\ UNCHANGED <<queue_claims, locks, last_event, held, losses>>

(* Ends the attempt a worker runs: both facts, the claim and its locks in  *)
(* one transaction.                                                        *)
EndAttempt(w, c, a, attempt_status, queue_status, delay) ==
  /\ AppendFacts(queue_items, replay_items,
                 RowFact(c.item, queue_status, delay),
                 AttemptFact(a.item, a.number, attempt_status, NoToken))
  /\ queue_claims' = queue_claims \ {c}
  /\ locks' = LocksWithout({c})
  /\ held' = [held EXCEPT ![w] = NoToken]
  /\ UNCHANGED <<last_event, losses>>

(* permits_retry_after.                                                    *)
PermitsRetryAfter(n) == n < MaxAttempts

(* fail_claimed_attempt: a requested cancellation wins; otherwise a        *)
(* retryable failure with attempts left returns the item to the queue      *)
(* after a delay, and any other failure dead-letters it.                   *)
FailClaimedAttempt(w, code) ==
  \E c \in CurrentClaims(w) : \E a \in RunningForClaim(c) :
    \/ /\ queue_items[c.item].cancel
       /\ EndAttempt(w, c, a, "cancelled", "cancelled", 0)
    \/ /\ ~queue_items[c.item].cancel
       /\ Retryable(code) /\ PermitsRetryAfter(a.number)
       /\ EndAttempt(w, c, a, "failed", "available", RetryDelay[a.number])
    \/ /\ ~queue_items[c.item].cancel
       /\ ~(Retryable(code) /\ PermitsRetryAfter(a.number))
       /\ EndAttempt(w, c, a, "failed", "dead_lettered", 0)

CompleteClaimedAttempt_ReportsSuccess(w, disposition) ==
  \E c \in CurrentClaims(w) : \E a \in RunningForClaim(c) :
    \/ /\ queue_items[c.item].cancel
       /\ EndAttempt(w, c, a, "completed", "cancelled", 0)
    \/ /\ ~queue_items[c.item].cancel /\ disposition = "succeeded"
       /\ EndAttempt(w, c, a, "completed", "completed", 0)

(* complete_claimed_attempt: a requested cancellation, or a worker that    *)
(* reports a cancelled run, records cancellation instead of success.  (The *)
(* controls of a successful result are in SessionResources.)               *)
CompleteClaimedAttempt(w, disposition) ==
  \E c \in CurrentClaims(w) : \E a \in RunningForClaim(c) :
    \/ /\ queue_items[c.item].cancel \/ disposition = "cancelled"
       /\ EndAttempt(w, c, a, "cancelled", "cancelled", 0)
    \/ /\ ~queue_items[c.item].cancel /\ disposition = "succeeded"
       /\ EndAttempt(w, c, a, "completed", "completed", 0)

-----------------------------------------------------------------------------
(* Cancellation (sqlite/cancellation.rs).                                  *)

(* cancel_queue_item: the request is recorded; an item with a claim row,   *)
(* expired or not, is left to its worker; any other item is cancelled in   *)
(* the same transaction.  Unknown and finished items are left alone.       *)
CancelQueueItem(i) ==
  LET live == IndexCancelRequested(queue_items, i)
      replayed == IndexCancelRequested(replay_items, i)
  IN  /\ queue_items[i].status \notin Terminal \union {Absent, "failed"}
      /\ \/ /\ i \in ItemsOf(queue_claims)
            /\ queue_items' = live
            /\ replay_items' = IF replay_ok THEN replayed ELSE replay_items
            /\ UNCHANGED <<attempts, replay_attempts, replay_ok>>
         \/ /\ i \notin ItemsOf(queue_claims)
            /\ AppendQueueFact(live, replayed, RowFact(i, "cancelled", 0))
      /\ UNCHANGED <<queue_claims, locks, last_event, held, losses>>

AwaitingFinalization ==
  {i \in QueueItemIds :
     /\ queue_items[i].cancel
     /\ queue_items[i].status \in {"pending", "available", "retry_scheduled"}
     /\ i \notin ItemsOf(queue_claims)}

RunningAttempts(i) == {a \in attempts : a.item = i /\ a.status = "running"}

(* load_latest_running_attempt.                                            *)
LatestRunning(i) ==
  {a \in RunningAttempts(i) : \A b \in RunningAttempts(i) : b.number <= a.number}

(* finalize_next_requested_cancellation: the oldest item that asked for    *)
(* cancellation and lost its worker; its latest running attempt is closed. *)
FinalizeNextRequestedCancellation ==
  /\ \E i \in AwaitingFinalization :
       /\ \A j \in AwaitingFinalization : InputCursor(i) <= InputCursor(j)
       /\ \/ \E a \in LatestRunning(i) :
               AppendFacts(queue_items, replay_items, RowFact(i, "cancelled", 0),
                           AttemptFact(i, a.number, "cancelled", NoToken))
          \/ /\ LatestRunning(i) = {}
             /\ AppendQueueFact(queue_items, replay_items, RowFact(i, "cancelled", 0))
  /\ UNCHANGED <<queue_claims, locks, last_event, held, losses>>

-----------------------------------------------------------------------------
(* rebuild_projections: the tables are dropped, claims and locks with      *)
(* them, and the journal is replayed; a replayed claim falls back.  When   *)
(* the replay refuses an entry, the transaction rolls back.                *)
RebuildProjections ==
  /\ losses < MaxLosses
  /\ losses' = losses + 1
  /\ replay_ok
  /\ queue_items' = [i \in QueueItemIds |->
       IF replay_items[i].status = "claimed"
         THEN [replay_items[i] EXCEPT !.status =
                 IF replay_items[i].target = Unbound THEN "pending" ELSE "available"]
         ELSE replay_items[i]]
  /\ attempts' = replay_attempts
  /\ queue_claims' = {} /\ locks' = {}
  /\ UNCHANGED <<journal, last_event, held>>

-----------------------------------------------------------------------------
EndClaimedAttempt(w) ==
  \/ \E code \in Failures : FailClaimedAttempt(w, code)
  \/ \E d \in {"succeeded", "cancelled"} : CompleteClaimedAttempt(w, d)

Worker(w) ==
  \/ ClaimNextQueueItem(w)
  \/ StartClaimedAttempt(w)
  \/ RenewClaim(w)
  \/ ReleaseClaim(w)
  \/ FencedCallRefused(w)
  \/ WorkerCrash(w)
  \/ EndClaimedAttempt(w)

Next ==
  \/ IngestEvent
  \/ \E e \in Events, plan \in RoutePlans : RouteIngressEvent(e, plan)
  \/ \E m \in MessageTargets : SubmitSessionMessage(m[1], m[2])
  \/ \E w \in Workers : Worker(w)
  \/ ReconcileExpiredClaims
  \/ \E i \in CancelTargets : CancelQueueItem(i)
  \/ FinalizeNextRequestedCancellation
  \/ RebuildProjections
  \/ Tick

Spec == Init /\ [][Next]_vars

(* A worker that owns a claim starts and ends its attempt, and time goes   *)
(* on.  Clients, crashes, releases and rebuilds are never obliged to       *)
(* happen, and neither are the calls of a host: whether it routes, claims, *)
(* reconciles and finalizes is a premise of what depends on it.            *)
Fairness ==
  /\ \A w \in Workers :
       /\ WF_vars(StartClaimedAttempt(w))
       /\ WF_vars(EndClaimedAttempt(w))
       /\ WF_vars(FencedCallRefused(w))
  /\ WF_vars(Tick)

FairSpec == Spec /\ Fairness

-----------------------------------------------------------------------------
(* Properties.                                                             *)

(* Every table holds well-formed rows.                                     *)
TypeOK ==
  /\ queue_items \in [QueueItemIds -> QueueRow]
  /\ queue_claims \subseteq ClaimRow
  /\ locks \subseteq LockRow
  /\ attempts \subseteq AttemptRow
  /\ replay_items \in [QueueItemIds -> QueueRow]
  /\ replay_attempts \subseteq AttemptRow
  /\ replay_ok \in BOOLEAN
  /\ last_event \in 0..MaxEvents
  /\ held \in [Workers -> QueueClaim \union {NoToken}]
  /\ losses \in 0..MaxLosses

(* Two claims never share a lock key, whatever expired, was renewed or was *)
(* reclaimed in between: claim_next_queue_item inserts the locks of its    *)
(* candidate, and they live and die with the claim row.                    *)
LockExclusion ==
  \A c, d \in queue_claims :
    c # d => queue_items[c.item].locks \intersect queue_items[d.item].locks = {}

(* A lock row is always backed by a claim with the same remaining lease on *)
(* an item that asks for the key, and a claim holds all its item's keys.   *)
(* This is what makes the INSERT INTO locks of a later claim succeed.      *)
LocksFollowClaims ==
  /\ \A l \in locks : \E c \in queue_claims :
       l.owner = c.token /\ l.left = c.left /\ l.key \in queue_items[c.item].locks
  /\ \A c \in queue_claims : \A k \in queue_items[c.item].locks :
       [key |-> k, owner |-> c.token, left |-> c.left] \in locks

(* The turns of a session run one at a time and in input order: while an   *)
(* item is claimed, every earlier item of its session is finished and no   *)
(* other item of the session is claimed.                                   *)
SessionOrder ==
  \A c \in queue_claims : \A i \in QueueItemIds :
    /\ queue_items[i].session = queue_items[c.item].session
    /\ i # c.item
    => /\ InputCursor(i) < InputCursor(c.item)
            => queue_items[i].status \in Terminal \union {Absent}
       /\ i \notin ItemsOf(queue_claims)

(* Cancellation that was requested before the work ended wins over success *)
(* and dead letter, however the worker ends.                               *)
CancellationWins ==
  \A i \in QueueItemIds :
    queue_items[i].cancel =>
      queue_items[i].status \in {"pending", "available", "claimed", "cancelled"}

(* The attempts of an item are numbered 1..attempt_count without gaps or   *)
(* repetition, across lost leases, releases and rebuilds.                  *)
AttemptHistory ==
  /\ \A a, b \in attempts : a.item = b.item /\ a.number = b.number => a = b
  /\ \A i \in QueueItemIds :
       {a.number : a \in {b \in attempts : b.item = i}}
          = 1..queue_items[i].attempt_count

(* The outcome of an item is the outcome of its last attempt, and only the *)
(* last attempt can have succeeded: work is never completed twice.         *)
OutcomeOfLastAttempt ==
  /\ \A a \in attempts :
       a.status = "completed" =>
         /\ a.number = queue_items[a.item].attempt_count
         /\ queue_items[a.item].status = "completed"
  /\ \A i \in QueueItemIds :
       queue_items[i].status \in {"completed", "dead_lettered"} =>
         \E a \in attempts :
           /\ a.item = i /\ a.number = queue_items[i].attempt_count
           /\ a.status = IF queue_items[i].status = "completed"
                           THEN "completed" ELSE "failed"

(* Only lost claims let an item exceed the attempts of its retry policy.   *)
AttemptBudget ==
  \A i \in QueueItemIds : queue_items[i].attempt_count <= MaxAttempts + losses

(* The state of an item follows from its history, across lost leases,      *)
(* releases and rebuilds: its attempts are numbered without gaps and only  *)
(* lost claims take them over the retry policy, its outcome is that of the *)
(* last one, and a cancellation requested before the end wins over every   *)
(* other outcome.                                                          *)
OutcomeFollowsHistory ==
  AttemptHistory /\ AttemptBudget /\ OutcomeOfLastAttempt /\ CancellationWins

(* While the journal replays, rebuilding the projections changes nothing   *)
(* but `claimed' and the ownership of attempts.                            *)
ReplayAgrees ==
  replay_ok =>
    /\ \A i \in QueueItemIds :
         \/ queue_items[i] = replay_items[i]
         \/ /\ replay_items[i].status = "claimed"
            /\ queue_items[i] = [replay_items[i] EXCEPT !.status = "available"]
    /\ replay_attempts = {[a EXCEPT !.token = NoToken] : a \in attempts}

CommitsUnderClaim ==
  \A a \in attempts : a.status = "running" =>
    \A b \in attempts' :
      (b.item = a.item /\ b.number = a.number /\ b.status \in {"completed", "failed"})
      => \E c \in queue_claims :
           /\ c.item = a.item /\ c.token = a.token /\ ~Expired(c)
           /\ \A d \in queue_claims' : d.token # c.token

(* A stale worker commits nothing: an attempt is completed or failed only  *)
(* under its own claim, whose lease has not ended, and the claim goes away *)
(* in the same step.                                                       *)
FencedCommit == [][CommitsUnderClaim]_vars

(* The host routes what is unrouted and lets its workers ask for work.     *)
Driven ==
  /\ \A e \in Events : WF_vars(\E plan \in RoutePlans : RouteIngressEvent(e, plan))
  /\ \A w \in Workers : WF_vars(ClaimNextQueueItem(w))

(* A requested cancellation whose worker is gone, or a later turn of the   *)
(* session it blocks.                                                      *)
AwaitsFinalization(i) ==
  \E c \in AwaitingFinalization :
    \/ i = c
    \/ queue_items[i].session = queue_items[c].session /\ InputCursor(c) < InputCursor(i)

(* As long as the host routes and its workers ask for work, every accepted *)
(* event is settled: its items are routed, run, retried, dead-lettered or  *)
(* cancelled, whichever claims are lost on the way, as long as only        *)
(* finitely many are.  The exception is an item whose cancellation was     *)
(* requested and whose claim was lost, and with it the later turns of its  *)
(* session: it waits for finalize_next_requested_cancellation, which the   *)
(* host never calls.                                                       *)
WorkSettles ==
  Driven => \A i \in QueueItemIds :
    []<>(queue_items[i].status \in Terminal \union {Absent} \/ AwaitsFinalization(i))

-----------------------------------------------------------------------------
(* What the documents say and the code does not do.                        *)

(* docs/runtime-semantics.md:105: "Rebuilding them must produce the same   *)
(* terminal queue and attempt history": in particular the replay of what   *)
(* the queue itself wrote is never refused.                                *)
ReplaySucceeds == replay_ok

(* docs/runtime-semantics.md:361-362: after a worker failure, "the next    *)
(* worker closes any unfinished attempt, cancels the queue item": when a   *)
(* requested cancellation is finalized, no attempt of the item is left     *)
(* running.                                                                *)
RecoveryClosesAttempts ==
  [][\A i \in AwaitingFinalization :
       FinalizeNextRequestedCancellation /\ queue_items'[i].status = "cancelled"
         => RunningAttempts(i)' = {}]_vars

(* The same sentence: a cancelled turn whose worker is gone is cancelled   *)
(* by the next worker.                                                     *)
LostCancellationsEnd ==
  Driven => \A i \in QueueItemIds : []<>(i \notin AwaitingFinalization)

=============================================================================
