-------------------------- MODULE SessionResources --------------------------
(***************************************************************************)
(* The resources an agent session owns in crates/zeta-dispatch: waits and  *)
(* deferred publications (sqlite/resources.rs), the controls of a finished *)
(* turn that create and cancel them (sqlite/attempts.rs), session messages *)
(* (sqlite/sessions.rs).                                                   *)
(*                                                                         *)
(* A transaction is a value: `Database' is the database it reads, every    *)
(* append yields the next one, and `error' names the first refusal.        *)
(* Commit writes the value back only when there is none, so an error rolls *)
(* the whole transaction back, as in the code.                             *)
(*                                                                         *)
(* The queue is reduced to what resources depend on: turns of one session  *)
(* run one at a time in order, a claim may be lost, and a turn that fails  *)
(* is retried.  DispatchQueue has the queue in full.  An event is bound to *)
(* the sessions of its type in the transaction that stores it; unrouted    *)
(* events and locks are in DispatchQueue.                                  *)
(*                                                                         *)
(* The top-level payload fields of an event are represented by one field.  *)
(***************************************************************************)
EXTENDS Naturals, FiniteSets, Sequences, SequencesExt, TLC

CONSTANTS
  None,           \* an absent field, deadline, key or owner
  EventTypes,     \* application event types
  RoutesOf,       \* the <<agent, session>> pairs each event type is bound to
  Inputs,         \* the <<type, value, key>> events clients ingest
  Messages,       \* the <<agent, session, key>> messages clients submit
  Proposals,      \* the sequences of controls a finished turn may propose
  Failures,       \* the errors a turn may report
  CancelTargets,  \* the items clients ask to cancel
  MaxInputs,      \* bound: events and messages stored by clients
  MaxResources,   \* bound: waits and deferred publications created
  MaxAttempts,    \* RetryPolicy.max_attempts
  MaxLosses,      \* bound: claims lost
  MaxTime         \* bound: the clock

VARIABLES
  journal,        \* the retained facts, in cursor order
  items,          \* queue_items, in the order of their input cursors
  attempts,       \* the attempts table
  waits,          \* the waits table
  publications,   \* the deferred_publications table
  held,           \* the claims workers have in memory
  now,            \* the clock, in the unit of deadlines
  inputs,         \* events and messages stored so far
  losses          \* claims lost so far

tables == <<journal, items, attempts, waits, publications>>
vars == <<tables, held, now, inputs, losses>>

Time == 0..MaxTime

TerminalItem == {"completed", "cancelled", "dead_lettered"}

Init ==
  /\ journal = <<>> /\ items = <<>>
  /\ attempts = {} /\ waits = {} /\ publications = {}
  /\ held = {} /\ now = 0 /\ inputs = 0 /\ losses = 0

-----------------------------------------------------------------------------
(* Appending to the journal and projecting the appended fact.              *)

Database ==
  [journal |-> journal, items |-> items, attempts |-> attempts,
   waits |-> waits, publications |-> publications, error |-> None]

Refused(db, error) == [db EXCEPT !.error = error]

IsOk(db) == db.error = None

Commit(db) ==
  IF IsOk(db)
  THEN /\ journal' = db.journal /\ items' = db.items /\ attempts' = db.attempts
       /\ waits' = db.waits /\ publications' = db.publications
  ELSE UNCHANGED tables

NewItem(agent, session, cause) ==
  [agent |-> agent, session |-> session, cause |-> cause,
   status |-> "available", attempt |-> 0, cancel |-> FALSE]

(* index_wait_created: the handle is the primary key, and the partial      *)
(* index waits_one_active_per_session admits one active wait per session.  *)
IndexWaitCreated(db, f) ==
  IF \E w \in db.waits :
       w.handle = f.handle \/ (w.session = f.session /\ w.status = "active")
  THEN Refused(db, "wait_exists")
  ELSE [db EXCEPT !.waits = @ \union
          {[handle |-> f.handle, agent |-> f.agent, session |-> f.session,
            type |-> f.type, value |-> f.value, deadline |-> f.deadline,
            created |-> Len(db.journal), status |-> "active"]}]

(* index_wait_terminal updates the one active row or fails.                *)
IndexWaitTerminal(db, f, status) ==
  LET active == {w \in db.waits : w.handle = f.handle /\ w.status = "active"}
  IN IF active = {}
     THEN Refused(db, "wait_ended")
     ELSE [db EXCEPT !.waits =
             (@ \ active) \union {[w EXCEPT !.status = status] : w \in active}]

IndexPublicationCreated(db, f) ==
  IF \E p \in db.publications : p.handle = f.handle
  THEN Refused(db, "publication_exists")
  ELSE [db EXCEPT !.publications = @ \union
          {[handle |-> f.handle, agent |-> f.agent, session |-> f.session,
            type |-> f.type, value |-> f.value, at |-> f.at,
            created |-> Len(db.journal), status |-> "pending"]}]

IndexPublicationTerminal(db, f, status) ==
  LET open == {p \in db.publications : p.handle = f.handle /\ p.status = "pending"}
  IN IF open = {}
     THEN Refused(db, "publication_ended")
     ELSE [db EXCEPT !.publications =
             (@ \ open) \union {[p EXCEPT !.status = status] : p \in open}]

(* A stored application event becomes one item for every session its type  *)
(* is bound to.                                                            *)
IndexIngress(db, f) ==
  LET bindings == SetToSeq(RoutesOf[f.type])
  IN [db EXCEPT !.items = @ \o
        [n \in 1..Len(bindings) |->
           NewItem(bindings[n][1], bindings[n][2], Len(db.journal))]]

IndexEvent(db, f) ==
  CASE f.kind = "event" -> IndexIngress(db, f)
    [] f.kind = "message" -> db
    [] f.kind = "item.available" ->
         [db EXCEPT !.items = Append(@, NewItem(f.agent, f.session, f.cause))]
    [] f.kind = "attempt.completed" ->
         [db EXCEPT !.attempts =
            {IF a.item = f.item /\ a.number = f.number
             THEN [a EXCEPT !.status = "completed"] ELSE a : a \in @}]
    [] f.kind = "item.completed" -> [db EXCEPT !.items[f.item].status = "completed"]
    [] f.kind = "wait.created" -> IndexWaitCreated(db, f)
    [] f.kind = "wait.matched" -> IndexWaitTerminal(db, f, "matched")
    [] f.kind = "wait.timed_out" -> IndexWaitTerminal(db, f, "timed_out")
    [] f.kind = "wait.cancelled" -> IndexWaitTerminal(db, f, "cancelled")
    [] f.kind = "publication.created" -> IndexPublicationCreated(db, f)
    [] f.kind = "publication.published" ->
         IndexPublicationTerminal(db, f, "published")
    [] f.kind = "publication.cancelled" ->
         IndexPublicationTerminal(db, f, "cancelled")

(* The idempotency key the event constructors give each fact.              *)
KeyOf(f) ==
  CASE f.kind \in {"event", "message"} -> f.key
    [] f.kind = "item.available" -> <<f.kind, f.cause, f.agent>>
    [] f.kind \in {"attempt.completed", "item.completed"} -> <<f.kind, f.item>>
    [] OTHER -> <<f.kind, f.handle>>

RetainedBy(db, key) ==
  {n \in 1..Len(db.journal) : key # None /\ KeyOf(db.journal[n]) = key}

(* append_runtime_event: a retained key must carry the same intention; a   *)
(* new fact is appended and projected.                                     *)
AppendRuntimeEvent(db, f) ==
  LET retained == RetainedBy(db, KeyOf(f))
  IN CASE ~IsOk(db) -> db
       [] IsOk(db) /\ retained # {} ->
            IF \E n \in retained : db.journal[n] = f THEN db ELSE Refused(db, "collision")
       [] OTHER -> IndexEvent([db EXCEPT !.journal = Append(@, f)], f)

-----------------------------------------------------------------------------
(* Matching, cancelling, timing out and publishing (sqlite/resources.rs).  *)

(* The exact event type and every authored top-level field.                *)
Matches(w, e) ==
  w.status = "active" /\ w.type = e.type /\ w.value \in {None, e.value}

(* matching_waits, in creation order.                                      *)
MatchingWaits(db, e) ==
  SetToSortSeq({w \in db.waits : Matches(w, e)},
               LAMBDA v, w : v.created < w.created)

(* The facts that end a wait or a publication, and the continuation of a   *)
(* session, whose item is named after the fact that resumed it.            *)
WaitMatchedEvent(w, cause) ==
  [kind |-> "wait.matched", handle |-> w.handle, event |-> cause]
WaitTimedOutEvent(w) == [kind |-> "wait.timed_out", handle |-> w.handle]
WaitCancelledEvent(handle, by) ==
  [kind |-> "wait.cancelled", handle |-> handle, by |-> by]
WaitContinuationEvent(w, cause) ==
  [kind |-> "item.available", agent |-> w.agent, session |-> w.session, cause |-> cause]
PublicationPublishedEvent(p) ==
  [kind |-> "publication.published", handle |-> p.handle]
PublicationCancelledEvent(handle, by) ==
  [kind |-> "publication.cancelled", handle |-> handle, by |-> by]

EndWithContinuation_NamedAfterCreation(db, w, end) ==
  AppendRuntimeEvent(AppendRuntimeEvent(db, end),
                     WaitContinuationEvent(w, w.created))

EndWithContinuation(db, w, end) ==
  LET ended == AppendRuntimeEvent(db, end)
  IN AppendRuntimeEvent(ended, WaitContinuationEvent(w, Len(ended.journal)))

ResumeWaits(db, e, cause) ==
  FoldLeft(LAMBDA d, w : EndWithContinuation(d, w, WaitMatchedEvent(w, cause)),
           db, MatchingWaits(db, e))

(* The cancellation of a resource that has ended returns the winning state *)
(* and changes nothing; the asserted owner must be the creator.            *)
CancelRow(db, rows, open, fact, agent, session) ==
  CASE ~IsOk(db) -> db
    [] IsOk(db) /\ rows = {} -> Refused(db, "not_found")
    [] IsOk(db) /\ \E r \in rows : \/ agent \notin {None, r.agent}
                                   \/ session \notin {None, r.session} ->
         Refused(db, "authority")
    [] IsOk(db) /\ \E r \in rows : /\ agent \in {None, r.agent}
                                   /\ session \in {None, r.session}
                                   /\ r.status = open ->
         AppendRuntimeEvent(db, fact)
    [] OTHER -> db

CancelWait(db, handle, agent, session, by) ==
  CancelRow(db, {w \in db.waits : w.handle = handle}, "active",
            WaitCancelledEvent(handle, by), agent, session)

CancelPublication(db, handle, agent, session, by) ==
  CancelRow(db, {p \in db.publications : p.handle = handle}, "pending",
            PublicationCancelledEvent(handle, by), agent, session)

CancelResourceInTransaction(db, resource, handle, agent, session, by) ==
  IF resource = "wait"
  THEN CancelWait(db, handle, agent, session, by)
  ELSE CancelPublication(db, handle, agent, session, by)

DueWaits == {w \in waits : w.status = "active" /\ w.deadline # None /\ w.deadline <= now}

DuePublications == {p \in publications : p.status = "pending" /\ p.at <= now}

(* The due rows in the order of their time, then of their creation.        *)
NextDueWait ==
  CHOOSE w \in DueWaits : \A v \in DueWaits :
    w.deadline < v.deadline \/ (w.deadline = v.deadline /\ w.created <= v.created)
NextDueDeferredPublication ==
  CHOOSE p \in DuePublications : \A q \in DuePublications :
    p.at < q.at \/ (p.at = q.at /\ p.created <= q.created)

TimeoutWait(db, w) == EndWithContinuation(db, w, WaitTimedOutEvent(w))

PublishedEvent(p) ==
  [kind |-> "event", type |-> p.type, value |-> p.value,
   key |-> <<"agent.publish", p.handle>>]

(* The event, the waits it resumes and the terminal fact.                  *)
PublishDeferred(db, p) ==
  LET published == AppendRuntimeEvent(db, PublishedEvent(p))
      resumed == ResumeWaits(published, PublishedEvent(p), Len(published.journal))
  IN AppendRuntimeEvent(resumed, PublicationPublishedEvent(p))

(* One round of advance_due: the resource that was due first; a wait and a *)
(* publication of the same time end in that order.                         *)
NextDue ==
  LET w == NextDueWait
      p == NextDueDeferredPublication
  IN IF DueWaits # {} /\ (DuePublications = {} \/ w.deadline <= p.at)
     THEN TimeoutWait(Database, w)
     ELSE PublishDeferred(Database, p)

AdvanceDue ==
  /\ DueWaits # {} \/ DuePublications # {}
  /\ Commit(NextDue)
  /\ UNCHANGED <<held, now, inputs, losses>>

(* resume_waits_for_event, for an event the journal retains.               *)
ResumeWaitsForEvent(n) ==
  /\ journal[n].kind = "event"
  /\ MatchingWaits(Database, journal[n]) # <<>>
  /\ Commit(ResumeWaits(Database, journal[n], n))
  /\ UNCHANGED <<held, now, inputs, losses>>

(* cancel_resource by an operator, who asserts no owner.                   *)
CancelResource(resource, handle) ==
  LET db == CancelResourceInTransaction(Database, resource, handle, None, None, "operator")
  IN /\ IsOk(db)
     /\ Commit(db)
     /\ UNCHANGED <<held, now, inputs, losses>>

-----------------------------------------------------------------------------
(* Clients: ingress and session messages (sqlite/sessions.rs).             *)

Ingest(type, value, key) ==
  /\ inputs < MaxInputs
  /\ RetainedBy(Database, key) = {}
  /\ Commit(AppendRuntimeEvent(Database,
       [kind |-> "event", type |-> type, value |-> value, key |-> key]))
  /\ inputs' = inputs + 1
  /\ UNCHANGED <<held, now, losses>>

(* Only a message that is not retained cancels the session's wait.  A      *)
(* retained key with another intention is refused.                         *)
StoreMessage(message) ==
  LET waiting == {w \in waits : w.session = message.session /\ w.status = "active"}
      cancelled == FoldSet(LAMBDA w, db :
                     CancelWait(db, w.handle, message.agent, message.session, "message"),
                     Database, waiting)
      requested == AppendRuntimeEvent(cancelled, message)
  IN AppendRuntimeEvent(requested,
       [kind |-> "item.available", agent |-> message.agent,
        session |-> message.session, cause |-> Len(requested.journal)])

(* The mistake: the wait is cancelled before the retained key is noticed.  *)
RepeatMessage_CancelsWait(message, n) ==
  FoldSet(LAMBDA w, db :
            CancelWait(db, w.handle, message.agent, message.session, "message"),
          Database, {w \in waits : w.session = message.session /\ w.status = "active"})

RepeatMessage(message, n) ==
  IF journal[n] # message
  THEN Refused(Database, "collision")
  ELSE AppendRuntimeEvent(Database,
         [kind |-> "item.available", agent |-> message.agent,
          session |-> message.session, cause |-> n])

SubmitSessionMessage(agent, session, key) ==
  LET message == [kind |-> "message", agent |-> agent, session |-> session, key |-> key]
      retained == RetainedBy(Database, key)
  IN \/ /\ retained = {}
        /\ inputs < MaxInputs
        /\ Commit(StoreMessage(message))
        /\ inputs' = inputs + 1
        /\ UNCHANGED <<held, now, losses>>
     \/ \E n \in retained :
          /\ Commit(RepeatMessage(message, n))
          /\ UNCHANGED <<held, now, inputs, losses>>

-----------------------------------------------------------------------------
(* Turns: claim and start, the end of an attempt, a lost claim and         *)
(* cancellation.                                                           *)

EndAttempt(i, n, status, error) ==
  {IF a.item = i /\ a.number = n
   THEN [a EXCEPT !.status = status, !.error = error] ELSE a : a \in attempts}

StartTurn(i) ==
  LET n == items[i].attempt + 1
  IN /\ items[i].status = "available" /\ ~items[i].cancel
     /\ \A j \in 1..(i - 1) :
          items[j].session = items[i].session => items[j].status \in TerminalItem
     /\ items' = [items EXCEPT ![i].status = "claimed", ![i].attempt = n]
     /\ attempts' = attempts \union {[item |-> i, number |-> n, status |-> "running",
                                 error |-> None]}
     /\ held' = held \union {<<i, n>>}
     /\ UNCHANGED <<journal, waits, publications, now, inputs, losses>>

(* The lease ends and reconcile_expired_claims returns the item; the       *)
(* attempt keeps its row and the worker its claim.                         *)
LoseClaim(i) ==
  /\ items[i].status = "claimed"
  /\ losses < MaxLosses
  /\ items' = [items EXCEPT ![i].status = "available"]
  /\ losses' = losses + 1
  /\ UNCHANGED <<journal, attempts, waits, publications, held, now, inputs>>

ClaimIsCurrent(c) == items[c[1]].status = "claimed" /\ items[c[1]].attempt = c[2]

(* The fact of a wait or a publication, by its position in the turn.  A    *)
(* publication whose time has come is published at once; it resumes no     *)
(* wait by itself.                                                         *)
CompletionControlEvent(i, position, control) ==
  LET handle == <<i, position>>
      created == [handle |-> handle, agent |-> items[i].agent,
                  session |-> items[i].session, type |-> control.type,
                  value |-> control.value]
  IN CASE control.op = "wait" ->
            [kind |-> "wait.created", deadline |-> control.at] @@ created
       [] control.op = "publish" /\ (control.at = None \/ control.at <= now) ->
            PublishedEvent(created)
       [] control.op = "publish" /\ control.at # None /\ control.at > now ->
            [kind |-> "publication.created", at |-> control.at] @@ created

ApplyControl(db, i, position, control) ==
  IF control.op = "cancel"
  THEN CancelResourceInTransaction(db, control.resource, control.handle,
                                   items[i].agent, items[i].session, "agent")
  ELSE AppendRuntimeEvent(db, CompletionControlEvent(i, position, control))

(* The positions of the controls, in the order they are applied.           *)
CompletionControls(controls) == [p \in 1..Len(controls) |-> p]

CompletedAttemptEvent(i, n, controls) ==
  [kind |-> "attempt.completed", item |-> i, number |-> n, controls |-> controls]

CompletedQueueEvent(i) == [kind |-> "item.completed", item |-> i]

(* The mistake: the refused control is skipped and the rest committed.     *)
(* complete_claimed_attempt: the attempt, the controls, the item; all of   *)
(* them or none.                                                           *)
CompletedTurn(i, n, controls) ==
  LET completed == AppendRuntimeEvent(Database, CompletedAttemptEvent(i, n, controls))
      applied == FoldLeft(LAMBDA db, p : ApplyControl(db, i, p, controls[p]),
                          completed, CompletionControls(controls))
  IN AppendRuntimeEvent(applied, CompletedQueueEvent(i))

CancelledTurn(i, n) ==
  /\ items' = [items EXCEPT ![i].status = "cancelled"]
  /\ attempts' = EndAttempt(i, n, "cancelled", None)
  /\ UNCHANGED <<journal, waits, publications>>

(* fail_claimed_attempt with the retryable code agent_execution_failed.    *)
FailedTurn(i, n, error) ==
  \/ /\ items[i].cancel
     /\ CancelledTurn(i, n)
  \/ /\ ~items[i].cancel
     /\ items' = [items EXCEPT ![i].status =
                    IF n < MaxAttempts THEN "available" ELSE "dead_lettered"]
     /\ attempts' = EndAttempt(i, n, "failed", error)
     /\ UNCHANGED <<journal, waits, publications>>

(* The runtime handles AgentFinished: commit_agent_execution, and          *)
(* fail_claimed_agent when the commit is refused.                          *)
FinishTurn(c, controls) ==
  LET i == c[1]
      n == c[2]
      completion == CompletedTurn(i, n, controls)
  IN /\ c \in held /\ ClaimIsCurrent(c)
     /\ Cardinality(waits) + Cardinality(publications)
          + Cardinality({p \in 1..Len(controls) : controls[p].op # "cancel"}) <= MaxResources
     /\ \/ items[i].cancel /\ CancelledTurn(i, n)
        \/ /\ ~items[i].cancel /\ IsOk(completion)
           /\ Commit(completion)
        \/ /\ ~items[i].cancel /\ ~IsOk(completion)
           /\ FailedTurn(i, n, completion.error)
     /\ held' = held \ {c}
     /\ UNCHANGED <<now, inputs, losses>>

FailTurn(c, error) ==
  /\ c \in held /\ ClaimIsCurrent(c)
  /\ FailedTurn(c[1], c[2], error)
  /\ held' = held \ {c}
  /\ UNCHANGED <<now, inputs, losses>>

(* A result whose claim is no longer current changes nothing.              *)
FinishStaleTurn(c) ==
  /\ c \in held /\ ~ClaimIsCurrent(c)
  /\ held' = held \ {c}
  /\ UNCHANGED <<tables, now, inputs, losses>>

RequestCancellation(i) ==
  /\ items[i].status \in {"available", "claimed"} /\ ~items[i].cancel
  /\ items' = [items EXCEPT ![i].cancel = TRUE,
                 ![i].status = IF @ = "claimed" THEN @ ELSE "cancelled"]
  /\ UNCHANGED <<journal, attempts, waits, publications, held, now, inputs, losses>>

(* The latest running attempt of an unclaimed item with a request ends.    *)
FinalizeCancellation(i) ==
  /\ items[i].status = "available" /\ items[i].cancel
  /\ items' = [items EXCEPT ![i].status = "cancelled"]
  /\ attempts' = EndAttempt(i, items[i].attempt, "cancelled", None)
  /\ UNCHANGED <<journal, waits, publications, held, now, inputs, losses>>

Tick ==
  /\ now < MaxTime
  /\ now' = now + 1
  /\ UNCHANGED <<tables, held, inputs, losses>>

-----------------------------------------------------------------------------
Turn ==
  \/ \E i \in 1..Len(items) :
       \/ StartTurn(i) \/ LoseClaim(i)
       \/ i \in CancelTargets /\ RequestCancellation(i)
       \/ FinalizeCancellation(i)
  \/ \E c \in held :
       \/ \E controls \in Proposals : FinishTurn(c, controls)
       \/ \E error \in Failures : FailTurn(c, error)
       \/ FinishStaleTurn(c)

Client ==
  \/ \E e \in Inputs : Ingest(e[1], e[2], e[3])
  \/ \E m \in Messages : SubmitSessionMessage(m[1], m[2], m[3])
  \/ \E w \in waits : CancelResource("wait", w.handle)
  \/ \E p \in publications : CancelResource("publication", p.handle)

(* The operations the native runtime runs, and clients beside it.  The     *)
(* runtime never calls resume_waits_for_event.                             *)
RuntimeNext == Turn \/ Client \/ AdvanceDue \/ Tick

Next == RuntimeNext \/ \E n \in 1..Len(journal) : ResumeWaitsForEvent(n)

Spec == Init /\ [][Next]_vars

FairSpec == Spec /\ WF_vars(Tick)

(* The actor advances due resources on every refresh: with the next        *)
(* command, or when it is woken for a deadline (next_deadline_ms), which   *)
(* by itself it is not always (DueTicksAreServed of NativeRuntime).  That  *)
(* a refresh comes while something is due is weak fairness of AdvanceDue,  *)
(* written with its guard in the place of ENABLED.                         *)
NobodyIsDue == DueWaits = {} /\ DuePublications = {}
Refreshed == []<>NobodyIsDue \/ []<><<AdvanceDue>>_vars

RuntimeSpec == Init /\ [][RuntimeNext]_vars

-----------------------------------------------------------------------------
(* Properties.                                                             *)

Handles == {w.handle : w \in waits} \union {p.handle : p \in publications}

TypeOK ==
  /\ now \in Time /\ inputs \in 0..MaxInputs /\ losses \in 0..MaxLosses
  /\ \A i \in 1..Len(items) :
       /\ items[i].status \in {"available", "claimed"} \union TerminalItem
       /\ items[i].cause \in 1..Len(journal)
  /\ \A w \in waits :
       /\ w.status \in {"active", "matched", "timed_out", "cancelled"}
       /\ w.deadline \in Time \union {None}
       /\ journal[w.created].kind = "wait.created"
  /\ \A p \in publications :
       /\ p.status \in {"pending", "published", "cancelled"}
       /\ p.at \in Time
       /\ journal[p.created].kind = "publication.created"
  /\ \A c \in held : c[1] \in 1..Len(items) /\ c[2] \in Nat

WaitEnds(handle) ==
  {n \in 1..Len(journal) :
     /\ journal[n].kind \in {"wait.matched", "wait.timed_out", "wait.cancelled"}
     /\ journal[n].handle = handle}

(* A match, a timeout and a cancellation race for a wait and one of them   *)
(* wins: a wait that has ended has one terminal fact, and its session has  *)
(* one continuation, for the wait's agent, exactly when the wait was       *)
(* matched or timed out.                                                   *)
OneEndOneContinuation ==
  \A w \in waits :
    LET ends == WaitEnds(w.handle)
        resumed == {i \in 1..Len(items) : items[i].cause \in ends}
    IN /\ Cardinality(ends) = IF w.status = "active" THEN 0 ELSE 1
       /\ Cardinality(resumed) = IF w.status \in {"matched", "timed_out"} THEN 1 ELSE 0
       /\ \A i \in resumed : items[i].agent = w.agent /\ items[i].session = w.session

(* A session never waits for two things at once, whoever of its turns,     *)
(* messages and continuations created the waits.                           *)
OneActiveWaitPerSession ==
  \A v, w \in waits :
    v.status = "active" /\ w.status = "active" /\ v.session = w.session => v = w

PublishedAs(handle) ==
  {n \in 1..Len(journal) :
     journal[n].kind = "event" /\ journal[n].key = <<"agent.publish", handle>>}

(* Publication and cancellation exclude each other: the event of a         *)
(* deferred publication is in the journal once if it was published, and    *)
(* never if it is pending or was cancelled.                                *)
PublishedOrCancelled ==
  \A p \in publications :
    Cardinality(PublishedAs(p.handle)) = IF p.status = "published" THEN 1 ELSE 0

(* What position p of a completed turn left in the journal.                *)
EffectsOf(i, p, control) ==
  {n \in 1..Len(journal) :
     LET f == journal[n]
     IN CASE control.op = "wait" -> f.kind = "wait.created" /\ f.handle = <<i, p>>
          [] control.op = "publish" ->
               \/ f.kind = "event" /\ f.key = <<"agent.publish", <<i, p>>>>
               \/ f.kind = "publication.created" /\ f.handle = <<i, p>>
          [] control.op = "cancel" ->
               /\ f.kind \in (IF control.resource = "wait"
                             THEN {"wait.matched", "wait.timed_out", "wait.cancelled"}
                             ELSE {"publication.published", "publication.cancelled"})
               /\ f.handle = control.handle}

(* The controls a completed attempt records are the controls that were     *)
(* applied: every one of them took effect, before the item completed, in   *)
(* the order of the positions; and no turn that did not complete left a    *)
(* resource behind.                                                        *)
RecordedControlsApplied ==
  /\ \A a \in 1..Len(journal) : journal[a].kind = "attempt.completed" =>
       LET i == journal[a].item
           controls == journal[a].controls
       IN \E b \in 1..Len(journal) :
            /\ a < b /\ journal[b] = [kind |-> "item.completed", item |-> i]
            /\ \A p \in 1..Len(controls) :
                 /\ \E n \in EffectsOf(i, p, controls[p]) : n < b
                 /\ controls[p].op # "cancel" =>
                      \E n \in EffectsOf(i, p, controls[p]) : n - a \in 1..p
  /\ \A h \in Handles : items[h[1]].status = "completed"

(* A session message ends the wait of its session together with storing    *)
(* the message: a client that retries a stored message never cancels the   *)
(* wait the session has entered since.                                     *)
WaitYieldsOnlyToNewMessage ==
  \A n \in 1..Len(journal) :
    journal[n].kind = "wait.cancelled" /\ journal[n].by = "message" =>
      /\ n < Len(journal)
      /\ journal[n + 1].kind = "message"
      /\ \E w \in waits : w.handle = journal[n].handle /\ w.session = journal[n + 1].session

NothingDue ==
  /\ \A w \in waits : w.status = "active" => w.deadline = None
  /\ \A p \in publications : p.status # "pending"

(* A wait with a deadline ends, and a deferred publication is published or *)
(* cancelled, whatever clients and turns do, as long as the actor          *)
(* refreshes: the bounded resources run out in every such behaviour.       *)
DueResourcesEnd == Refreshed => []<>NothingDue

(* runtime-semantics.md: "A newly stored non-runtime event checks active   *)
(* waits in the same transaction."  So no wait stays active when an event  *)
(* it matches was stored after it.                                         *)
StoredEventsResumeWaits ==
  \A w \in waits : \A n \in (w.created + 1)..Len(journal) :
    journal[n].kind = "event" => ~Matches(w, journal[n])

(* runtime-semantics.md: "A second request is a permanent attempt failure  *)
(* and leaves the existing wait unchanged."  So the turn does not run      *)
(* again.                                                                  *)
SecondWaitIsPermanent ==
  \A a \in attempts : a.error = "wait_exists" => items[a.item].status = "dead_lettered"

=============================================================================
