# A verification of Zeta

Zeta runs agents in the background: events arrive, are routed to agents, run as
turns of sessions, and publish events that connectors deliver. What has to
survive a crash lives in one SQLite store behind an append-only journal. This
directory models the Rust implementation in TLA+, model-checks it with TLC, and
proves with TLAPS the main safety properties of the durable core, of the agent lane and
of the processes that own a project.

## 1. The system

| part | state | operations | where (`src/crates/`) |
| --- | --- | --- | --- |
| work queue | queue items, claims, locks, attempts | ingest, route, claim, renew, release, reconcile, start, complete, fail, cancel, finalize, rebuild | `zeta-dispatch/src/sqlite/{routing,coordination,attempts,cancellation,projection}.rs`, `state.rs` |
| egress outbox | effects and their claims | plan, claim, start, renew, complete, fail, reconcile | `zeta-dispatch/src/sqlite/effects.rs` |
| session resources | waits, deferred publications, session messages | match, time out, cancel, publish; the controls of a completed turn | `zeta-dispatch/src/sqlite/{resources,sessions,attempts}.rs` |
| event journal | entries with a hash chain | append, list, follow, causal chain, verify | `zeta-journal`, `zeta-dispatch/src/sqlite/journal.rs` |
| route matching | none | which agents an event matches, and under which identities | `zeta-dispatch/src/{routing,identity}.rs` |
| runtime actor | active agents, deliveries, polls, timers | one command or deadline at a time; workers on threads | `zeta/src/runtime.rs` |
| scheduler | facts in the journal | activate, tick, status | `zeta/src/runtime_services.rs` |
| process ownership | lease, owner metadata, sockets | `up`, `down`, `status`, `reload` | `zeta/src/main.rs`, `runtime_services.rs` |
| agent runner | one attempt: transcript, trace, effects | model and tool loop, abort, the next attempt | `zeta-agent/src/runner.rs` |
| provider host | a shared child process and its sandboxes | start, call, abort, time out, replace | `zeta/src/{python_host,process_executor}.rs` |
| model gateway | one streamed answer | read, decode, assemble, time out | `zeta-agent/src/model` |
| file tools | files | read, write, edit, tagged edit, patch | `zeta-agent/src/tools/{edit,files}.rs` |
| IPC | handshake, pending calls, frames | send, handle, tick, close | `zeta-ipc/src`, `zeta/src/lib.rs` |
| terminal | drafts, submissions, a timeline | send, follow, reconnect, replay | `zeta-tui/src/{main,app}.rs` |

How they interact. One process owns a project through a lease. Its actor owns the
store, and every call into the store is one IMMEDIATE transaction that appends to
the journal. Each handler of the actor ends in a refresh: expired claims are
reconciled, due resources advanced, events routed, effects planned, and the agent
and egress lanes filled with worker threads. An agent worker runs the agent
runner, which asks the model gateway, calls tools (in the process or through the
provider host), and hands every durable write to the actor. Results are committed
under the claim the worker was given. Clients reach the actor through a local
socket and the IPC session. A restart finds claims of the previous process and
waits for their leases to end.

## 2. Modules

| module | models |
| --- | --- |
| `Lifecycle`, `DispatchQueue` | the work queue, its workers and clients, and the replay of the journal |
| `EffectOutbox`, `NativeRuntime` | the transactions of the outbox, and over them the actor, its timers, the egress lane and its workers |
| `SessionResources` | waits, deferred publications, controls, session messages |
| `Chain`, `MemoryJournal`, `SqliteJournal`, `JournalQueries` | the hash chain; the reference journal; the durable journal that implements it; its readers |
| `RouteMatching` | globs, session rules and identities, with a reference definition of what a glob means |
| `Scheduler` | activation and ticks, one append at a time, by several handles |
| `AgentLane` | the agent lane of the actor: routing, claims, workers, leases, reload and restart |
| `Subscriptions` | polling connectors, ingestion and cursors |
| `RuntimeOwner` | the processes that start, probe, reload and stop a runtime |
| `AgentRunner` | the attempts of one queue item |
| `ProviderHost` | workers that share a provider process |
| `ModelStream` | one streamed model request |
| `EditTools` | the file tools, with other writers between their steps |
| `IpcSession`, `FrameReader`, `LocalConnection` | both ends of a session; lines from chunks; one accepted connection |
| `TerminalClient` | the terminal as a client that loses its connection |
| `MCDispatchQueue`, `MCNativeRuntime`, `MCJournal` | instances of one module |
| `MCDispatch`, `MCServices`, `MCAgents`, `MCProgress` | suites of instances (below) |
| `DispatchQueueProofs`, `DispatchQueueCoordinationProofs`, `DispatchQueueStepProofs`, `DispatchQueueHistoryProofs` | theorems about the queue; each extends the one before |
| `NativeRuntimeProofs`, `JournalProofs`, `AgentLaneProofs`, `RuntimeOwnerProofs` | theorems about the outbox, the journal, the lane and the processes |

Names follow the source: the action `ClaimNextQueueItem` is
`claim_next_queue_item`, the variable `waits` is the table. A definition named
`X_Y` is `X` with a plausible mistake `Y`. It is not part of any specification;
replacing `X` by it shows that the properties notice.

*Suites.* A suite holds several instances side by side. Its variable `part` says
which one runs and never changes, so a suite has exactly the behaviours of its
instances, each with its own bounds. A property of a suite groups the properties of
the components that belong to one idea, each said of the parts it applies to;
every conjunct is defined and explained in the module of its component. A suite extends
the component it shares with a proof module (`MCDispatch` the queue, `MCServices` the lane,
`MCAgents` the processes), so that a run and a theorem state one and the same property.

### How each module represents its code

**`DispatchQueue`.** Each operation of `Dispatch` is one transaction and one
action. The concurrency is between workers, whose `held` claim may be stale,
clients and the clock. The code only compares deadlines with the current time, so a
deadline is the time left until it, cut off at zero. A rebuild is a left fold over
the journal; the journal is represented by the value of that fold
(`replay_items`, `replay_attempts`, and `replay_ok`, which turns false once a
retained entry would be refused). The set of agents an event matches is an input
(`RoutePlans`); `RouteMatching` has the matching itself.

**`EffectOutbox` and `NativeRuntime`.** One operator per transaction of
`effects.rs`, called in the order of `run_actor`. A handler is several transactions,
and a crash or a tick of the clock can fall between any two; `pc` says which is
next:

    arm -> wait | blocked | poll      next_actor_deadline, receive_until
    poll -> renew -> reconcile        the Deadline branch
    reconcile -> plan -> claim -> arm refresh_actor_state
    claim -> start -> spawn -> claim  fill_egress_lane

Deadlines run down to -1, "in the past", because the code treats a deadline of this
moment and one in the past differently. `blocked` is the wait with the endless
timeout; only a command ends it. The agent lane acts on other tables and appears
through the commands it causes. Effects are named by planning order.

**`SessionResources`.** A transaction is a value that every append extends; an
error discards it as a whole. The queue is reduced to the order of turns, lost
claims and retries.

**Journal.** A hash is the sequence of what is hashed, so equal hashes mean equal
histories: collisions are taken not to happen. `SqliteJournal` has the statements of
the append in their order (lookup by id and by key, comparison, insertion,
projection, rollback); `MemoryJournal` is the in-memory journal of `zeta-journal`.
The refinement maps rows to entries and reply to reply.

**`RouteMatching`.** Texts are sequences of character codes. The format language of
session templates is left out: a field renders as its value.

**`Scheduler`.** A cron expression is the set of instants at which it fires; the
calendar library is external. Days are short, and every read of the journal and
every append of a tick is a step of its own, because two handles may tick at once.

**`AgentLane`, `Subscriptions`.** Steps of `refresh_actor_state` and of a poll, with
the process ending between any two of them. What is in the store survives. A reload
replaces the egress targets before it plans and adopts the project, so a refused one may
leave them ahead (`targets`); that planning of deliveries succeeds is taken from
`NativeRuntime`, where its failure is section 4.

**`RuntimeOwner`.** One process per command. Writing the metadata and announcing readiness
are two steps. A kill releases the kernel lock and leaves metadata and socket entries behind.

**`AgentRunner`.** Writes a step asks for form a queue that is emptied before the run
goes on; a crash or a refusal falls between any two. A tool stands for a capability
with its arguments, which is what names an effect.

**`ProviderHost`.** Calls are made under a mutex. A call can be answered, hang, time
out, be aborted or meet a broken connection, and the process is replaced. The request is
written before the deadline is set, and the write waits for as long as the process leaves its
input unread.

**`ModelStream`.** The server's text is a sequence of symbols that arrive in chunks
of any size; events of both protocols are records.

**`EditTools`.** A file is a sequence of characters. Edits and patches are modelled as
what they parse to; a tag identifies a content. Reading, preparing, each write and
the record of the diff are separate steps, and another writer may act between them.

**IPC.** The session is modelled at both ends with an ordered stream between them, and
with a foreign peer that may send anything well-formed. `LocalConnection` models the
`select!` that drops a pending read.

**`TerminalClient`.** At the other end is the process of `zeta ipc stdio`, in Python
(`zeta/src/zeta/ipc`). Each request is a task, and each notification another, so answers come
in any order and a notification before or after the answer to the message it is about. A
request is named by its purpose: no two for one purpose are pending.

## 3. Runs

| run | module | asks |
| --- | --- | --- |
| `dispatch` | `MCDispatch` | do outcomes follow from histories, through retries, cancellation, lost leases and rebuilds, and do sessions keep their order? |
| `queue_liveness` | `MCDispatchQueue` | are locks exclusive and backed by claims, and does every event settle? |
| `runtime_safety` | `MCNativeRuntime` | is an unsafe delivery made once, by one owner, and is a settled one final? |
| `journal` | `MCJournal` | does the durable journal implement the reference journal, verify, and serve its readers? |
| `services` | `MCServices` | are the services around the queue safe? |
| `agents` | `MCAgents` | are an agent's run, its tools, the connections to the runtime and its ownership safe? |
| `progress` | `MCProgress` | does each component make progress? |
| `queue_replay` | `MCDispatchQueue` | violated, section 4 |
| `runtime_timers`, `runtime_uncertain`, `runtime_planning` | `MCNativeRuntime` | violated, section 4 |
| `runner_unsafe` | `MCAgents` | violated, section 4 |

What the passing runs show, by component:

* **Queue** (`dispatch`, `queue_liveness`, `progress`). A stale worker commits nothing
  (`FencedCommit`), locks exclude (`LockExclusion`, `LocksFollowClaims`), turns of a
  session run in order (`SessionOrder`); attempts have no gaps and a budget that only
  lost claims exceed, the outcome is that of the last one and a cancellation wins over
  every outcome not yet recorded (`OutcomeFollowsHistory`); the tables agree with what a
  replay yields (`ReplayAgrees`); every event settles while the queue is driven, unless its
  cancellation was requested and its worker lost (`WorkSettles`).
* **Outbox** (`runtime_safety`, `progress`). `UnsafeAtMostOnce`, `OneOwnerPerDelivery`,
  `SettledIsFinal`; safe deliveries settle (`WorkEnds`).
* **Journal** (`journal`). What is retained verifies (`RetainedJournalVerifies`); a row that
  is lost, edited, repeated or exchanged is detected (`DamageIsDetected`); a follower with a
  cursor has a prefix, a causal chain is complete although causes may form a cycle, and the
  list of a cause, a session or a type has exactly its rows in order
  (`ReadersSeeTheJournal`); the durable journal implements the reference journal
  (`ImplementsMemoryJournal`).
* **Session resources** (`services`, `progress`). A wait ends once and starts one
  continuation whatever match, timeout and cancellation race, and a publication is
  published or cancelled, not both (`ResourcesEndOnce`); the controls of a turn are applied
  all or none, one wait per session, and a repeated message ends no later wait
  (`ControlsTakeEffectOnce`); everything due ends (`ServicesKeepUp`).
* **Scheduler** (`services`, `progress`). One event per occurrence, in order, with several
  handles and ticks that stop anywhere; a tick that completes has served what was due;
  nothing from before the activation is caught up (`OccurrencesAreExact`). The latest
  occurrence is caught up in the end (`ServicesKeepUp`).
* **Agent lane and subscriptions** (`services`, `progress`). Live claims are held by a
  worker of this process, and there are no more workers than places (`ClaimsAreServed`); a
  revision in use or of queued work is in the archive, and the copies of the active one agree
  while no reload is under way and none has failed (`RevisionsAreKept`). A cursor never skips an event,
  whichever poll failed (`PollsLoseNothing`). Routed work ends (`WorkEnds`) and events
  arrive (`ServicesKeepUp`).
* **Processes** (`agents`, `progress`). An owner that serves can be reached and what a
  killed one left never blocks the next (`OwnerIsReachable`); `down` returns after its
  target and the parent of a detached runtime tells the truth (`CommandsTellTheTruth`);
  "running" is said of the holder of the lease, whose metadata is there and whose sockets
  answer (`RunningMeansServing`); a runtime asked to
  stop releases its lease (`ServicesKeepUp`).
* **Routing** (`services`, `RoutesMeanTheirPatterns`). The matcher agrees with the meaning
  of every pattern of the instance; every match gets a decision; agents share no session.
* **Agent runner** (`agents`, `progress`). An effect is recorded as started before it is
  executed and the trace written before the event that names it (`RecordedBeforeSeen`); a
  batch is done only when each of its calls has one result under its id, which is that of the
  first call with the id, and after an abort at most the tool already committed to runs
  (`CallsAreAnswered`); every run ends (`RunsEnd`).
* **Provider host** (`agents`, `progress`). One process at a time, replies go to the call
  that asked, a sandbox has a holder (`HostIsShared`); every call returns although a
  provider may hang, unless a request is being written to a process that has stopped reading
  (`RunsEnd`).
* **Model stream** (`agents`, `progress`). The answer does not depend on how the bytes were
  cut, every delta is shown once and in order, they are the text that is returned unless the
  server also sent whole messages, and only complete answers are returned
  (`AnswersAreFaithful`); fragments go to their calls and outputs follow them
  (`CallsAreAssembled`); a generation ends however the server behaves (`RunsEnd`).
* **File tools** (`agents`). A refused call changed nothing and an applied patch is complete
  (`PatchesAreAllOrNothing`); a tagged edit overwrites the text its tag stands for, unless
  somebody writes between the tool's own read and write; line operations that are apart act on
  the numbering the model saw, hunks go forward, the diff describes the edit
  (`EditsMeanWhatWasSeen`).
* **IPC and terminal** (`agents`, `progress`). Two ends agree on what is pending, and the
  window of one request holds although a foreign end sends two (`EndsAgree`); lines do not
  depend on chunks (`FramesAreLines`); answers come in order (`RequestsAreAnswered`); a message is kept until it is resolved and
  shown once, and no event is skipped across a reconnection (`TerminalLosesNothing`);
  requests resolve, messages settle and events are shown (`ClientsAreServed`).

### Bounds

* *Two of what competes.* Two events, items, effects, workers, processes, handles,
  subscriptions, resources: ordering, exclusion and races are between two. Three where a
  gap needs a neighbour on either side (events of the terminal in part `gaps`). Of the four
  commands of part `owner` (two ups, a down and a status), any three run beside each other.
* `MaxAttempts` = 2: one retry and one exhausted budget. Tokens and `MaxStarts` exceed
  what two losses need, so an item can have two unfinished attempts.
* `MaxLosses`, `MaxCrashes`, `MaxFailures`, `MaxBreaks`: each kind of fault at least once,
  at any step. In `progress` some parts have fewer faults than in the safety suites,
  since liveness checking costs more; the comments at the instances say which.
* `MaxSlips`: how often the clock moves inside a handler of the actor. Three, in
  `runtime_safety`, let a lease end while a worker is being spawned.
* `MaxTime`, `Lease`, `Heartbeat`, `DayLength`: long enough for a renewal between two ends
  and for a deadline that is missed.
  In `queue_liveness` the lease is one tick, so a renewal never meets a shorter lease; that
  locks are renewed with their claim is proved for every lease (section 6). The first item
  may be cancelled there at any step.
* `PageSize` = 1, `PeerLimit`, `RuntimeLimit`, `Capacity`, `EgressCapacity`,
  `MaxFrameBytes`, `MaxEvent`, `MaxQueued`: small, so that limits are reached.
* Inputs of the pure algorithms: all patterns of three characters of the glob alphabet
  and classes of up to four, all streams of six bytes, all pairs of line operations and
  of hunks over three lines.

Workers, tokens and the events of the lane are symmetric in the safety runs. Runs with
liveness use no symmetry. Deadlock is checked where the system never stops
(`dispatch`, `queue_liveness`, the actor, `journal`); the other suites hold parts that end, such
as a process or an attempt, and switch it off.

### Fairness

*Queue.* Weak fairness of the workers, which start and end what they hold, and of the clock.
That somebody goes on routing and claiming is not assumed of the specification: it is the
premise `Driven` of `WorkSettles`. Claiming reconciles expired claims. Clients, crashes,
releases and rebuilds owe nothing. `finalize_next_requested_cancellation` is called by tests
only, so nothing is assumed of it, and an item that waits for it is exempt. Without finitely
many losses nothing settles, since the code has no limit on attempts whose worker was lost
(`AttemptBudget` says how far they go).

*Actor.* Weak fairness of the actor thread and of connector calls, which are assumed to
return; strong fairness of the channel, which delivers in order while the actor receives
only now and then, and of the clock. The timers of the actor owe nothing: a deadline that has
passed may become an endless wait (section 4). What they would bring about is therefore a
premise. `WorkEnds` is said of a runtime that keeps receiving events (`WorkArrives`), which
includes events it has seen; `ServicesKeepUp` of one whose timers go on firing
(`TimersFire`: schedules are ticked, connectors polled, due resources advanced).

*Others.* Weak fairness of each thread, process or task that the code runs: the steps of a
tick, of the lane, of a command, of a poll, of a run, of a host call, of a generation, and
of each direction of a connection. A model, a tool and a handler of a request are assumed
to answer; a provider and a model server are not, their timeouts are what ends the call. A
subscription is assumed to deliver if asked again and again (strong fairness). Killing,
aborting, cancelling and losing a connection owe nothing. For resources, the refresh calls
`advance_due` until nothing is due, which the premise says as: infinitely often nothing is
due, or infinitely often something due is advanced.

*Shared conditions.* In `MCProgress` one fairness condition covers an action of each part.
`part` never changes, so WF of the disjunction is WF of the action of the part that runs.

## 4. Violated properties with a run

1. **A rebuild fails after a recovered attempt** (`queue_replay`, `ReplaySucceeds`,
   `routing.rs:538`). Recovery makes an item available without a journal entry. The next
   start journals `claimed` after `claimed`, which the replay refuses.
   `docs/runtime-semantics.md:105` promises the same history.
2. **A deadline in the past becomes an endless wait** (`runtime_timers`,
   `DueTicksAreServed`, `runtime.rs:1773`). A negative remainder is cast to `u64`. No
   command but `TickSchedules` and `Reload` then moves the tick.
   `docs/native-runtime.md:244` says a due schedule fires at its deadline.
3. **An uncertain unsafe delivery is never marked** (`runtime_uncertain`,
   `UncertainBecomesAmbiguous`, `effects.rs:100`). It stays `started`;
   `docs/native-runtime.md:249` says it becomes ambiguous.
4. **One event that cannot be planned stops the lanes** (`runtime_planning`,
   `PublishedIsPlanned`, `runtime.rs:2278`). `docs/native-runtime.md:245` says a completed
   agent event creates one durable delivery.
5. **A started unsafe effect does not stop a retry** (`runner_unsafe`,
   `UnsafeEffectStopsRetry`, `runner.rs:498`). `blocking_unsafe_effect` is called from
   tests only; `docs/runtime-semantics.md:434` says a later attempt fails permanently
   without invoking the agent.

## 5. Divergences without a run

The modules also state documented rules that the code does not keep. TLC refutes each on a
small instance of its module; the definitions are kept so that a fix can be checked.

| property | module | the rule | the code |
| --- | --- | --- | --- |
| `LostCancellationsEnd` | `DispatchQueue` | `docs/runtime-semantics.md:361`: the next worker cancels an item with a cancellation request | `cancellation.rs:230`: only tests call `finalize_next_requested_cancellation`; the item is not claimable and holds its session |
| `RecoveryClosesAttempts` | `DispatchQueue` | `docs/runtime-semantics.md:361`: finalization closes any unfinished attempt | `cancellation.rs:293`: only the latest is closed; an item that lost several workers keeps running attempts |
| `StoredEventsResumeWaits` | `SessionResources` | `docs/runtime-semantics.md:320`: a newly stored event checks active waits in the same transaction | `runtime.rs:2050`: `resume_waits_for_event` is called by tests only; a wait is matched by a deferred publication and by nothing else |
| `SecondWaitIsPermanent` | `SessionResources` | `docs/runtime-semantics.md:310`: a second wait is a permanent failure | `runtime.rs:2712`: the rolled-back completion is recorded as a retryable failure |
| `MissedWasNotPublished` | `Scheduler` | `runtime_services.rs:970`: retried ticks repair missing decisions | `runtime_services.rs:1390`: on a later day the occurrence is recorded as missed although it was published |
| `DueScheduleFires` | `Scheduler` | `docs/native-runtime.md:113`: a tick emits all due events | `runtime_services.rs:1012`: the tick ends at the first failing calendar search |
| `StatusIsReadOnly` | `RuntimeOwner` | `crates/zeta/README.md:141`: `status` is read-only | `main.rs:1023`: it takes the lease, and a concurrent `up` fails |
| `IdleIntervalIsPinged` | `IpcSession` | `session.rs:363`: a ping after one idle interval | `session.rs:385`: none is sent when the window is full |
| `EveryRequestIsAnswered` | `LocalConnection` | `spec/ipc-v0.md:34`: one line is one object | `lib.rs:525`: a notification drops a half-read line; so far only tests call `notify_event` |
| `BarrierIsShort` | `AgentLane` | `docs/runtime-semantics.md:182`: a short routing barrier | `runtime.rs:2818`: an event that cannot be routed blocks every later item |
| `FailedReloadKeepsRevision` | `AgentLane` | `docs/native-cli.md:60`: a failed reload keeps the previous revision | `main.rs:1209`: file and actor have the new one when the refresh fails |
| `IdempotentEffectMayRepeat` | `AgentRunner` | `docs/runtime-semantics.md:431`: idempotent operations may enter the normal retry policy | `effects.rs:560`: the second attempt's fact differs in its cause or status and is refused |
| `LeaseSurvivesCancellation` | `ProviderHost` | `docs/runtime-semantics.md:366`: a cancellation does not kill an executor process | an aborted call ends the process its neighbours hold sandboxes in |
| `ItemsAreUnambiguous` | `RouteMatching` | `identity.rs:231`: the compound identity remains unambiguous | `identity.rs:242`: event id and agent id are joined by a separator both may contain |
| `EditsAreIdempotent` | `EditTools` | `docs/concepts.md:549`: `write` and `edit` are content-idempotent | `edit.rs:21`: an exact edit whose new text contains the old one applies again |
| `UnfitCallsAreRefused` | `EditTools` | `docs/tool-profiles.md:95`: update context must have one exact match | `apply_hunks` slices past the end of the file and panics |
| `DraftsStayInPlace` | `TerminalClient` | `README.md:252`: drafts stay in place | `app.rs:1485`: a failed submission replaces the draft begun since |

Three more limits are exempt from the properties and have no rule to refute. Insertions are
not part of the overlap check of a tagged edit (`edit.rs:355`): one that falls inside a range
another operation replaces is dropped, and a line of the range survives. A patch whose second
write fails leaves the first file changed (`commit_changes`). A request to a provider that
does not read its input is written without a timeout (`process_executor.rs:661`), while the
host is locked.

## 6. Theorems

All hold for every value of the constants that satisfies the named assumptions
(`BoundsAssumption`, `NamesAssumption`, `SessionsAreAgentScoped`, `OutboxAssumption`,
`RuntimeAssumption`, `EventsAssumption`, `LaneAssumption`, `OwnerAssumption`), which the
runs evaluate. They say that numbers are numbers, that names of different kinds differ,
that a session belongs to one agent, and that an event is the record of its fields.

| theorem | statement |
| --- | --- |
| `TypeCorrect` | `Spec => []TypeOK` of the queue |
| `LocksAreExclusive` | `Spec => []LockExclusion` |
| `LocksAreBacked` | `Spec => []LocksFollowClaims` |
| `SessionsRunInOrder` | `Spec => []SessionOrder` |
| `OutcomesFollowHistory` | `Spec => []OutcomeFollowsHistory` |
| `RebuildRestores` | `Spec => []ReplayAgrees` |
| `CommitsAreFenced` | `Spec => FencedCommit` |
| `UnsafeDeliveredOnce` | `Spec => []UnsafeAtMostOnce` |
| `DeliveriesHaveOneOwner` | `Spec => []OneOwnerPerDelivery` |
| `SettledStaysSettled` | `Spec => SettledIsFinal` |
| `JournalVerifies` | `Spec => []RetainedJournalVerifies` |
| `JournalDetectsDamage` | `Spec => []DamageIsDetected` |
| `HeadStandsForJournal` | `Spec => []HeadFixesJournal`: what verifies against the head is the journal |
| `JournalImplementsMemory` | `Spec => ImplementsMemoryJournal` |
| `RevisionsStayKept` | `Spec => []RevisionsAreKept` |
| `ClaimsStayServed` | `Spec => []ClaimsAreServed` |
| `OwnersAreReachable` | `Spec => []OwnerIsReachable` |
| `ReportsOfCommandsHold` | `Spec => []CommandsTellTheTruth` |
| `RunningIsServing` | `Spec => RunningMeansServing` |

**Locks.** `LockExclusion` alone is not inductive: a key could change hands if the keys of a
claimed item could change. `LockInv` adds that they cannot. `TableInv`, kept of the table and
of the replayed table, says that runnable items are bound to an agent and that a standing
barrier is the only item of its event, so routing never rewrites a claimed row. `ClaimInv`
says that claims are unique by token and by item and that claimed items are runnable. The
proof has one lemma per kind of step on claims (fewer, the same, renewed, older, one more).

**Histories.** `HistoryInv` adds to `LockInv` what order, outcome and rebuild rest on. Rows
have few shapes (`RowInv`), and an event has at most one item per session
(`OneTurnPerEvent`), so input order is an order on the turns of a session. No barrier stands
before a claimed item (`NoBarrierBefore`): routing, which turns a barrier into turns, cannot
put one before a turn that already runs. The attempt a claim runs is the last of its item
(`RunsLastAttempt`), so ending it decides the outcome. An item that nobody runs has an
attempt to spare (`SpareAttempt`), which makes the budget inductive: only a lost claim
leaves an attempt behind. `ReplayAgrees` is carried along, because what a step journals is
projected on the table and on the replay alike; a claim given up is not journalled and is
the one difference. Steps fall into four kinds (quiet, binding an event, starting an
attempt, ending one or cancelling), and one lemma of `DispatchQueueStepProofs` or
`DispatchQueueHistoryProofs` says what each kind keeps. `FencedCommit` comes from the same
step lemma.

**Unsafe deliveries.** `UnsafeHistory` follows one unsafe effect: no call before its start,
one spawn after it, and never `failed`, the one state from which a delivery starts again. The
row cannot go back to `planned`, so the second call would have to come from a `started` row,
which `Ready` excludes.

**Owners and final states.** A claim row is what keeps a settled effect from being started
again, and the uniqueness of the row is what removes it with the result; `OwnerInv` holds
both, and that a completed or ambiguous row carries no retry time. The same step lemma gives
the action property.

**Journal.** `JournalInv` says that cursors count from one and that every row verifies in its
place; a new row verifies because its id and its key are new and its predecessor is the last
row, and it leaves the earlier rows as they were. The refinement needs the same invariant:
ids and keys are unique, so the row that the unique index yields is the entry the reference
journal finds in its maps. An insertion maps to an append, a duplicate to the same answer, a
refusal to the same refusal, and a rolled-back or unanswered call to a stutter or a repeated
answer. Damage is detected because an address determines the event, the payload and
the address before it: two chains that end in one address are equal entry by entry; a row
written again behind the last one has a right link, and is found by its id. The first is
an induction over positions; it is done by a least position at which the chains differ,
since an induction principle with an operator parameter is out of reach.

**Agent lane.** `LaneInv` has four parts. `Adopted` follows a reload from the file to the
application and the actor: what is being served is what the actor has, and the copies may
differ only while a reload is under way or after one failed. `Bound` ties live items and
threads to archived revisions. `Held` says that a live claim is in hand or held by a thread,
which is weaker than the property while a handler runs and equal to it between handlers.
`Placed` gives each thread an entry under its event and fencing token; tokens of threads are
at most the claims counted so far, and the claim in hand is later, so a thread whose claim
was lost and one that runs the item again never share an entry, and counting the entries
counts the threads.

**Processes.** Everything rests on the lease: `LeaseHeld` says that its holder is the
process at a step between taking and releasing it. The process that reconciles or cleans is
therefore alone, and what it finds was left by a killed process (`EntriesHaveMakers`,
`MetadataHasWriter`), never a live socket. `EntriesOfSteps` says what an owner has made at
each of its steps, so binding finds its paths free. What a probe found had written its
metadata (`TargetsWereOwners`), so a socket that answers under that name belongs to an owner that
serves or closes, which has the lease; and a `down` that finds the lease free after its
probe has outlived its target.

Only model-checked: all liveness (out of the prover's reach); `ReadersSeeTheJournal`, whose
causal chains and pages are folds over the journal that would need induction over data; and
everything about the modules without a proof module (session resources, scheduler,
subscriptions, routing, runner, host, model stream, file tools, IPC, terminal), where
algorithms over sequences are compared with reference definitions on bounded inputs.

## 7. Not modelled

* *Manifest and authoring*: parsing and validation of authored files, pure and covered by
  vectors in the repository.
* *Object substrate and executor bundles*: content-addressed files and archives, sequential
  file system work with nothing to order.
* *Trace contents*: only the order of trace entries and events is modelled; nothing reads
  them back.
* *Listing, searching, shell and web tools*: calls to the operating system that keep no state.
* *Request bodies of model providers, template formatting, the calendar, rendering of the
  terminal*: formatting or libraries.
* *The operating system under child processes*: pipes and signals appear only as answers,
  hangs and ends.
* *The Python runtime*: its dispatcher and workers are an earlier implementation of what the
  crates do. Its IPC server still answers the terminal, and `TerminalClient` has that part.

The contents of events, prompts and results are abstracted away everywhere.
