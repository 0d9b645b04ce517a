---------------------------- MODULE RuntimeOwner ----------------------------
(***************************************************************************)
(* The processes of one project: `zeta up`, `down`, `status` and `reload`  *)
(* of crates/zeta/src/main.rs over the lease, the owner metadata and the   *)
(* two sockets of runtime_services.rs and lib.rs.  A process runs one      *)
(* command and may be killed at any step.  The kernel then releases its    *)
(* lease; its metadata and the socket entries it bound stay behind, and    *)
(* the entries refuse connections.  The instance id of an owner is its     *)
(* process.                                                                *)
(***************************************************************************)
EXTENDS Naturals, FiniteSets

CONSTANTS
  None,
  Ups, Downs, Statuses, Reloads,   \* the processes that run each command
  Detached,                        \* the ups started with --detach
  MaxCrashes                       \* bound on the processes that are killed

Processes == Ups \cup Downs \cup Statuses \cup Reloads

(* What a command reports when it ends; a down remembers "released" when   *)
(* it has seen the lease free.                                             *)
Outcomes ==
  {"ok", "already_running", "held", "start_failed", "bind_failed", "announce_failed",
   "metadata_failed", "path_occupied", "socket_live", "lease_held", "no_answer",
   "not_in_time", "released", "running", "stopping", "stopped", "stale", "degraded",
   "killed"}

(* A process runs one command, and None stands for no process and for no   *)
(* outcome.                                                                *)
ASSUME OwnerAssumption ==
  /\ None \notin Processes \cup Outcomes /\ Detached \subseteq Ups
  /\ None \notin [instance : Ups, phase : {"running", "stopping"}]
  /\ Ups \cap (Downs \cup Statuses \cup Reloads) = {}
  /\ Downs \cap (Statuses \cup Reloads) = {} /\ Statuses \cap Reloads = {}

VARIABLES
  lock,        \* holder of the advisory lease, or None
  metadata,    \* owner metadata: instance and phase, or None
  socket,      \* "application", "control" -> process that bound it, or None
  pc,          \* process -> its next step
  target,      \* process -> instance its probe found, or None
  result,      \* process -> outcome of its command, or None
  announced,   \* ups that wrote the readiness message
  parent,      \* detached up -> what its parent process knows
  stop,        \* owners asked to stop, by a client or a signal
  crashes      \* processes killed so far

vars ==
  <<lock, metadata, socket, pc, target, result, announced, parent, stop, crashes>>

handshake == <<announced, parent>>

Endpoints == {"application", "control"}

Listening(p) ==
  pc[p] \in {"bind_control", "write_metadata", "announce", "serving",
             "close_control", "close_application"}

(* A bound entry accepts connections while its listener runs.              *)
Live(endpoint) ==
  /\ socket[endpoint] # None
  /\ Listening(socket[endpoint])
  /\ (endpoint = "control") => (pc[socket[endpoint]] # "close_application")

Goto(p, step) == pc' = [pc EXCEPT ![p] = step]

Finish(p, outcome) ==
  /\ Goto(p, "done")
  /\ result' = [result EXCEPT ![p] = outcome]

Release(p) == lock' = IF lock = p THEN None ELSE lock

----------------------------------------------------------------------------
(* zeta up: run_owner. *)

(* RuntimeLease::acquire takes the lease without waiting.                  *)
Acquire(p) ==
  /\ p \in Ups /\ pc[p] = "acquire"
  /\ \/ lock = None /\ lock' = p /\ Goto(p, "reconcile")
     \/ lock # None /\ Goto(p, "probe") /\ UNCHANGED lock
  /\ UNCHANGED <<metadata, socket, target, result, stop, crashes, handshake>>

(* reconcile_stale_sockets inspects both entries before it removes either. *)
Reconcile(p) ==
  /\ pc[p] = "reconcile"
  /\ \/ /\ \E endpoint \in Endpoints : Live(endpoint)
        /\ Release(p) /\ Finish(p, "socket_live")
        /\ UNCHANGED socket
     \/ /\ ~ \E endpoint \in Endpoints : Live(endpoint)
        /\ socket' = [endpoint \in Endpoints |-> None]
        /\ Goto(p, "start")
        /\ UNCHANGED <<lock, result>>
  /\ UNCHANGED <<metadata, target, stop, crashes, handshake>>

(* The revision is read, the models are checked and the actor is started;  *)
(* any of them may fail before an entry is made.                           *)
Start(p) ==
  /\ pc[p] = "start"
  /\ \/ Goto(p, "bind") /\ UNCHANGED <<lock, result>>
     \/ Release(p) /\ Finish(p, "start_failed")
  /\ UNCHANGED <<metadata, socket, target, stop, crashes, handshake>>

(* LocalSocketServer::bind refuses an occupied path.                       *)
Bind(p) ==
  /\ pc[p] = "bind"
  /\ \/ /\ socket["application"] = None
        /\ socket' = [socket EXCEPT !["application"] = p]
        /\ Goto(p, "bind_control")
        /\ UNCHANGED <<lock, result>>
     \/ /\ socket["application"] # None
        /\ Release(p) /\ Finish(p, "path_occupied")
        /\ UNCHANGED socket
  /\ UNCHANGED <<metadata, target, stop, crashes, handshake>>

BindControl(p) ==
  /\ pc[p] = "bind_control"
  /\ \/ /\ socket["control"] = None
        /\ socket' = [socket EXCEPT !["control"] = p]
        /\ Goto(p, "write_metadata")
        /\ UNCHANGED result
     \/ /\ Goto(p, "close_application")
        /\ result' = [result EXCEPT ![p] = "bind_failed"]
        /\ UNCHANGED socket
  /\ UNCHANGED <<lock, metadata, target, stop, crashes, handshake>>

(* Metadata replaces whatever a dead owner left; from here a probe finds   *)
(* the owner, although it has not announced itself.                        *)
WriteMetadata_KeepsLeftover(p) ==
  /\ pc[p] = "write_metadata"
  /\ metadata' = IF metadata # None THEN metadata
                 ELSE [instance |-> p, phase |-> "running"]
  /\ Goto(p, "announce")
  /\ UNCHANGED <<lock, socket, target, result, stop, crashes, handshake>>
WriteMetadata(p) ==
  /\ pc[p] = "write_metadata"
  /\ metadata' = [instance |-> p, phase |-> "running"]
  /\ Goto(p, "announce")
  /\ UNCHANGED <<lock, socket, target, result, stop, crashes, handshake>>

(* Signals cannot be caught or metadata not be written: both servers are   *)
(* shut down.                                                              *)
WriteMetadataFails(p) ==
  /\ pc[p] = "write_metadata"
  /\ Goto(p, "close_control")
  /\ result' = [result EXCEPT ![p] = "metadata_failed"]
  /\ UNCHANGED <<lock, metadata, socket, target, stop, crashes, handshake>>

(* announce_ready writes the readiness message, or fails to.               *)
Announce(p) ==
  /\ pc[p] = "announce"
  /\ \/ /\ Goto(p, "serving")
        /\ announced' = announced \cup {p}
        /\ UNCHANGED result
     \/ /\ Goto(p, "close_control")
        /\ result' = [result EXCEPT ![p] = "announce_failed"]
        /\ UNCHANGED announced
  /\ UNCHANGED <<lock, metadata, socket, target, stop, crashes, parent>>

(* A termination signal reaches the owner.                                 *)
Signal(p) ==
  /\ pc[p] = "serving" /\ p \notin stop
  /\ stop' = stop \cup {p}
  /\ UNCHANGED <<lock, metadata, socket, pc, target, result, crashes, handshake>>

(* wait_for_shutdown returns; the phase is written first.                  *)
BeginStop(p) ==
  /\ pc[p] = "serving" /\ p \in stop
  /\ metadata' = [instance |-> p, phase |-> "stopping"]
  /\ Goto(p, "close_control")
  /\ result' = [result EXCEPT ![p] = "ok"]
  /\ UNCHANGED <<lock, socket, target, stop, crashes, handshake>>

(* LocalSocketServer::shutdown removes the entry if it is its own.         *)
RemoveOwned(p, endpoint) ==
  socket' = [socket EXCEPT ![endpoint] = IF @ = p THEN None ELSE @]

CloseControl(p) ==
  /\ pc[p] = "close_control"
  /\ RemoveOwned(p, "control")
  /\ Goto(p, "close_application")
  /\ UNCHANGED <<lock, metadata, target, result, stop, crashes, handshake>>

CloseApplication(p) ==
  /\ pc[p] = "close_application"
  /\ RemoveOwned(p, "application")
  /\ Goto(p, "remove_metadata")
  /\ UNCHANGED <<lock, metadata, target, result, stop, crashes, handshake>>

(* remove_metadata, only when it still names this instance; the failures   *)
(* before the metadata was written leave it alone.                         *)
RemoveMetadata(p) ==
  /\ pc[p] = "remove_metadata"
  /\ metadata' = IF /\ metadata # None /\ metadata.instance = p
                    /\ result[p] \in {"ok", "announce_failed"}
                 THEN None ELSE metadata
  /\ Goto(p, "release")
  /\ UNCHANGED <<lock, socket, target, result, stop, crashes, handshake>>

ReleaseLease(p) ==
  /\ pc[p] = "release"
  /\ Release(p) /\ Goto(p, "done")
  /\ UNCHANGED <<metadata, socket, target, result, stop, crashes, handshake>>

----------------------------------------------------------------------------
(* probe_runtime, shared by every command. *)

(* probe_lease tries the same exclusive lock, and holds it until its file  *)
(* is closed.                                                              *)
ProbeLease(p) ==
  /\ pc[p] = "probe"
  /\ \/ lock = None /\ lock' = p /\ Goto(p, "probe_free")
     \/ lock # None /\ Goto(p, "probe_held") /\ UNCHANGED lock
  /\ UNCHANGED <<metadata, socket, target, result, stop, crashes, handshake>>

ProbeFree(p) ==
  /\ pc[p] = "probe_free"
  /\ lock' = None
  /\ Goto(p, "artifacts")
  /\ UNCHANGED <<metadata, socket, target, result, stop, crashes, handshake>>

(* What each command does with the report.                                 *)
Report(p, status) ==
  \/ /\ p \in Statuses \cup Reloads /\ status = "running"
     /\ Goto(p, "query") /\ UNCHANGED result
  \/ p \in Statuses /\ status # "running" /\ Finish(p, status)
  \/ /\ p \in Reloads
     /\ \/ status \in {"stopped", "stale"} /\ Goto(p, "activate")
           /\ UNCHANGED result
        \/ status \in {"stopping", "degraded"} /\ Finish(p, status)
  \/ p \in Ups /\ Finish(p, IF status = "running" THEN "already_running"
                                                  ELSE "held")
  \/ /\ p \in Downs /\ result[p] = None
     /\ \/ status = "stopped" /\ Finish(p, "ok")
        \/ status = "stale" /\ Goto(p, "clean") /\ UNCHANGED result
        \/ status = "running" /\ Goto(p, "shutdown") /\ UNCHANGED result
        \/ status = "stopping" /\ Goto(p, "wait") /\ UNCHANGED result
        \/ status = "degraded" /\ Finish(p, "degraded")
  \/ /\ p \in Downs /\ result[p] = "released"
     /\ \/ status = "stale" /\ Goto(p, "clean") /\ UNCHANGED result
        \/ status # "stale" /\ Finish(p, "ok")

ProbeArtifacts(p) ==
  /\ pc[p] = "artifacts"
  /\ Report(p, IF metadata # None \/ \E e \in Endpoints : socket[e] # None
               THEN "stale" ELSE "stopped")
  /\ UNCHANGED <<lock, metadata, socket, target, stop, crashes, handshake>>

ProbeMetadata(p) ==
  /\ pc[p] = "probe_held"
  /\ \/ metadata = None /\ Report(p, "degraded") /\ UNCHANGED target
     \/ /\ metadata # None
        /\ target' = [target EXCEPT ![p] =
                        IF result[p] = "released" THEN @ ELSE metadata.instance]
        /\ \/ metadata.phase = "stopping" /\ Report(p, "stopping")
           \/ metadata.phase = "running" /\ Goto(p, "health")
              /\ UNCHANGED result
  /\ UNCHANGED <<lock, metadata, socket, stop, crashes, handshake>>

(* ControlClient::connect and verify_instance.                             *)
Answers(p, endpoint) == Live(endpoint) /\ socket[endpoint] = target[p]

(* control_health: connect, verify_instance and ping within a second.      *)
ProbeHealth_AnyInstance(p) ==
  /\ pc[p] = "health"
  /\ \/ Live("control") /\ Report(p, "running")
     \/ Report(p, "degraded")
  /\ UNCHANGED <<lock, metadata, socket, target, stop, crashes, handshake>>
ProbeHealth(p) ==
  /\ pc[p] = "health"
  /\ \/ Answers(p, "control") /\ Report(p, "running")
     \/ Report(p, "degraded")
  /\ UNCHANGED <<lock, metadata, socket, target, stop, crashes, handshake>>

(* status and reload of a running runtime ask its application socket,      *)
(* after verify_instance.                                                  *)
Query(p) ==
  /\ pc[p] = "query"
  /\ \/ Answers(p, "application") /\ Finish(p, "running")
     \/ Finish(p, "degraded")
  /\ UNCHANGED <<lock, metadata, socket, target, stop, crashes, handshake>>

(* reload without a runtime writes the revision under the lease.           *)
ActivateOffline(p) ==
  /\ pc[p] = "activate"
  /\ \/ lock = None /\ lock' = p /\ Goto(p, "write") /\ UNCHANGED result
     \/ lock # None /\ Finish(p, "lease_held") /\ UNCHANGED lock
  /\ UNCHANGED <<metadata, socket, target, stop, crashes, handshake>>

WriteOffline(p) ==
  /\ pc[p] = "write"
  /\ Release(p) /\ Finish(p, "ok")
  /\ UNCHANGED <<metadata, socket, target, stop, crashes, handshake>>

----------------------------------------------------------------------------
(* zeta down: run_down. *)

(* ControlClient::connect, verify_instance, shutdown.                      *)
RequestShutdown(p) ==
  /\ pc[p] = "shutdown"
  /\ \/ /\ Answers(p, "control")
        /\ stop' = stop \cup {target[p]}
        /\ Goto(p, "wait")
        /\ UNCHANGED result
     \/ /\ ~Answers(p, "control")
        /\ Finish(p, "no_answer")
        /\ UNCHANGED stop
  /\ UNCHANGED <<lock, metadata, socket, target, crashes, handshake>>

(* wait_until_stopped: the lease is free, or the deadline passes.          *)
WaitUntilStopped(p) ==
  /\ pc[p] = "wait"
  /\ lock = None
  /\ lock' = p
  /\ result' = [result EXCEPT ![p] = "released"]
  /\ Goto(p, "wait_free")
  /\ UNCHANGED <<metadata, socket, target, stop, crashes, handshake>>

WaitFree(p) ==
  /\ pc[p] = "wait_free"
  /\ lock' = None
  /\ Goto(p, "probe")
  /\ UNCHANGED <<metadata, socket, target, result, stop, crashes, handshake>>

WaitTimesOut(p) ==
  /\ pc[p] = "wait" /\ lock # None
  /\ Finish(p, "not_in_time")
  /\ UNCHANGED <<lock, metadata, socket, target, stop, crashes, handshake>>

(* clean_stale_runtime works under the lease.                              *)
CleanAcquire(p) ==
  /\ pc[p] = "clean"
  /\ \/ lock = None /\ lock' = p /\ Goto(p, "clean_sockets") /\ UNCHANGED result
     \/ lock # None /\ Finish(p, "lease_held") /\ UNCHANGED lock
  /\ UNCHANGED <<metadata, socket, target, stop, crashes, handshake>>

CleanSockets(p) ==
  /\ pc[p] = "clean_sockets"
  /\ \/ /\ \E endpoint \in Endpoints : Live(endpoint)
        /\ Release(p) /\ Finish(p, "socket_live")
        /\ UNCHANGED socket
     \/ /\ ~ \E endpoint \in Endpoints : Live(endpoint)
        /\ socket' = [endpoint \in Endpoints |-> None]
        /\ Goto(p, "clean_metadata")
        /\ UNCHANGED <<lock, result>>
  /\ UNCHANGED <<metadata, target, stop, crashes, handshake>>

CleanMetadata(p) ==
  /\ pc[p] = "clean_metadata"
  /\ metadata' = None
  /\ Release(p) /\ Finish(p, "ok")
  /\ UNCHANGED <<socket, target, stop, crashes, handshake>>

----------------------------------------------------------------------------
(* zeta up --detach: the parent reads one line from its child and leaves,  *)
(* or gives up after ten seconds and kills the child.                      *)
ParentReads(p) ==
  /\ p \in Detached /\ parent[p] = "waiting"
  /\ p \in announced \/ pc[p] = "done"
  /\ parent' = [parent EXCEPT ![p] =
                  IF p \in announced THEN "started"
                  ELSE IF result[p] = "already_running" THEN "already_running"
                  ELSE "failed"]
  /\ UNCHANGED <<lock, metadata, socket, pc, target, result, announced, stop,
                 crashes>>

ParentTimesOut_NoKill(p) ==
  /\ p \in Detached /\ parent[p] = "waiting" /\ pc[p] # "done"
  /\ parent' = [parent EXCEPT ![p] = "failed"]
  /\ UNCHANGED <<lock, metadata, socket, pc, target, result, announced, stop,
                 crashes>>
ParentTimesOut(p) ==
  /\ p \in Detached /\ parent[p] = "waiting" /\ pc[p] # "done"
  /\ parent' = [parent EXCEPT ![p] = "failed"]
  /\ Release(p) /\ Finish(p, "killed")
  /\ UNCHANGED <<metadata, socket, target, announced, stop, crashes>>

----------------------------------------------------------------------------
(* The process is killed.                                                  *)
Crash(p) ==
  /\ crashes < MaxCrashes
  /\ pc[p] # "done"
  /\ Release(p)
  /\ Finish(p, "killed")
  /\ crashes' = crashes + 1
  /\ UNCHANGED <<metadata, socket, target, stop, handshake>>

Init ==
  /\ lock = None /\ metadata = None
  /\ socket = [endpoint \in Endpoints |-> None]
  /\ pc = [p \in Processes |-> IF p \in Ups THEN "acquire" ELSE "probe"]
  /\ target = [p \in Processes |-> None]
  /\ result = [p \in Processes |-> None]
  /\ announced = {} /\ parent = [p \in Detached |-> "waiting"]
  /\ stop = {} /\ crashes = 0

UpStep(p) ==
  \/ Acquire(p) \/ Reconcile(p) \/ Start(p) \/ Bind(p) \/ BindControl(p)
  \/ WriteMetadata(p) \/ WriteMetadataFails(p) \/ Announce(p) \/ BeginStop(p)
  \/ CloseControl(p) \/ CloseApplication(p) \/ RemoveMetadata(p) \/ ReleaseLease(p)

ProbeStep(p) ==
  \/ ProbeLease(p) \/ ProbeFree(p) \/ ProbeArtifacts(p) \/ ProbeMetadata(p)
  \/ ProbeHealth(p) \/ Query(p) \/ ActivateOffline(p) \/ WriteOffline(p)

DownStep(p) ==
  \/ RequestShutdown(p) \/ WaitUntilStopped(p) \/ WaitFree(p)
  \/ WaitTimesOut(p) \/ CleanAcquire(p) \/ CleanSockets(p) \/ CleanMetadata(p)

Next ==
  \E p \in Processes :
    UpStep(p) \/ ProbeStep(p) \/ DownStep(p) \/ Signal(p) \/ Crash(p)
    \/ ParentReads(p) \/ ParentTimesOut(p)

Spec == Init /\ [][Next]_vars

(* A process that can take its next step takes it: each step is a system   *)
(* call or a bounded wait.  Signals and kills are not owed.                *)
FairSpec ==
  Spec /\ \A p \in Processes : WF_vars(UpStep(p) \/ ProbeStep(p) \/ DownStep(p))

----------------------------------------------------------------------------
(* Every variable holds a value of its type, and a process that has ended  *)
(* has a result.                                                           *)
Steps ==
  {"acquire", "reconcile", "start", "bind", "bind_control", "write_metadata",
   "announce", "serving", "close_control", "close_application", "remove_metadata",
   "release", "probe", "probe_free", "artifacts", "probe_held", "health", "query", "activate", "write",
   "shutdown", "wait", "wait_free", "clean", "clean_sockets", "clean_metadata", "done"}

TypeOK ==
  /\ lock \in Processes \cup {None}
  /\ metadata = None \/ metadata \in [instance : Ups, phase : {"running", "stopping"}]
  /\ socket \in [Endpoints -> Ups \cup {None}]
  /\ pc \in [Processes -> Steps] /\ target \in [Processes -> Ups \cup {None}]
  /\ result \in [Processes -> Outcomes \cup {None}]
  /\ \A p \in Processes : pc[p] = "done" => result[p] # None
  /\ parent \in [Detached -> {"waiting", "started", "already_running", "failed"}]
  /\ announced \subseteq Ups /\ stop \subseteq Ups

(* A serving owner can be found: whatever other commands start, clean,     *)
(* probe or die beside it, the lease, the metadata and both entries are    *)
(* its own (run_owner, clean_stale_runtime).                               *)
ServingOwnerIsReachable ==
  \A p \in Ups :
    pc[p] = "serving" =>
      /\ lock = p
      /\ metadata = [instance |-> p, phase |-> "running"]
      /\ \A endpoint \in Endpoints : socket[endpoint] = p

(* What a killed process leaves behind never blocks a later command: no up *)
(* or clean-up ends at a live or an occupied socket.                       *)
LeftoversNeverBlock ==
  \A p \in Processes : result[p] \notin {"socket_live", "path_occupied"}

(* An owner that ends on its own takes its metadata and entries with it.   *)
EndedOwnerLeavesNothing ==
  \A p \in Ups :
    (pc[p] = "done" /\ result[p] \in {"ok", "announce_failed", "bind_failed"})
    => /\ (metadata # None) => (metadata.instance # p)
       /\ \A endpoint \in Endpoints : socket[endpoint] # p

(* A serving owner can be found, whatever other commands start, clean,     *)
(* probe or die beside it; what a killed process leaves behind blocks no   *)
(* later command, and an owner that ends on its own leaves nothing.        *)
OwnerIsReachable ==
  ServingOwnerIsReachable /\ LeftoversNeverBlock /\ EndedOwnerLeavesNothing

ReportsServing ==
  \A p \in Processes :
    (pc[p] = "health" /\ (result'[p] = "already_running"
                          \/ pc'[p] \in {"query", "shutdown"}))
    => /\ lock = target[p] /\ metadata # None /\ metadata.instance = target[p]
       /\ \A endpoint \in Endpoints : socket[endpoint] = target[p] /\ Live(endpoint)

(* A probe that reports a running runtime names the holder of the lease,   *)
(* and that owner is reachable at this moment: the metadata is its own and *)
(* both sockets are its own and answer, although the lease, the metadata   *)
(* and the socket were read one after the other and owners may have        *)
(* changed in between (probe_runtime, verify_instance).  The owner need    *)
(* not have announced itself: its metadata is there before its readiness   *)
(* message.                                                                *)
RunningMeansServing == [][ReportsServing]_vars

(* A down that reports success has outlived the owner it addressed.        *)
DownOutlivesItsTarget ==
  \A p \in Downs :
    (pc[p] = "done" /\ result[p] = "ok" /\ target[p] # None)
    => pc[target[p]] = "done"

(* A detached start that reports a failure leaves no runtime behind, and   *)
(* one that reports success started it, although the deadline of the       *)
(* parent races the readiness of the child.                                *)
ParentTellsTheTruth ==
  \A p \in Detached :
    /\ (parent[p] = "failed") => (pc[p] = "done")
    /\ (parent[p] = "started") => (p \in announced)

(* A down that reports success has outlived the owner it addressed; a      *)
(* detached start that reports a failure leaves no runtime behind and one  *)
(* that reports success started it, although the deadline of the parent    *)
(* races the readiness of the child.                                       *)
CommandsTellTheTruth == DownOutlivesItsTarget /\ ParentTellsTheTruth

StoppedAreGone == \A p \in Ups : p \in stop => pc[p] = "done" /\ lock # p

(* A runtime that is asked to stop ends, and its lease is released.        *)
StopLeadsToRelease == []<>StoppedAreGone

(* "`status` is read-only" (crates/zeta/README.md): an up that no other    *)
(* command but status runs beside does not find its lease taken.           *)
StatusIsReadOnly ==
  (Cardinality(Ups) = 1 /\ Downs \cup Reloads = {}) =>
    \A p \in Ups : result[p] # "held"
=============================================================================
