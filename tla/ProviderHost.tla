---------------------------- MODULE ProviderHost ----------------------------
(***************************************************************************)
(* The Python provider host of one project revision                        *)
(* (crates/zeta/src/python_host.rs, process_executor.rs and ProviderHosts  *)
(* of runtime.rs): agent workers share one supervised child process behind *)
(* a mutex and run their tool calls in sandboxes that its executor drivers *)
(* open, call and close.  A call that times out, is aborted or meets a     *)
(* broken connection ends the process, and the next call starts another.   *)
(* A sandbox lives outside the process; the handle to it lives inside.     *)
(*                                                                         *)
(* A definition named X_Y is X with a plausible mistake Y; it is never     *)
(* used by the specification.                                              *)
(***************************************************************************)
EXTENDS Naturals, FiniteSets

CONSTANTS
  Workers,     \* threads of the agent lane, one attempt each
  Reuse,       \* worker -> "call" or "session" (ExecutorReuse)
  MaxCalls,    \* bound: tool calls of an attempt
  MaxStarts,   \* bound: processes started
  Faults,      \* whether processes die, hang, stop reading and answer nonsense
  None

VARIABLES
  registered,  \* ProviderHosts has the host of the revision
  holder,      \* the worker that holds the mutex of the host
  phase,       \* of the holder's call: free, starting, sending, writing, waiting
  worker,      \* worker -> stage, handle, cancellation, calls made
  process,     \* ProcessState: generation, whether it lives and reads, its handles
  requested,   \* the request the process has not answered
  answered,    \* the answer in the channel of the reader thread
  starts,      \* processes started so far
  running,     \* child processes that are not reaped
  sandboxes    \* sandboxes that exist

vars == <<registered, holder, phase, worker, process, requested, answered,
          starts, running, sandboxes>>

Init ==
  /\ registered = FALSE /\ holder = None /\ phase = "free"
  /\ worker = [w \in Workers |->
       [stage |-> "begin", handle |-> None, aborted |-> FALSE, calls |-> 0]]
  /\ process = None /\ requested = None /\ answered = None
  /\ starts = 0 /\ running = {} /\ sandboxes = {}

Started == [generation |-> starts + 1, alive |-> TRUE, reads |-> TRUE, handles |-> {}]

(* with_config: the process is started and initialized, or the error       *)
(* leaves none.                                                            *)
StartHost ==
  /\ starts < MaxStarts
  /\ process' = Started
  /\ starts' = starts + 1 /\ running' = running \union {starts + 1}

(* host_for_revision, under the mutex of the registry: the first attempt   *)
(* starts the host and keeps it when its catalog is the revision's.        *)
HostFor(w) ==
  /\ worker[w].stage = "begin"
  /\ \/ /\ registered
        /\ worker' = [worker EXCEPT ![w].stage = "idle"]
        /\ UNCHANGED <<registered, process, starts, running>>
     \/ /\ ~registered /\ StartHost
        /\ registered' = TRUE
        /\ worker' = [worker EXCEPT ![w].stage = "idle"]
     \/ /\ ~registered
        /\ worker' = [worker EXCEPT ![w].stage = "done"]
        /\ UNCHANGED <<registered, process, starts, running>>
  /\ UNCHANGED <<holder, phase, requested, answered, sandboxes>>

-----------------------------------------------------------------------------
(* What the tool executor of an attempt does next.  A reused sandbox is    *)
(* opened by the first call and its lease kept until the attempt ends; a   *)
(* sandbox of one call is closed whatever became of the call.  Models and  *)
(* trusted tools are invoked in the process itself.                        *)
BeginCall(w) ==
  /\ worker[w].stage = "idle" /\ worker[w].calls < MaxCalls
  /\ \E stage \in {"invoke", IF worker[w].handle = None THEN "open" ELSE "call"} :
       worker' = [worker EXCEPT ![w].calls = @ + 1, ![w].stage = stage]
  /\ UNCHANGED <<registered, holder, phase, process, requested, answered,
                 starts, running, sandboxes>>

EndAttempt(w) ==
  /\ worker[w].stage = "idle"
  /\ worker' = [worker EXCEPT
       ![w].stage = IF worker[w].handle = None THEN "done" ELSE "finish"]
  /\ UNCHANGED <<registered, holder, phase, process, requested, answered,
                 starts, running, sandboxes>>

Cancel(w) ==
  /\ worker[w].stage \notin {"begin", "done"} /\ ~worker[w].aborted
  /\ worker' = [worker EXCEPT ![w].aborted = TRUE]
  /\ UNCHANGED <<registered, holder, phase, process, requested, answered,
                 starts, running, sandboxes>>

After(w, ok, handle) ==
  LET s == worker[w].stage IN
  CASE s = "open"  -> [worker[w] EXCEPT !.stage = IF ok THEN "call" ELSE "idle",
                                        !.handle = IF ok THEN handle ELSE None]
    [] s = "call"  -> [worker[w] EXCEPT !.stage =
                         IF Reuse[w] = "call" THEN "close" ELSE "idle"]
    [] s = "invoke" -> [worker[w] EXCEPT !.stage = "idle"]
    [] s = "close" -> [worker[w] EXCEPT !.stage = "idle", !.handle = None]
    [] s = "finish" -> [worker[w] EXCEPT !.stage = "done", !.handle = None]

Return(w, ok, handle) ==
  /\ holder' = None /\ phase' = "free"
  /\ worker' = [worker EXCEPT ![w] = After(w, ok, handle)]

-----------------------------------------------------------------------------
(* A host call.  All but a closing one heed the cancellation.              *)
Asks(w) == worker[w].stage \in {"invoke", "open", "call", "close", "finish"}
Stopped(w) == worker[w].stage \in {"invoke", "open", "call"} /\ worker[w].aborted

(* The bundle, its permissions and the token are checked first; then       *)
(* ensure_process starts the provider when there is none.                  *)
Enter(w) ==
  /\ Asks(w) /\ holder = None
  /\ \/ /\ worker[w].stage \in {"invoke", "open", "call"}
        /\ Return(w, FALSE, None)
        /\ UNCHANGED <<process, starts, running>>
     \/ /\ process = None /\ ~Stopped(w) /\ StartHost
        /\ holder' = w /\ phase' = "starting"
        /\ UNCHANGED worker
     \/ /\ process = None /\ starts = MaxStarts
        /\ Return(w, FALSE, None)
        /\ UNCHANGED <<process, starts, running>>
     \/ /\ process # None /\ ~Stopped(w)
        /\ holder' = w /\ phase' = "sending"
        /\ UNCHANGED <<worker, process, starts, running>>
  /\ UNCHANGED <<registered, requested, answered, sandboxes>>

Initialize(w) ==
  /\ holder = w /\ phase = "starting" /\ process.alive
  /\ phase' = "sending"
  /\ UNCHANGED <<registered, holder, worker, process, requested, answered,
                 starts, running, sandboxes>>

(* transact: the token is checked once more, and then write_message writes *)
(* to the pipe until all of the request is in it.  Neither the timeout nor *)
(* the token is looked at meanwhile: the deadline is taken after it.       *)
Send(w) ==
  /\ holder = w /\ phase = "sending" /\ ~Stopped(w)
  /\ phase' = "writing"
  /\ UNCHANGED <<registered, holder, worker, process, requested, answered,
                 starts, running, sandboxes>>

Written(w) ==
  /\ holder = w /\ phase = "writing" /\ process.alive /\ process.reads
  /\ phase' = "waiting"
  /\ requested' = [from |-> w, stage |-> worker[w].stage, handle |-> worker[w].handle]
  /\ UNCHANGED <<registered, holder, worker, process, answered, starts, running, sandboxes>>

(* transact resolves the request.  A refusal of the provider leaves the    *)
(* process be.                                                             *)
Receive(w) ==
  /\ holder = w /\ phase = "waiting" /\ answered # None
  /\ answered' = None
  /\ Return(w, answered.ok, answered.handle)
  /\ UNCHANGED <<registered, process, requested, starts, running, sandboxes>>

(* terminate: the channel is dropped, the process group killed and reaped. *)
Terminate ==
  /\ process' = None /\ requested' = None /\ answered' = None
  /\ running' = running \ {process.generation}

(* A timeout, a cancellation, the end of the process or an answer that is  *)
(* not an object ends the process with the call.                           *)
Breaks(w) ==
  \/ Stopped(w) /\ phase # "writing" /\ answered = None
  \/ ~process.alive /\ phase # "sending" /\ answered = None
  \/ Faults /\ phase \notin {"sending", "writing"}
Break_Patient(w) ==
  /\ holder = w /\ phase # "writing" /\ (Stopped(w) \/ ~process.alive)
  /\ Terminate /\ Return(w, FALSE, None)
  /\ UNCHANGED <<registered, starts, sandboxes>>
Break_KeepsProcess(w) ==
  /\ holder = w /\ Breaks(w)
  /\ IF process.alive THEN UNCHANGED <<process, requested, answered, running>> ELSE Terminate
  /\ Return(w, FALSE, None)
  /\ UNCHANGED <<registered, starts, sandboxes>>
Break(w) ==
  /\ holder = w /\ Breaks(w)
  /\ Terminate /\ Return(w, FALSE, None)
  /\ UNCHANGED <<registered, starts, sandboxes>>

-----------------------------------------------------------------------------
(* The provider process and its drivers (external).  A handle is known     *)
(* only to the process that gave it out.                                   *)
Sandbox(w) == [owner |-> w, call |-> worker[w].calls, generation |-> process.generation]

Answer(ok, handle) ==
  /\ requested' = None
  /\ answered' = [to |-> requested.from, stage |-> requested.stage, ok |-> ok, handle |-> handle]

Serve ==
  /\ requested # None /\ process.alive
  /\ LET known == requested.handle \in process.handles IN
     \/ /\ requested.stage = "open"
        /\ process' = [process EXCEPT !.handles = @ \union {Sandbox(requested.from)}]
        /\ sandboxes' = sandboxes \union {Sandbox(requested.from)}
        /\ Answer(TRUE, Sandbox(requested.from))
     \/ /\ requested.stage = "invoke" \/ (requested.stage = "call" /\ known)
        /\ Answer(TRUE, None) /\ UNCHANGED <<process, sandboxes>>
     \/ /\ requested.stage \in {"close", "finish"} /\ known
        /\ process' = [process EXCEPT !.handles = @ \ {requested.handle}]
        /\ sandboxes' = IF requested.stage = "close" THEN sandboxes \ {requested.handle}
                        ELSE sandboxes
        /\ Answer(TRUE, None)
     \/ /\ requested.stage \in {"invoke", "open", "call"} \/ ~known
        /\ Answer(FALSE, None) /\ UNCHANGED <<process, sandboxes>>
  /\ UNCHANGED <<registered, holder, phase, worker, starts, running>>

Die ==
  /\ Faults /\ process # None /\ process.alive
  /\ process' = [process EXCEPT !.alive = FALSE]
  /\ UNCHANGED <<registered, holder, phase, worker, requested, answered,
                 starts, running, sandboxes>>

(* The pipe to the process is full, and the process does not read on.      *)
StopReading ==
  /\ Faults /\ process # None /\ process.alive /\ process.reads
  /\ process' = [process EXCEPT !.reads = FALSE]
  /\ UNCHANGED <<registered, holder, phase, worker, requested, answered,
                 starts, running, sandboxes>>

(* Drop: shutdown is asked for, with a write like that of a call, and      *)
(* then the child is reaped in any case.                                   *)
Shutdown ==
  /\ registered /\ process # None /\ \A w \in Workers : worker[w].stage = "done"
  /\ process.alive => process.reads
  /\ registered' = FALSE /\ Terminate
  /\ UNCHANGED <<holder, phase, worker, starts, sandboxes>>

CallStep(w) == Enter(w) \/ Initialize(w) \/ Send(w) \/ Written(w) \/ Receive(w) \/ Break(w)

Next ==
  \/ \E w \in Workers : HostFor(w) \/ BeginCall(w) \/ EndAttempt(w) \/ Cancel(w) \/ CallStep(w)
  \/ Serve \/ Die \/ StopReading \/ Shutdown

Spec == Init /\ [][Next]_vars

(* Threads run and timers fire.  The provider promises nothing: it owes    *)
(* neither an answer nor the reading of its input.                         *)
FairSpec == Spec /\ \A w \in Workers : WF_vars(CallStep(w))

-----------------------------------------------------------------------------
TypeOK ==
  /\ holder \in Workers \union {None}
  /\ phase \in {"free", "starting", "sending", "writing", "waiting"} /\ (phase = "free") = (holder = None)
  /\ \A w \in Workers : worker[w].stage \in
       {"begin", "idle", "invoke", "open", "call", "close", "finish", "done"}
  /\ running \subseteq 1..MaxStarts

(* No provider process is left behind: the one the host refers to is the   *)
(* only one that runs, through every timeout, cancellation and restart.    *)
OneProcess ==
  running = IF process = None THEN {} ELSE {process.generation}

(* An answer that waits in the channel is the answer to the call that      *)
(* waits: a worker never reads what another worker, or its own abandoned   *)
(* call, asked for.                                                        *)
RepliesMatch ==
  answered # None =>
    /\ holder = answered.to /\ phase = "waiting"
    /\ worker[holder].stage = answered.stage

(* A sandbox the running process can still close has its handle with the   *)
(* worker that opened it, or on its way there: a failed or cancelled call  *)
(* forgets none.                                                           *)
SandboxIsHeld ==
  process # None =>
    \A h \in process.handles :
      \/ worker[h.owner].handle = h
      \/ answered # None /\ answered.handle = h

(* The holder of the mutex writes to a process that lives and does not     *)
(* read: no timeout and no cancellation ends that call.                    *)
Blocked == phase = "writing" /\ process.alive /\ ~process.reads

(* Every host call returns although the provider may hang or die, and so   *)
(* does every worker that waits for the mutex, unless the provider leaves  *)
(* its input unread while a request is being written.                      *)
CallReturns == []<>(Blocked \/ \A w \in Workers : ~Asks(w))

(* The documented rule that a cancellation does not kill an executor       *)
(* process: the lease a worker holds stays good while others are cancelled.*)
LeaseSurvivesCancellation ==
  \A w \in Workers :
    worker[w].stage = "idle" /\ worker[w].handle # None =>
      process # None /\ worker[w].handle \in process.handles
=============================================================================
