------------------------- MODULE RuntimeOwnerProofs -------------------------
(***************************************************************************)
(* Proofs about the processes of one project, for any number of processes  *)
(* that run each command and any number of them killed.                    *)
(*                                                                         *)
(* Everything rests on the lease: the steps between taking and giving up   *)
(* the lock are exactly the steps at which its holder is, so the one that  *)
(* reconciles, cleans, binds or announces is alone at it, and what it      *)
(* finds in the directory was left by a process that was killed.           *)
(***************************************************************************)
EXTENDS RuntimeOwner, TLAPS

(* Both provers are given time on every leaf that names none.              *)
USE ZenonT(5), SMTT(20)

(* The steps of an owner that answers on a socket, that gives up what it   *)
(* made, and that has the lease.                                           *)
Closing == {"close_control", "close_application", "remove_metadata", "release"}
Owning ==
  {"reconcile", "start", "bind", "bind_control", "write_metadata", "announce", "serving"}
  \cup Closing
Holding ==
  Owning \cup {"probe_free", "wait_free", "write", "clean_sockets", "clean_metadata"}

(* The process at a step between taking and releasing the lease has it.    *)
LeaseHeld == \A p \in Processes : pc[p] \in Holding <=> lock = p

(* The steps of a command are taken by processes that run it.              *)
CommandSteps ==
  \A p \in Processes :
    /\ pc[p] \in Owning \cup {"acquire"} => p \in Ups
    /\ pc[p] \in {"shutdown", "wait", "wait_free", "clean", "clean_sockets",
                  "clean_metadata"} => p \in Downs
    /\ pc[p] \in {"activate", "write"} => p \in Reloads

(* A command has no outcome while it runs; an owner that closes has one,   *)
(* and nobody ever found a live or an occupied socket.                     *)
OutcomesOfSteps ==
  \A p \in Processes :
    /\ pc[p] \notin Closing \cup {"done"} => result[p] \in {None, "released"}
    /\ pc[p] \in Closing =>
         result[p] \in {"ok", "bind_failed", "announce_failed", "metadata_failed"}
    /\ pc[p] = "wait_free" => result[p] = "released"
    /\ result[p] \notin {"socket_live", "path_occupied"}

(* The entries an owner has made at each of its steps.                     *)
EntriesOfSteps ==
  \A p \in Processes :
    /\ pc[p] \in {"start", "bind", "remove_metadata", "release"} =>
         socket["application"] = None
    /\ pc[p] \in {"start", "bind", "bind_control", "close_application",
                  "remove_metadata", "release"} => socket["control"] = None
    /\ pc[p] \in {"bind_control", "write_metadata", "announce", "serving", "close_control",
                  "close_application"} => socket["application"] = p
    /\ pc[p] \in {"write_metadata", "announce", "serving", "close_control"} =>
         socket["control"] = p

(* An entry was made by an owner that listens, or by one that was killed.  *)
EntriesHaveMakers ==
  \A endpoint \in Endpoints :
    socket[endpoint] # None =>
      \/ Listening(socket[endpoint])
      \/ pc[socket[endpoint]] = "done" /\ result[socket[endpoint]] = "killed"

(* The metadata names an owner that wrote it and has not removed it yet,   *)
(* or one that was killed.                                                 *)
Recorded(p) ==
  \/ pc[p] \in {"announce", "serving"}
  \/ /\ pc[p] \in Closing \ {"release"}
     /\ result[p] \in {"ok", "announce_failed"}
  \/ pc[p] = "done" /\ result[p] = "killed"
MetadataHasWriter ==
  /\ metadata # None => Recorded(metadata.instance)
  /\ \A p \in Processes :
       /\ pc[p] \in {"announce", "serving"} =>
            metadata = [instance |-> p, phase |-> "running"]
       /\ pc[p] = "close_control" /\ result[p] # "metadata_failed" =>
            metadata # None /\ metadata.instance = p

(* What a probe found had written its metadata; a down that has seen the   *)
(* lease free after its probe has seen the end of what it found.           *)
PastMetadata == {"announce", "serving", "done"} \cup Closing
TargetsWereOwners ==
  /\ \A p \in Processes :
       target[p] # None =>
         pc[target[p]] \in PastMetadata /\ result[target[p]] # "metadata_failed"
  /\ \A p \in Downs :
       /\ result[p] \in {"released", "ok"} /\ target[p] # None => pc[target[p]] = "done"
       /\ /\ result[p] = None
          /\ pc[p] \in {"probe", "probe_free", "probe_held", "artifacts", "clean",
                        "clean_sockets", "clean_metadata"}
          => target[p] = None

OwnerInv ==
  /\ TypeOK /\ LeaseHeld /\ CommandSteps /\ OutcomesOfSteps /\ EntriesOfSteps
  /\ EntriesHaveMakers /\ MetadataHasWriter /\ TargetsWereOwners /\ ParentTellsTheTruth

(* What a step of process p may be.                                        *)
StepOf(p) ==
  \/ UpStep(p) \/ ProbeStep(p) \/ DownStep(p) \/ Signal(p) \/ Crash(p)
  \/ ParentReads(p) \/ ParentTimesOut(p)

(* Every command is run by processes.                                      *)
LEMMA CommandsAreProcesses ==
  /\ Ups \subseteq Processes /\ Downs \subseteq Processes
  /\ Detached \subseteq Processes /\ None \notin Processes
BY OwnerAssumption DEF Processes
-----------------------------------------------------------------------------
(* A step keeps every variable in its type.                                *)
LEMMA TypeStep ==
  ASSUME OwnerInv, NEW p \in Processes, StepOf(p)
  PROVE  TypeOK'
<1>0. TypeOK /\ CommandSteps /\ OutcomesOfSteps /\ OwnerAssumption
  BY OwnerAssumption DEF OwnerInv
<1> USE <1>0 DEF TypeOK, CommandSteps, OwnerAssumption, Owning, Closing, Steps, Outcomes,
   Goto, Finish, Release, handshake, Endpoints
<1>1. CASE UpStep(p)
  <2>1. CASE Acquire(p)
    BY <2>1 DEF Acquire
  <2>2. CASE Reconcile(p)
    BY <2>2 DEF Reconcile, Live
  <2>3. CASE Start(p)
    BY <2>3 DEF Start
  <2>4. CASE Bind(p)
    BY <2>4 DEF Bind
  <2>5. CASE BindControl(p)
    BY <2>5 DEF BindControl
  <2>6. CASE WriteMetadata(p)
    BY <2>6 DEF WriteMetadata
  <2>7. CASE WriteMetadataFails(p)
    BY <2>7 DEF WriteMetadataFails
  <2>13. CASE Announce(p)
    BY <2>13 DEF Announce
  <2>8. CASE BeginStop(p)
    BY <2>8 DEF BeginStop
  <2>9. CASE CloseControl(p)
    BY <2>9 DEF CloseControl, RemoveOwned
  <2>10. CASE CloseApplication(p)
    BY <2>10 DEF CloseApplication, RemoveOwned
  <2>11. CASE RemoveMetadata(p)
    BY <2>11 DEF RemoveMetadata
  <2>12. CASE ReleaseLease(p)
    BY <2>12 DEF ReleaseLease, OutcomesOfSteps
  <2> QED BY <1>1, <2>1, <2>2, <2>3, <2>4, <2>5, <2>6, <2>7, <2>8, <2>9, <2>10, <2>11,
     <2>12, <2>13, Zenon DEF UpStep
<1>2. CASE ProbeStep(p)
  <2>1. CASE ProbeLease(p)
    BY <2>1 DEF ProbeLease
  <2>2. CASE ProbeFree(p)
    BY <2>2 DEF ProbeFree
  <2>3. CASE ProbeArtifacts(p)
    BY <2>3 DEF ProbeArtifacts, Report
  <2>4. CASE ProbeMetadata(p)
    BY <2>4 DEF ProbeMetadata, Report
  <2>5. CASE ProbeHealth(p)
    BY <2>5 DEF ProbeHealth, Report
  <2>6. CASE Query(p)
    BY <2>6 DEF Query
  <2>7. CASE ActivateOffline(p)
    BY <2>7 DEF ActivateOffline
  <2>8. CASE WriteOffline(p)
    BY <2>8 DEF WriteOffline
  <2> QED BY <1>2, <2>1, <2>2, <2>3, <2>4, <2>5, <2>6, <2>7, <2>8, Zenon DEF ProbeStep
<1>3. CASE DownStep(p)
  <2>1. CASE RequestShutdown(p)
    BY <2>1 DEF RequestShutdown, Answers, Live
  <2>2. CASE WaitUntilStopped(p)
    BY <2>2 DEF WaitUntilStopped
  <2>3. CASE WaitFree(p)
    BY <2>3 DEF WaitFree
  <2>4. CASE WaitTimesOut(p)
    BY <2>4 DEF WaitTimesOut
  <2>5. CASE CleanAcquire(p)
    BY <2>5 DEF CleanAcquire
  <2>6. CASE CleanSockets(p)
    BY <2>6 DEF CleanSockets, Live
  <2>7. CASE CleanMetadata(p)
    BY <2>7 DEF CleanMetadata
  <2> QED BY <1>3, <2>1, <2>2, <2>3, <2>4, <2>5, <2>6, <2>7, Zenon DEF DownStep
<1>4. CASE Signal(p)
  BY <1>4 DEF Signal
<1>5. CASE Crash(p)
  BY <1>5 DEF Crash
<1>6. CASE ParentReads(p)
  BY <1>6 DEF ParentReads
<1>7. CASE ParentTimesOut(p)
  BY <1>7 DEF ParentTimesOut
<1> QED BY <1>1, <1>2, <1>3, <1>4, <1>5, <1>6, <1>7, Zenon DEF StepOf

(* Taking and releasing the lock agrees with the steps of the holder.      *)
LEMMA LeaseStep ==
  ASSUME OwnerInv, NEW p \in Processes, StepOf(p)
  PROVE  LeaseHeld'
<1>0. /\ LeaseHeld /\ pc \in [Processes -> Steps]
      /\ None \notin Processes
  BY CommandsAreProcesses DEF OwnerInv, TypeOK
<1> USE <1>0 DEF LeaseHeld, Holding, Owning, Closing, Goto, Finish, Release
<1>1. CASE UpStep(p)
  <2>1. CASE Acquire(p)
    BY <2>1 DEF Acquire
  <2>2. CASE Reconcile(p)
    BY <2>2 DEF Reconcile
  <2>3. CASE Start(p)
    BY <2>3 DEF Start
  <2>4. CASE Bind(p)
    BY <2>4 DEF Bind
  <2>5. CASE BindControl(p)
    BY <2>5 DEF BindControl
  <2>6. CASE WriteMetadata(p)
    BY <2>6 DEF WriteMetadata
  <2>7. CASE WriteMetadataFails(p)
    BY <2>7 DEF WriteMetadataFails
  <2>13. CASE Announce(p)
    BY <2>13 DEF Announce
  <2>8. CASE BeginStop(p)
    BY <2>8 DEF BeginStop
  <2>9. CASE CloseControl(p)
    BY <2>9 DEF CloseControl
  <2>10. CASE CloseApplication(p)
    BY <2>10 DEF CloseApplication
  <2>11. CASE RemoveMetadata(p)
    BY <2>11 DEF RemoveMetadata
  <2>12. CASE ReleaseLease(p)
    BY <2>12 DEF ReleaseLease
  <2> QED BY <1>1, <2>1, <2>2, <2>3, <2>4, <2>5, <2>6, <2>7, <2>8, <2>9, <2>10, <2>11,
     <2>12, <2>13, Zenon DEF UpStep
<1>2. CASE ProbeStep(p)
  <2>1. CASE ProbeLease(p)
    BY <2>1 DEF ProbeLease
  <2>2. CASE ProbeFree(p)
    BY <2>2 DEF ProbeFree
  <2>3. CASE ProbeArtifacts(p)
    BY <2>3 DEF ProbeArtifacts, Report
  <2>4. CASE ProbeMetadata(p)
    BY <2>4 DEF ProbeMetadata, Report
  <2>5. CASE ProbeHealth(p)
    BY <2>5 DEF ProbeHealth, Report
  <2>6. CASE Query(p)
    BY <2>6 DEF Query
  <2>7. CASE ActivateOffline(p)
    BY <2>7 DEF ActivateOffline
  <2>8. CASE WriteOffline(p)
    BY <2>8 DEF WriteOffline
  <2> QED BY <1>2, <2>1, <2>2, <2>3, <2>4, <2>5, <2>6, <2>7, <2>8, Zenon DEF ProbeStep
<1>3. CASE DownStep(p)
  <2>1. CASE RequestShutdown(p)
    BY <2>1 DEF RequestShutdown
  <2>2. CASE WaitUntilStopped(p)
    BY <2>2 DEF WaitUntilStopped
  <2>3. CASE WaitFree(p)
    BY <2>3 DEF WaitFree
  <2>4. CASE WaitTimesOut(p)
    BY <2>4 DEF WaitTimesOut
  <2>5. CASE CleanAcquire(p)
    BY <2>5 DEF CleanAcquire
  <2>6. CASE CleanSockets(p)
    BY <2>6 DEF CleanSockets
  <2>7. CASE CleanMetadata(p)
    BY <2>7 DEF CleanMetadata
  <2> QED BY <1>3, <2>1, <2>2, <2>3, <2>4, <2>5, <2>6, <2>7, Zenon DEF DownStep
<1>4. CASE Signal(p)
  BY <1>4 DEF Signal
<1>5. CASE Crash(p)
  BY <1>5 DEF Crash
<1>6. CASE ParentReads(p)
  BY <1>6 DEF ParentReads
<1>7. CASE ParentTimesOut(p)
  BY <1>7 DEF ParentTimesOut
<1> QED BY <1>1, <1>2, <1>3, <1>4, <1>5, <1>6, <1>7, Zenon DEF StepOf

(* A process stays with its command.                                       *)
LEMMA CommandStep ==
  ASSUME OwnerInv, NEW p \in Processes, StepOf(p)
  PROVE  CommandSteps'
<1>0. /\ CommandSteps /\ pc \in [Processes -> Steps] /\ OwnerAssumption
  BY OwnerAssumption DEF OwnerInv, TypeOK
<1> USE <1>0 DEF CommandSteps, OwnerAssumption, Owning, Closing, Goto, Finish
<1>1. CASE UpStep(p)
  <2>1. CASE Acquire(p)
    BY <2>1 DEF Acquire
  <2>2. CASE Reconcile(p)
    BY <2>2 DEF Reconcile
  <2>3. CASE Start(p)
    BY <2>3 DEF Start
  <2>4. CASE Bind(p)
    BY <2>4 DEF Bind
  <2>5. CASE BindControl(p)
    BY <2>5 DEF BindControl
  <2>6. CASE WriteMetadata(p)
    BY <2>6 DEF WriteMetadata
  <2>7. CASE WriteMetadataFails(p)
    BY <2>7 DEF WriteMetadataFails
  <2>13. CASE Announce(p)
    BY <2>13 DEF Announce
  <2>8. CASE BeginStop(p)
    BY <2>8 DEF BeginStop
  <2>9. CASE CloseControl(p)
    BY <2>9 DEF CloseControl
  <2>10. CASE CloseApplication(p)
    BY <2>10 DEF CloseApplication
  <2>11. CASE RemoveMetadata(p)
    BY <2>11 DEF RemoveMetadata
  <2>12. CASE ReleaseLease(p)
    BY <2>12 DEF ReleaseLease
  <2> QED BY <1>1, <2>1, <2>2, <2>3, <2>4, <2>5, <2>6, <2>7, <2>8, <2>9, <2>10, <2>11,
     <2>12, <2>13, Zenon DEF UpStep
<1>2. CASE ProbeStep(p)
  <2>1. CASE ProbeLease(p)
    BY <2>1 DEF ProbeLease
  <2>2. CASE ProbeFree(p)
    BY <2>2 DEF ProbeFree
  <2>3. CASE ProbeArtifacts(p)
    BY <2>3 DEF ProbeArtifacts, Report
  <2>4. CASE ProbeMetadata(p)
    BY <2>4 DEF ProbeMetadata, Report
  <2>5. CASE ProbeHealth(p)
    BY <2>5 DEF ProbeHealth, Report
  <2>6. CASE Query(p)
    BY <2>6 DEF Query
  <2>7. CASE ActivateOffline(p)
    BY <2>7 DEF ActivateOffline
  <2>8. CASE WriteOffline(p)
    BY <2>8 DEF WriteOffline
  <2> QED BY <1>2, <2>1, <2>2, <2>3, <2>4, <2>5, <2>6, <2>7, <2>8, Zenon DEF ProbeStep
<1>3. CASE DownStep(p)
  <2>1. CASE RequestShutdown(p)
    BY <2>1 DEF RequestShutdown
  <2>2. CASE WaitUntilStopped(p)
    BY <2>2 DEF WaitUntilStopped
  <2>3. CASE WaitFree(p)
    BY <2>3 DEF WaitFree
  <2>4. CASE WaitTimesOut(p)
    BY <2>4 DEF WaitTimesOut
  <2>5. CASE CleanAcquire(p)
    BY <2>5 DEF CleanAcquire
  <2>6. CASE CleanSockets(p)
    BY <2>6 DEF CleanSockets
  <2>7. CASE CleanMetadata(p)
    BY <2>7 DEF CleanMetadata
  <2> QED BY <1>3, <2>1, <2>2, <2>3, <2>4, <2>5, <2>6, <2>7, Zenon DEF DownStep
<1>4. CASE Signal(p)
  BY <1>4 DEF Signal
<1>5. CASE Crash(p)
  BY <1>5 DEF Crash
<1>6. CASE ParentReads(p)
  BY <1>6 DEF ParentReads
<1>7. CASE ParentTimesOut(p)
  BY <1>7 DEF ParentTimesOut
<1> QED BY <1>1, <1>2, <1>3, <1>4, <1>5, <1>6, <1>7, Zenon DEF StepOf

(* A process moves alone, an owner that wrote its metadata only towards    *)
(* its end, and an ended process not at all.                               *)
Moves(p) ==
  /\ \A q \in Processes \ {p} :
       pc'[q] = pc[q] /\ result'[q] = result[q] /\ target'[q] = target[q]
  /\ pc[p] \in PastMetadata =>
       /\ pc'[p] \in PastMetadata
       /\ result[p] # "metadata_failed" => result'[p] # "metadata_failed"
  /\ pc[p] = "done" => pc'[p] = "done"

(* No step is taken for another process, and none leads back.              *)
LEMMA Moving ==
  ASSUME TypeOK, NEW p \in Processes, StepOf(p)
  PROVE  Moves(p)
<1>0. /\ pc \in [Processes -> Steps] /\ result \in [Processes -> Outcomes \cup {None}]
      /\ target \in [Processes -> Ups \cup {None}]
  BY DEF TypeOK
<1> USE <1>0 DEF Moves, PastMetadata, Closing, Goto, Finish
<1>1. CASE UpStep(p)
  <2>1. CASE Acquire(p)
    BY <2>1 DEF Acquire
  <2>2. CASE Reconcile(p)
    BY <2>2 DEF Reconcile
  <2>3. CASE Start(p)
    BY <2>3 DEF Start
  <2>4. CASE Bind(p)
    BY <2>4 DEF Bind
  <2>5. CASE BindControl(p)
    BY <2>5 DEF BindControl
  <2>6. CASE WriteMetadata(p)
    BY <2>6 DEF WriteMetadata
  <2>7. CASE WriteMetadataFails(p)
    BY <2>7 DEF WriteMetadataFails
  <2>13. CASE Announce(p)
    BY <2>13 DEF Announce
  <2>8. CASE BeginStop(p)
    BY <2>8 DEF BeginStop
  <2>9. CASE CloseControl(p)
    BY <2>9 DEF CloseControl
  <2>10. CASE CloseApplication(p)
    BY <2>10 DEF CloseApplication
  <2>11. CASE RemoveMetadata(p)
    BY <2>11 DEF RemoveMetadata
  <2>12. CASE ReleaseLease(p)
    BY <2>12 DEF ReleaseLease
  <2> QED BY <1>1, <2>1, <2>2, <2>3, <2>4, <2>5, <2>6, <2>7, <2>8, <2>9, <2>10, <2>11,
     <2>12, <2>13, Zenon DEF UpStep
<1>2. CASE ProbeStep(p)
  <2>1. CASE ProbeLease(p)
    BY <2>1 DEF ProbeLease
  <2>2. CASE ProbeFree(p)
    BY <2>2 DEF ProbeFree
  <2>3. CASE ProbeArtifacts(p)
    BY <2>3 DEF ProbeArtifacts, Report
  <2>4. CASE ProbeMetadata(p)
    BY <2>4 DEF ProbeMetadata, Report
  <2>5. CASE ProbeHealth(p)
    BY <2>5 DEF ProbeHealth, Report
  <2>6. CASE Query(p)
    BY <2>6 DEF Query
  <2>7. CASE ActivateOffline(p)
    BY <2>7 DEF ActivateOffline
  <2>8. CASE WriteOffline(p)
    BY <2>8 DEF WriteOffline
  <2> QED BY <1>2, <2>1, <2>2, <2>3, <2>4, <2>5, <2>6, <2>7, <2>8, Zenon DEF ProbeStep
<1>3. CASE DownStep(p)
  <2>1. CASE RequestShutdown(p)
    BY <2>1 DEF RequestShutdown
  <2>2. CASE WaitUntilStopped(p)
    BY <2>2 DEF WaitUntilStopped
  <2>3. CASE WaitFree(p)
    BY <2>3 DEF WaitFree
  <2>4. CASE WaitTimesOut(p)
    BY <2>4 DEF WaitTimesOut
  <2>5. CASE CleanAcquire(p)
    BY <2>5 DEF CleanAcquire
  <2>6. CASE CleanSockets(p)
    BY <2>6 DEF CleanSockets
  <2>7. CASE CleanMetadata(p)
    BY <2>7 DEF CleanMetadata
  <2> QED BY <1>3, <2>1, <2>2, <2>3, <2>4, <2>5, <2>6, <2>7, Zenon DEF DownStep
<1>4. CASE Signal(p)
  BY <1>4 DEF Signal
<1>5. CASE Crash(p)
  BY <1>5 DEF Crash
<1>6. CASE ParentReads(p)
  BY <1>6 DEF ParentReads
<1>7. CASE ParentTimesOut(p)
  BY <1>7 DEF ParentTimesOut
<1> QED BY <1>1, <1>2, <1>3, <1>4, <1>5, <1>6, <1>7, Zenon DEF StepOf

Outside(p) == pc[p] \notin Owning \cup {"done"} /\ pc'[p] \notin Owning

(* A probe and a down neither are nor become owners.                       *)
LEMMA ProbesStayOutside ==
  ASSUME TypeOK, NEW p \in Processes, ProbeStep(p) \/ DownStep(p)
  PROVE  Outside(p)
<1>0. pc \in [Processes -> Steps]
  BY DEF TypeOK
<1> USE <1>0 DEF Outside, Owning, Closing, Goto, Finish
<1>1. CASE ProbeStep(p)
  <2>1. CASE ProbeLease(p)
    BY <2>1 DEF ProbeLease
  <2>2. CASE ProbeFree(p)
    BY <2>2 DEF ProbeFree
  <2>3. CASE ProbeArtifacts(p)
    BY <2>3 DEF ProbeArtifacts, Report
  <2>4. CASE ProbeMetadata(p)
    BY <2>4 DEF ProbeMetadata, Report
  <2>5. CASE ProbeHealth(p)
    BY <2>5 DEF ProbeHealth, Report
  <2>6. CASE Query(p)
    BY <2>6 DEF Query
  <2>7. CASE ActivateOffline(p)
    BY <2>7 DEF ActivateOffline
  <2>8. CASE WriteOffline(p)
    BY <2>8 DEF WriteOffline
  <2> QED BY <1>1, <2>1, <2>2, <2>3, <2>4, <2>5, <2>6, <2>7, <2>8, Zenon DEF ProbeStep
<1>2. CASE DownStep(p)
  <2>1. CASE RequestShutdown(p)
    BY <2>1 DEF RequestShutdown
  <2>2. CASE WaitUntilStopped(p)
    BY <2>2 DEF WaitUntilStopped
  <2>3. CASE WaitFree(p)
    BY <2>3 DEF WaitFree
  <2>4. CASE WaitTimesOut(p)
    BY <2>4 DEF WaitTimesOut
  <2>5. CASE CleanAcquire(p)
    BY <2>5 DEF CleanAcquire
  <2>6. CASE CleanSockets(p)
    BY <2>6 DEF CleanSockets
  <2>7. CASE CleanMetadata(p)
    BY <2>7 DEF CleanMetadata
  <2> QED BY <1>2, <2>1, <2>2, <2>3, <2>4, <2>5, <2>6, <2>7, Zenon DEF DownStep
<1> QED BY <1>1, <1>2, Zenon

(* A socket that accepts connections has its listener at the lease.        *)
LEMMA LiveMeansHeld ==
  ASSUME OwnerInv, NEW endpoint \in Endpoints, Live(endpoint)
  PROVE  lock \in Processes /\ Listening(lock)
<1>1. socket[endpoint] \in Processes
  BY CommandsAreProcesses DEF OwnerInv, TypeOK, Live
<1> QED
  BY <1>1 DEF OwnerInv, LeaseHeld, Holding, Owning, Closing, Live, Listening

(* Nobody is at the lease of the process that reconciles or cleans.        *)
LEMMA NothingIsLive ==
  ASSUME OwnerInv, NEW p \in Processes, pc[p] \in {"reconcile", "clean_sockets"}
  PROVE  ~ \E endpoint \in Endpoints : Live(endpoint)
<1>1. lock = p /\ ~Listening(p)
  BY DEF OwnerInv, LeaseHeld, Holding, Owning, Listening
<1> QED BY <1>1, LiveMeansHeld

(* No outcome is recorded before the end, and none is of a socket that was *)
(* live or occupied.                                                       *)
LEMMA OutcomeStep ==
  ASSUME OwnerInv, NEW p \in Processes, StepOf(p)
  PROVE  OutcomesOfSteps'
<1>0. /\ OutcomesOfSteps /\ EntriesOfSteps /\ None \notin Outcomes
      /\ pc \in [Processes -> Steps] /\ result \in [Processes -> Outcomes \cup {None}]
  BY OwnerAssumption DEF OwnerInv, TypeOK
<1> USE <1>0 DEF OutcomesOfSteps, Closing, Goto, Finish
<1>1. CASE UpStep(p)
  <2>1. CASE Acquire(p)
    BY <2>1 DEF Acquire
  <2>2. CASE Reconcile(p)
    BY <2>2, NothingIsLive DEF Reconcile
  <2>3. CASE Start(p)
    BY <2>3 DEF Start
  <2>4. CASE Bind(p)
    BY <2>4 DEF Bind, EntriesOfSteps
  <2>5. CASE BindControl(p)
    BY <2>5 DEF BindControl
  <2>6. CASE WriteMetadata(p)
    BY <2>6 DEF WriteMetadata
  <2>7. CASE WriteMetadataFails(p)
    BY <2>7 DEF WriteMetadataFails
  <2>13. CASE Announce(p)
    BY <2>13 DEF Announce
  <2>8. CASE BeginStop(p)
    BY <2>8 DEF BeginStop
  <2>9. CASE CloseControl(p)
    BY <2>9 DEF CloseControl
  <2>10. CASE CloseApplication(p)
    BY <2>10 DEF CloseApplication
  <2>11. CASE RemoveMetadata(p)
    BY <2>11 DEF RemoveMetadata
  <2>12. CASE ReleaseLease(p)
    BY <2>12 DEF ReleaseLease
  <2> QED BY <1>1, <2>1, <2>2, <2>3, <2>4, <2>5, <2>6, <2>7, <2>8, <2>9, <2>10, <2>11,
     <2>12, <2>13, Zenon DEF UpStep
<1>2. CASE ProbeStep(p)
  <2>1. CASE ProbeLease(p)
    BY <2>1 DEF ProbeLease
  <2>2. CASE ProbeFree(p)
    BY <2>2 DEF ProbeFree
  <2>3. CASE ProbeArtifacts(p)
    BY <2>3 DEF ProbeArtifacts, Report
  <2>4. CASE ProbeMetadata(p)
    BY <2>4 DEF ProbeMetadata, Report
  <2>5. CASE ProbeHealth(p)
    BY <2>5 DEF ProbeHealth, Report
  <2>6. CASE Query(p)
    BY <2>6 DEF Query
  <2>7. CASE ActivateOffline(p)
    BY <2>7 DEF ActivateOffline
  <2>8. CASE WriteOffline(p)
    BY <2>8 DEF WriteOffline
  <2> QED BY <1>2, <2>1, <2>2, <2>3, <2>4, <2>5, <2>6, <2>7, <2>8, Zenon DEF ProbeStep
<1>3. CASE DownStep(p)
  <2>1. CASE RequestShutdown(p)
    BY <2>1 DEF RequestShutdown
  <2>2. CASE WaitUntilStopped(p)
    BY <2>2 DEF WaitUntilStopped
  <2>3. CASE WaitFree(p)
    BY <2>3 DEF WaitFree
  <2>4. CASE WaitTimesOut(p)
    BY <2>4 DEF WaitTimesOut
  <2>5. CASE CleanAcquire(p)
    BY <2>5 DEF CleanAcquire
  <2>6. CASE CleanSockets(p)
    BY <2>6, NothingIsLive DEF CleanSockets
  <2>7. CASE CleanMetadata(p)
    BY <2>7 DEF CleanMetadata
  <2> QED BY <1>3, <2>1, <2>2, <2>3, <2>4, <2>5, <2>6, <2>7, Zenon DEF DownStep
<1>4. CASE Signal(p)
  BY <1>4 DEF Signal
<1>5. CASE Crash(p)
  BY <1>5 DEF Crash
<1>6. CASE ParentReads(p)
  BY <1>6 DEF ParentReads
<1>7. CASE ParentTimesOut(p)
  BY <1>7 DEF ParentTimesOut
<1> QED BY <1>1, <1>2, <1>3, <1>4, <1>5, <1>6, <1>7, Zenon DEF StepOf

(* Only the holder of the lease makes and removes entries.                 *)
LEMMA EntriesStep ==
  ASSUME OwnerInv, NEW p \in Processes, StepOf(p)
  PROVE  EntriesOfSteps'
<1>0. /\ EntriesOfSteps /\ LeaseHeld
      /\ pc \in [Processes -> Steps] /\ socket \in [Endpoints -> Ups \cup {None}]
  BY DEF OwnerInv, TypeOK
<1> USE <1>0 DEF EntriesOfSteps, LeaseHeld, Holding, Owning, Closing, Endpoints, Goto,
   Finish
<1>1. CASE UpStep(p)
  <2>1. CASE Acquire(p)
    BY <2>1 DEF Acquire
  <2>2. CASE Reconcile(p)
    BY <2>2 DEF Reconcile
  <2>3. CASE Start(p)
    BY <2>3 DEF Start
  <2>4. CASE Bind(p)
    BY <2>4 DEF Bind
  <2>5. CASE BindControl(p)
    BY <2>5 DEF BindControl
  <2>6. CASE WriteMetadata(p)
    BY <2>6 DEF WriteMetadata
  <2>7. CASE WriteMetadataFails(p)
    BY <2>7 DEF WriteMetadataFails
  <2>13. CASE Announce(p)
    BY <2>13 DEF Announce
  <2>8. CASE BeginStop(p)
    BY <2>8 DEF BeginStop
  <2>9. CASE CloseControl(p)
    BY <2>9 DEF CloseControl, RemoveOwned
  <2>10. CASE CloseApplication(p)
    BY <2>10 DEF CloseApplication, RemoveOwned
  <2>11. CASE RemoveMetadata(p)
    BY <2>11 DEF RemoveMetadata
  <2>12. CASE ReleaseLease(p)
    BY <2>12 DEF ReleaseLease
  <2> QED BY <1>1, <2>1, <2>2, <2>3, <2>4, <2>5, <2>6, <2>7, <2>8, <2>9, <2>10, <2>11,
     <2>12, <2>13, Zenon DEF UpStep
<1>2. CASE ProbeStep(p)
  <2>1. CASE ProbeLease(p)
    BY <2>1 DEF ProbeLease
  <2>2. CASE ProbeFree(p)
    BY <2>2 DEF ProbeFree
  <2>3. CASE ProbeArtifacts(p)
    BY <2>3 DEF ProbeArtifacts, Report
  <2>4. CASE ProbeMetadata(p)
    BY <2>4 DEF ProbeMetadata, Report
  <2>5. CASE ProbeHealth(p)
    BY <2>5 DEF ProbeHealth, Report
  <2>6. CASE Query(p)
    BY <2>6 DEF Query
  <2>7. CASE ActivateOffline(p)
    BY <2>7 DEF ActivateOffline
  <2>8. CASE WriteOffline(p)
    BY <2>8 DEF WriteOffline
  <2> QED BY <1>2, <2>1, <2>2, <2>3, <2>4, <2>5, <2>6, <2>7, <2>8, Zenon DEF ProbeStep
<1>3. CASE DownStep(p)
  <2>1. CASE RequestShutdown(p)
    BY <2>1 DEF RequestShutdown
  <2>2. CASE WaitUntilStopped(p)
    BY <2>2 DEF WaitUntilStopped
  <2>3. CASE WaitFree(p)
    BY <2>3 DEF WaitFree
  <2>4. CASE WaitTimesOut(p)
    BY <2>4 DEF WaitTimesOut
  <2>5. CASE CleanAcquire(p)
    BY <2>5 DEF CleanAcquire
  <2>6. CASE CleanSockets(p)
    BY <2>6 DEF CleanSockets
  <2>7. CASE CleanMetadata(p)
    BY <2>7 DEF CleanMetadata
  <2> QED BY <1>3, <2>1, <2>2, <2>3, <2>4, <2>5, <2>6, <2>7, Zenon DEF DownStep
<1>4. CASE Signal(p)
  BY <1>4 DEF Signal
<1>5. CASE Crash(p)
  BY <1>5 DEF Crash
<1>6. CASE ParentReads(p)
  BY <1>6 DEF ParentReads
<1>7. CASE ParentTimesOut(p)
  BY <1>7 DEF ParentTimesOut
<1> QED BY <1>1, <1>2, <1>3, <1>4, <1>5, <1>6, <1>7, Zenon DEF StepOf

(* An entry outlives its maker only when that is killed.                   *)
LEMMA MakersStep ==
  ASSUME OwnerInv, NEW p \in Processes, StepOf(p)
  PROVE  EntriesHaveMakers'
<1>0. /\ TypeOK /\ EntriesHaveMakers /\ EntriesOfSteps /\ Ups \subseteq Processes
      /\ pc \in [Processes -> Steps] /\ result \in [Processes -> Outcomes \cup {None}]
      /\ socket \in [Endpoints -> Ups \cup {None}]
  BY CommandsAreProcesses DEF OwnerInv, TypeOK
<1> USE <1>0 DEF EntriesHaveMakers, Listening, Endpoints, Goto, Finish
<1>1. CASE UpStep(p)
  <2>1. CASE Acquire(p)
    BY <2>1 DEF Acquire
  <2>2. CASE Reconcile(p)
    BY <2>2 DEF Reconcile
  <2>3. CASE Start(p)
    BY <2>3 DEF Start
  <2>4. CASE Bind(p)
    BY <2>4 DEF Bind
  <2>5. CASE BindControl(p)
    BY <2>5 DEF BindControl
  <2>6. CASE WriteMetadata(p)
    BY <2>6 DEF WriteMetadata
  <2>7. CASE WriteMetadataFails(p)
    BY <2>7 DEF WriteMetadataFails
  <2>13. CASE Announce(p)
    BY <2>13 DEF Announce
  <2>8. CASE BeginStop(p)
    BY <2>8 DEF BeginStop
  <2>9. CASE CloseControl(p)
    BY <2>9 DEF CloseControl, RemoveOwned, EntriesOfSteps
  <2>10. CASE CloseApplication(p)
    BY <2>10 DEF CloseApplication, RemoveOwned, EntriesOfSteps
  <2>11. CASE RemoveMetadata(p)
    BY <2>11 DEF RemoveMetadata
  <2>12. CASE ReleaseLease(p)
    BY <2>12 DEF ReleaseLease
  <2> QED BY <1>1, <2>1, <2>2, <2>3, <2>4, <2>5, <2>6, <2>7, <2>8, <2>9, <2>10, <2>11,
     <2>12, <2>13, Zenon DEF UpStep
<1>2. CASE ProbeStep(p)
  <2>1. UNCHANGED socket
    BY <1>2 DEF ProbeStep, ProbeLease, ProbeFree, ProbeArtifacts, ProbeMetadata, ProbeHealth,
       Query, ActivateOffline, WriteOffline
  <2> QED BY <1>2, <2>1, Moving, ProbesStayOutside DEF Moves, Outside, Owning, Closing
<1>3. CASE DownStep(p)
  <2>1. \A endpoint \in Endpoints : socket'[endpoint] \in {None, socket[endpoint]}
    BY <1>3 DEF DownStep, RequestShutdown, WaitUntilStopped, WaitFree, WaitTimesOut,
       CleanAcquire, CleanSockets, CleanMetadata
  <2> QED BY <1>3, <2>1, Moving, ProbesStayOutside DEF Moves, Outside, Owning, Closing
<1>4. CASE Signal(p)
  BY <1>4 DEF Signal
<1>5. CASE Crash(p)
  BY <1>5 DEF Crash
<1>6. CASE ParentReads(p)
  BY <1>6 DEF ParentReads
<1>7. CASE ParentTimesOut(p)
  BY <1>7 DEF ParentTimesOut
<1> QED BY <1>1, <1>2, <1>3, <1>4, <1>5, <1>6, <1>7, Zenon DEF StepOf

(* The metadata outlives its writer only when that is killed.              *)
LEMMA WriterStep ==
  ASSUME OwnerInv, NEW p \in Processes, StepOf(p)
  PROVE  MetadataHasWriter'
<1>0. /\ TypeOK /\ MetadataHasWriter /\ LeaseHeld /\ OutcomesOfSteps
      /\ Ups \subseteq Processes /\ pc \in [Processes -> Steps] /\ result \in [Processes -> Outcomes \cup {None}]
      /\ metadata # None => metadata.instance \in Ups
  BY CommandsAreProcesses DEF OwnerInv, TypeOK
<1> USE <1>0 DEF MetadataHasWriter, Recorded, Closing, Goto, Finish
<1>1. CASE UpStep(p)
  <2>1. CASE Acquire(p)
    BY <2>1 DEF Acquire
  <2>2. CASE Reconcile(p)
    BY <2>2 DEF Reconcile
  <2>3. CASE Start(p)
    BY <2>3 DEF Start
  <2>4. CASE Bind(p)
    BY <2>4 DEF Bind
  <2>5. CASE BindControl(p)
    BY <2>5 DEF BindControl
  <2>6. CASE WriteMetadata(p)
    BY <2>6 DEF WriteMetadata, LeaseHeld, Holding, Owning
  <2>7. CASE WriteMetadataFails(p)
    BY <2>7 DEF WriteMetadataFails
  <2>13. CASE Announce(p)
    <3>1. pc[p] = "announce" /\ metadata = [instance |-> p, phase |-> "running"]
      BY <2>13 DEF Announce
    <3>2. p \in Ups
      BY <3>1 DEF OwnerInv, CommandSteps, Owning
    <3>3. metadata # None /\ metadata.instance = p
      BY <3>1, <3>2, OwnerAssumption
    <3> QED BY <2>13, <3>1, <3>3 DEF Announce, LeaseHeld, Holding, Owning, Outcomes
  <2>8. CASE BeginStop(p)
    <3>1. p \in Ups
      BY <2>8 DEF BeginStop, OwnerInv, CommandSteps, Owning
    <3>2. metadata' # None /\ metadata'.instance = p
      BY <2>8, <3>1, OwnerAssumption DEF BeginStop
    <3> QED BY <2>8, <3>2 DEF BeginStop, LeaseHeld, Holding, Owning, Outcomes
  <2>9. CASE CloseControl(p)
    BY <2>9 DEF CloseControl
  <2>10. CASE CloseApplication(p)
    BY <2>10 DEF CloseApplication
  <2>11. CASE RemoveMetadata(p)
    BY <2>11 DEF RemoveMetadata, LeaseHeld, Holding, Owning
  <2>12. CASE ReleaseLease(p)
    BY <2>12 DEF ReleaseLease
  <2> QED BY <1>1, <2>1, <2>2, <2>3, <2>4, <2>5, <2>6, <2>7, <2>8, <2>9, <2>10, <2>11,
     <2>12, <2>13, Zenon DEF UpStep
<1>2. CASE ProbeStep(p)
  <2>1. UNCHANGED metadata
    BY <1>2 DEF ProbeStep, ProbeLease, ProbeFree, ProbeArtifacts, ProbeMetadata, ProbeHealth,
       Query, ActivateOffline, WriteOffline
  <2> QED BY <1>2, <2>1, Moving, ProbesStayOutside DEF Moves, Outside, Owning, Closing
<1>3. CASE DownStep(p)
  <2>1. CASE CleanMetadata(p)
    BY <2>1 DEF CleanMetadata, LeaseHeld, Holding, Owning
  <2>2. CASE ~CleanMetadata(p)
    <3>1. UNCHANGED metadata
      BY <1>3, <2>2 DEF DownStep, RequestShutdown, WaitUntilStopped, WaitFree,
         WaitTimesOut, CleanAcquire, CleanSockets
    <3> QED BY <1>3, <3>1, Moving, ProbesStayOutside DEF Moves, Outside, Owning
  <2> QED BY <2>1, <2>2
<1>4. CASE Signal(p)
  BY <1>4 DEF Signal
<1>5. CASE Crash(p)
  BY <1>5 DEF Crash
<1>6. CASE ParentReads(p)
  BY <1>6 DEF ParentReads
<1>7. CASE ParentTimesOut(p)
  BY <1>7 DEF ParentTimesOut
<1> QED BY <1>1, <1>2, <1>3, <1>4, <1>5, <1>6, <1>7, Zenon DEF StepOf

(* What a probe found, and what a down has seen the end of.                *)
Found(p) ==
  /\ target[p] # None =>
       pc[target[p]] \in PastMetadata /\ result[target[p]] # "metadata_failed"
  /\ p \in Downs =>
       /\ result[p] \in {"released", "ok"} /\ target[p] # None => pc[target[p]] = "done"
       /\ /\ result[p] = None
          /\ pc[p] \in {"probe", "probe_free", "probe_held", "artifacts", "clean",
                        "clean_sockets", "clean_metadata"}
          => target[p] = None

(* A down that finds the lease free has outlived the owner it addressed.   *)
LEMMA FoundStep ==
  ASSUME OwnerInv, NEW p \in Processes, StepOf(p)
  PROVE  Found(p)'
<1>0. /\ Found(p) /\ CommandSteps /\ OutcomesOfSteps /\ MetadataHasWriter /\ LeaseHeld
      /\ \A q \in Ups : /\ pc[q] \in PastMetadata /\ result[q] # "metadata_failed" =>
                             pc'[q] \in PastMetadata /\ result'[q] # "metadata_failed"
                        /\ pc[q] = "done" => pc'[q] = "done"
      /\ \A q \in Processes : q # None
      /\ Ups \subseteq Processes /\ None \notin Outcomes /\ Ups \cap Downs = {}
      /\ pc \in [Processes -> Steps] /\ result \in [Processes -> Outcomes \cup {None}]
      /\ target \in [Processes -> Ups \cup {None}]
      /\ metadata # None => metadata.instance \in Ups
  BY Moving, CommandsAreProcesses, OwnerAssumption, ZenonT(60) DEF Moves, OwnerInv, TypeOK,
     TargetsWereOwners, Found
<1> USE <1>0 DEF Found, Outcomes, Goto, Finish
<1>1. CASE UpStep(p)
  <2>1. CASE Acquire(p)
    BY <2>1 DEF Acquire, CommandSteps
  <2>2. CASE Reconcile(p)
    BY <2>2 DEF Reconcile, CommandSteps, Owning
  <2>3. CASE Start(p)
    BY <2>3 DEF Start, CommandSteps, Owning
  <2>4. CASE Bind(p)
    BY <2>4 DEF Bind, CommandSteps, Owning
  <2>5. CASE BindControl(p)
    BY <2>5 DEF BindControl, CommandSteps, Owning
  <2>6. CASE WriteMetadata(p)
    BY <2>6 DEF WriteMetadata, CommandSteps, Owning
  <2>7. CASE WriteMetadataFails(p)
    BY <2>7 DEF WriteMetadataFails, CommandSteps, Owning
  <2>13. CASE Announce(p)
    BY <2>13 DEF Announce, CommandSteps, Owning
  <2>8. CASE BeginStop(p)
    BY <2>8 DEF BeginStop, CommandSteps, Owning
  <2>9. CASE CloseControl(p)
    BY <2>9 DEF CloseControl
  <2>10. CASE CloseApplication(p)
    BY <2>10 DEF CloseApplication
  <2>11. CASE RemoveMetadata(p)
    BY <2>11 DEF RemoveMetadata
  <2>12. CASE ReleaseLease(p)
    BY <2>12 DEF ReleaseLease
  <2> QED BY <1>1, <2>1, <2>2, <2>3, <2>4, <2>5, <2>6, <2>7, <2>8, <2>9, <2>10, <2>11,
     <2>12, <2>13, Zenon DEF UpStep
<1>2. CASE ProbeStep(p)
  <2>1. CASE ProbeLease(p)
    BY <2>1 DEF ProbeLease
  <2>2. CASE ProbeFree(p)
    BY <2>2 DEF ProbeFree
  <2>3. CASE ProbeArtifacts(p)
    BY <2>3 DEF ProbeArtifacts, Report
  <2>4. CASE ProbeMetadata(p)
    <3>1. metadata # None => /\ pc[metadata.instance] \in PastMetadata
                             /\ result[metadata.instance] # "metadata_failed"
      BY OwnerAssumption
      DEF MetadataHasWriter, OutcomesOfSteps, Recorded, PastMetadata, Closing
    <3>2. CASE metadata = None
      BY <2>4, <3>2 DEF ProbeMetadata, Report
    <3>3. CASE metadata # None
      <4>1. /\ pc[p] = "probe_held"
            /\ target' = [target EXCEPT ![p] = IF result[p] = "released" THEN @
                                              ELSE metadata.instance]
            /\ \/ Report(p, "stopping")
               \/ Goto(p, "health") /\ UNCHANGED result
        BY <2>4, <3>3 DEF ProbeMetadata
      <4>2. target'[p] # None => /\ pc'[target'[p]] \in PastMetadata
                                 /\ result'[target'[p]] # "metadata_failed"
        BY <3>1, <3>3, <4>1
      <4>3. ASSUME p \in Downs
            PROVE  /\ result[p] \in {None, "released"}
                   /\ pc'[p] \in {"wait", "health", "done"}
                      \/ (pc'[p] = "clean" /\ result'[p] # None)
                   /\ result'[p] \in {"released", "ok"} => result[p] = "released"
        BY <4>1, <4>3, OwnerAssumption DEF OutcomesOfSteps, Closing, Report
      <4>4. result[p] = "released" => target'[p] = target[p]
        BY <4>1
      <4>5. p \in Downs /\ result'[p] = None => pc'[p] \in {"wait", "health", "done"}
        BY <4>3
      <4> QED BY <4>2, <4>3, <4>4, <4>5
    <3> QED BY <3>2, <3>3
  <2>5. CASE ProbeHealth(p)
    BY <2>5 DEF ProbeHealth, Report
  <2>6. CASE Query(p)
    BY <2>6 DEF Query
  <2>7. CASE ActivateOffline(p)
    BY <2>7 DEF ActivateOffline
  <2>8. CASE WriteOffline(p)
    BY <2>8, OwnerAssumption DEF WriteOffline, CommandSteps
  <2> QED BY <1>2, <2>1, <2>2, <2>3, <2>4, <2>5, <2>6, <2>7, <2>8, Zenon DEF ProbeStep
<1>3. CASE DownStep(p)
  <2>1. CASE RequestShutdown(p)
    BY <2>1 DEF RequestShutdown
  <2>2. CASE WaitUntilStopped(p)
    BY <2>2 DEF WaitUntilStopped, LeaseHeld, Holding, Owning, Closing, PastMetadata
  <2>3. CASE WaitFree(p)
    BY <2>3 DEF WaitFree, OutcomesOfSteps
  <2>4. CASE WaitTimesOut(p)
    BY <2>4 DEF WaitTimesOut
  <2>5. CASE CleanAcquire(p)
    BY <2>5 DEF CleanAcquire
  <2>6. CASE CleanSockets(p)
    BY <2>6 DEF CleanSockets
  <2>7. CASE CleanMetadata(p)
    BY <2>7 DEF CleanMetadata, OutcomesOfSteps, Closing
  <2> QED BY <1>3, <2>1, <2>2, <2>3, <2>4, <2>5, <2>6, <2>7, Zenon DEF DownStep
<1>4. CASE Signal(p)
  BY <1>4 DEF Signal
<1>5. CASE Crash(p)
  BY <1>5 DEF Crash
<1>6. CASE ParentReads(p)
  BY <1>6 DEF ParentReads
<1>7. CASE ParentTimesOut(p)
  BY <1>7 DEF ParentTimesOut
<1> QED BY <1>1, <1>2, <1>3, <1>4, <1>5, <1>6, <1>7, Zenon DEF StepOf

(* The same for every process, of which p alone has moved.                 *)
LEMMA TargetStep ==
  ASSUME OwnerInv, NEW p \in Processes, StepOf(p)
  PROVE  TargetsWereOwners'
<1>1. TypeOK /\ \A q \in Processes : Found(q)
  BY DEF OwnerInv, TargetsWereOwners, Found
<1>2. \A q \in Ups : /\ pc[q] \in PastMetadata /\ result[q] # "metadata_failed" =>
                          pc'[q] \in PastMetadata /\ result'[q] # "metadata_failed"
                     /\ pc[q] = "done" => pc'[q] = "done"
  BY <1>1, Moving, CommandsAreProcesses DEF Moves
<1>3. \A q \in Processes : Found(q)'
  <2> SUFFICES ASSUME NEW q \in Processes PROVE Found(q)'
    OBVIOUS
  <2>1. CASE q = p
    BY <2>1, FoundStep
  <2>2. CASE q # p
    <3>1. pc'[q] = pc[q] /\ result'[q] = result[q] /\ target'[q] = target[q]
      BY <1>1, <2>2, Moving DEF Moves
    <3>2. target[q] \in Ups \cup {None}
      BY <1>1 DEF TypeOK
    <3> QED BY <1>1, <1>2, <3>1, <3>2 DEF Found
  <2> QED BY <2>1, <2>2
<1> QED BY <1>3, CommandsAreProcesses DEF TargetsWereOwners, Found

(* The parent that gives up kills the child.                               *)
LEMMA ParentStep ==
  ASSUME OwnerInv, NEW p \in Processes, StepOf(p)
  PROVE  ParentTellsTheTruth'
<1>0. /\ ParentTellsTheTruth /\ Detached \subseteq Processes
      /\ pc \in [Processes -> Steps]
      /\ parent \in [Detached -> {"waiting", "started", "already_running", "failed"}]
  BY CommandsAreProcesses DEF OwnerInv, TypeOK
<1> USE <1>0 DEF ParentTellsTheTruth, Goto, Finish, handshake
<1>1. CASE UpStep(p)
  <2>1. CASE Acquire(p)
    BY <2>1 DEF Acquire
  <2>2. CASE Reconcile(p)
    BY <2>2 DEF Reconcile
  <2>3. CASE Start(p)
    BY <2>3 DEF Start
  <2>4. CASE Bind(p)
    BY <2>4 DEF Bind
  <2>5. CASE BindControl(p)
    BY <2>5 DEF BindControl
  <2>6. CASE WriteMetadata(p)
    BY <2>6 DEF WriteMetadata
  <2>7. CASE WriteMetadataFails(p)
    BY <2>7 DEF WriteMetadataFails
  <2>13. CASE Announce(p)
    BY <2>13 DEF Announce
  <2>8. CASE BeginStop(p)
    BY <2>8 DEF BeginStop
  <2>9. CASE CloseControl(p)
    BY <2>9 DEF CloseControl
  <2>10. CASE CloseApplication(p)
    BY <2>10 DEF CloseApplication
  <2>11. CASE RemoveMetadata(p)
    BY <2>11 DEF RemoveMetadata
  <2>12. CASE ReleaseLease(p)
    BY <2>12 DEF ReleaseLease
  <2> QED BY <1>1, <2>1, <2>2, <2>3, <2>4, <2>5, <2>6, <2>7, <2>8, <2>9, <2>10, <2>11,
     <2>12, <2>13, Zenon DEF UpStep
<1>2. CASE ProbeStep(p)
  <2>1. CASE ProbeLease(p)
    BY <2>1 DEF ProbeLease
  <2>2. CASE ProbeFree(p)
    BY <2>2 DEF ProbeFree
  <2>3. CASE ProbeArtifacts(p)
    BY <2>3 DEF ProbeArtifacts, Report
  <2>4. CASE ProbeMetadata(p)
    BY <2>4 DEF ProbeMetadata, Report
  <2>5. CASE ProbeHealth(p)
    BY <2>5 DEF ProbeHealth, Report
  <2>6. CASE Query(p)
    BY <2>6 DEF Query
  <2>7. CASE ActivateOffline(p)
    BY <2>7 DEF ActivateOffline
  <2>8. CASE WriteOffline(p)
    BY <2>8 DEF WriteOffline
  <2> QED BY <1>2, <2>1, <2>2, <2>3, <2>4, <2>5, <2>6, <2>7, <2>8, Zenon DEF ProbeStep
<1>3. CASE DownStep(p)
  <2>1. CASE RequestShutdown(p)
    BY <2>1 DEF RequestShutdown
  <2>2. CASE WaitUntilStopped(p)
    BY <2>2 DEF WaitUntilStopped
  <2>3. CASE WaitFree(p)
    BY <2>3 DEF WaitFree
  <2>4. CASE WaitTimesOut(p)
    BY <2>4 DEF WaitTimesOut
  <2>5. CASE CleanAcquire(p)
    BY <2>5 DEF CleanAcquire
  <2>6. CASE CleanSockets(p)
    BY <2>6 DEF CleanSockets
  <2>7. CASE CleanMetadata(p)
    BY <2>7 DEF CleanMetadata
  <2> QED BY <1>3, <2>1, <2>2, <2>3, <2>4, <2>5, <2>6, <2>7, Zenon DEF DownStep
<1>4. CASE Signal(p)
  BY <1>4 DEF Signal
<1>5. CASE Crash(p)
  BY <1>5 DEF Crash
<1>6. CASE ParentReads(p)
  BY <1>6 DEF ParentReads
<1>7. CASE ParentTimesOut(p)
  BY <1>7 DEF ParentTimesOut
<1> QED BY <1>1, <1>2, <1>3, <1>4, <1>5, <1>6, <1>7, Zenon DEF StepOf

-----------------------------------------------------------------------------
(* Before a command has taken a step there is nothing to find.             *)
LEMMA OwnerInit == Init => OwnerInv
<1> SUFFICES ASSUME Init PROVE OwnerInv
  OBVIOUS
<1> USE OwnerAssumption, CommandsAreProcesses DEF Init, Endpoints
<1>1. TypeOK
  BY DEF TypeOK, Steps, Outcomes
<1>2. LeaseHeld /\ CommandSteps
  BY DEF LeaseHeld, CommandSteps, Holding, Owning, Closing
<1>3. OutcomesOfSteps /\ EntriesOfSteps
  BY DEF OutcomesOfSteps, EntriesOfSteps, Closing, Outcomes
<1>4. EntriesHaveMakers /\ MetadataHasWriter
  BY DEF EntriesHaveMakers, MetadataHasWriter
<1>5. TargetsWereOwners /\ ParentTellsTheTruth
  BY DEF TargetsWereOwners, ParentTellsTheTruth
<1> QED BY <1>1, <1>2, <1>3, <1>4, <1>5 DEF OwnerInv

(* Every step of every process preserves the invariant.                    *)
LEMMA OwnerStep == OwnerInv /\ [Next]_vars => OwnerInv'
<1> SUFFICES ASSUME OwnerInv, [Next]_vars PROVE OwnerInv'
  OBVIOUS
<1>1. CASE UNCHANGED vars
  BY <1>1, SMTT(60) DEF OwnerInv, vars, TypeOK, LeaseHeld, CommandSteps, OutcomesOfSteps,
     EntriesOfSteps, EntriesHaveMakers, MetadataHasWriter, TargetsWereOwners,
     ParentTellsTheTruth, Recorded, Listening
<1>2. CASE Next
  <2>1. PICK p \in Processes : StepOf(p)
    BY <1>2 DEF Next, StepOf
  <2> QED
    BY <2>1, TypeStep, LeaseStep, CommandStep, OutcomeStep, EntriesStep, MakersStep,
       WriterStep, TargetStep, ParentStep DEF OwnerInv
<1> QED BY <1>1, <1>2

(* The invariant holds in every state.                                     *)
LEMMA OwnerInvHolds == Spec => []OwnerInv
BY OwnerInit, OwnerStep, PTL DEF Spec

(* For any number of ups, downs, statuses and reloads, of which any number *)
(* is killed at any step: a serving owner has the lease, its metadata and  *)
(* both entries, what killed processes left makes no command fail at a     *)
(* socket, and an owner that ends on its own leaves nothing behind         *)
(* (run_owner, reconcile_stale_sockets, clean_stale_runtime).              *)
THEOREM OwnersAreReachable == Spec => []OwnerIsReachable
<1>1. ASSUME OwnerInv PROVE OwnerIsReachable
  <2> USE <1>1, CommandsAreProcesses DEF OwnerInv, TypeOK, Endpoints
  <2>1. ServingOwnerIsReachable
    BY DEF ServingOwnerIsReachable, LeaseHeld, Holding, Owning, MetadataHasWriter,
       EntriesOfSteps
  <2>2. LeftoversNeverBlock
    BY DEF LeftoversNeverBlock, OutcomesOfSteps
  <2>3. EndedOwnerLeavesNothing
    BY DEF EndedOwnerLeavesNothing, EntriesHaveMakers, MetadataHasWriter, Recorded,
       Listening, Closing
  <2> QED BY <2>1, <2>2, <2>3 DEF OwnerIsReachable
<1> QED BY <1>1, OwnerInvHolds, PTL

(* A down that reports success has outlived the owner its probe found, and *)
(* the parent of a detached up that reports a failure leaves no runtime    *)
(* behind (run_down, wait_until_stopped, spawn_detached).                  *)
THEOREM ReportsOfCommandsHold == Spec => []CommandsTellTheTruth
<1>1. ASSUME OwnerInv PROVE CommandsTellTheTruth
  BY <1>1 DEF OwnerInv, TargetsWereOwners, CommandsTellTheTruth, DownOutlivesItsTarget
<1> QED BY <1>1, OwnerInvHolds, PTL

(* A probe that reports a running runtime names the holder of the lease,   *)
(* whose metadata is in place and whose two sockets answer, although it    *)
(* read the lease, the metadata and the socket one after the other and     *)
(* owners may have changed between; whether that owner has announced       *)
(* itself is not said (probe_runtime, verify_instance).                    *)
THEOREM RunningIsServing == Spec => RunningMeansServing
<1>1. ASSUME OwnerInv, [Next]_vars PROVE [ReportsServing]_vars
  <2> SUFFICES ASSUME Next PROVE ReportsServing
    BY <1>1
  <2>1. PICK p \in Processes : StepOf(p)
    BY DEF Next, StepOf
  <2> SUFFICES ASSUME NEW q \in Processes, pc[q] = "health",
                      \/ result'[q] = "already_running"
                      \/ pc'[q] \in {"query", "shutdown"}
               PROVE  /\ lock = target[q]
                      /\ metadata # None /\ metadata.instance = target[q]
                      /\ \A endpoint \in Endpoints :
                           socket[endpoint] = target[q] /\ Live(endpoint)
    BY DEF ReportsServing
  <2>2. result[q] # "already_running"
    BY <1>1, OwnerAssumption DEF OwnerInv, OutcomesOfSteps, Closing, Outcomes
  <2>3. q = p
    BY <1>1, <2>1, <2>2, Moving DEF Moves, OwnerInv
  <2>4. Answers(q, "control")
    <3> USE <1>1, <2>2, <2>3 DEF OwnerInv, TypeOK, Goto, Finish
    <3>1. CASE ProbeHealth(p)
      BY <3>1 DEF ProbeHealth, Report
    <3>2. CASE Crash(p) \/ ParentTimesOut(p)
      BY <3>2 DEF Crash, ParentTimesOut
    <3>3. CASE Signal(p) \/ ParentReads(p)
      BY <3>3 DEF Signal, ParentReads
    <3>4. ~(UpStep(p) \/ DownStep(p) \/ (ProbeStep(p) /\ ~ProbeHealth(p)))
      BY Zenon DEF UpStep, DownStep, ProbeStep, Acquire, Reconcile, Start, Bind, BindControl,
         WriteMetadata, WriteMetadataFails, Announce, BeginStop, CloseControl, CloseApplication,
         RemoveMetadata, ReleaseLease, ProbeLease, ProbeFree, ProbeArtifacts,
         ProbeMetadata, Query, ActivateOffline, WriteOffline, RequestShutdown,
         WaitUntilStopped, WaitFree, WaitTimesOut, CleanAcquire, CleanSockets,
         CleanMetadata
    <3> QED BY <2>1, <3>1, <3>2, <3>3, <3>4 DEF StepOf
  <2>5. /\ target[q] \in Processes
        /\ pc[target[q]] \in {"bind_control", "write_metadata", "announce", "serving",
                              "close_control"}
    BY <1>1, <2>4, CommandsAreProcesses
    DEF OwnerInv, TypeOK, Answers, Live, Listening, Endpoints
  <2>6. pc[target[q]] \in PastMetadata /\ result[target[q]] # "metadata_failed"
    BY <1>1, <2>5, CommandsAreProcesses DEF OwnerInv, TargetsWereOwners
  <2>7. pc[target[q]] \in {"announce", "serving", "close_control"}
    BY <2>5, <2>6 DEF PastMetadata, Closing
  <2>8. lock = target[q]
    BY <1>1, <2>5, <2>7 DEF OwnerInv, LeaseHeld, Holding, Owning, Closing
  <2>9. metadata # None /\ metadata.instance = target[q]
    <3>1. target[q] \in Ups
      BY <1>1, <2>5, <2>7 DEF OwnerInv, CommandSteps, Owning, Closing
    <3>2. CASE pc[target[q]] \in {"announce", "serving"}
      <4>1. metadata = [instance |-> target[q], phase |-> "running"]
        BY <1>1, <2>5, <3>2 DEF OwnerInv, MetadataHasWriter
      <4> QED BY <3>1, <4>1, OwnerAssumption
    <3>3. CASE pc[target[q]] = "close_control"
      BY <1>1, <2>5, <2>6, <3>3 DEF OwnerInv, MetadataHasWriter
    <3> QED BY <2>7, <3>2, <3>3
  <2>10. socket["application"] = target[q] /\ socket["control"] = target[q]
    BY <1>1, <2>5, <2>7 DEF OwnerInv, EntriesOfSteps
  <2>11. \A endpoint \in Endpoints : socket[endpoint] = target[q] /\ Live(endpoint)
    BY <1>1, <2>5, <2>7, <2>10, CommandsAreProcesses DEF Endpoints, Live, Listening
  <2> QED BY <2>8, <2>9, <2>11
<1> QED BY <1>1, OwnerInvHolds, PTL DEF Spec, RunningMeansServing
=============================================================================
