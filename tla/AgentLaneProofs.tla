-------------------------- MODULE AgentLaneProofs ---------------------------
(***************************************************************************)
(* Proofs about the agent lane: what a reload or a restart leaves behind   *)
(* never strands routed work, claims are served by the process that took   *)
(* them, and the threads stay within the capacity of the lane.             *)
(***************************************************************************)
EXTENDS AgentLane, FiniteSetTheorems, WellFoundedInduction, TLAPS

(* Both provers are given time on every leaf that names none.              *)
USE ZenonT(5), SMTT(20)

(* What the actor knows of revisions: its own and that of its targets are  *)
(* archived; a reload it is serving has been adopted; a reload that is     *)
(* asked for is on disk; and with no reload under way and none failed the  *)
(* copies agree.                                                           *)
Adopted ==
  /\ revision \in archive /\ targets \in archive
  /\ serving => /\ pc # "idle" /\ reloading # None
                /\ revision = reloading /\ targets = reloading
  /\ reloading # None => disk = reloading
  /\ (failed = None /\ reloading = None) => disk = app /\ app = revision /\ revision = targets

(* Live work is bound to an archived revision, a thread runs under the     *)
(* revision of its item, which is bound, and the item in hand is claimed.  *)
Bound ==
  /\ \A e \in Events : Live(e) => items[e].revision \in archive
  /\ \A w \in workers : /\ w.revision = items[w.event].revision
                        /\ items[w.event].status \notin {"absent", "pending"}
  /\ hand # None => items[hand].status = "claimed"

(* In the first process, a claim whose lease runs is in hand or held by a  *)
(* thread.                                                                 *)
Held ==
  crashes = 0 =>
    \A e \in Events :
      (items[e].status = "claimed" /\ e \notin expired)
      => \/ hand = e
         \/ \E w \in workers : w.event = e /\ w.token = items[e].claims

(* A thread has a place of its own, under its event and token; no token is *)
(* of a claim that is still to come, and the claim in hand is later than   *)
(* those of the threads; there is a place free for the item in hand.       *)
Placed ==
  /\ IsFiniteSet(active) /\ Cardinality(active) <= Capacity
  /\ hand # None => Cardinality(active) < Capacity
  /\ \A w \in workers : EntryOf(w) # {}
  /\ \A v, w \in workers : (v.event = w.event /\ v.token = w.token) => v = w
  /\ \A w \in workers : /\ w.token <= items[w.event].claims
                        /\ w.event = hand => w.token < items[w.event].claims

LaneInv ==
  /\ TypeOK
  /\ IsFiniteSet({f \in Events : order[f] > 0})
  /\ Adopted /\ Bound /\ Held /\ Placed

-----------------------------------------------------------------------------
(* A set of numbers that is not empty has a least element.                 *)
LEMMA LeastNumber ==
  ASSUME NEW T, T \subseteq Nat, T # {}
  PROVE  \E x \in T : \A y \in T : ~(y < x)
<1> DEFINE R == OpToRel(<, Nat)
<1>1. IsWellFoundedOn(R, Nat)
  BY NatLessThanWellFounded
<1>2. \A x, y \in Nat : x < y => <<x, y>> \in R
  BY DEF OpToRel
<1> HIDE DEF R
<1>3. PICK x \in T : \A y \in T : ~(<<y, x>> \in R)
  BY <1>1, WFMin
<1> QED
  BY <1>2, <1>3, Zenon

(* The oldest of some events is one of them.                               *)
LEMMA OldestIsOne ==
  ASSUME TypeOK, NEW S, S \subseteq Events, S # {}
  PROVE  Oldest(S) \in S
<1> DEFINE T == {order[e] : e \in S}
<1>1. T \subseteq Nat /\ T # {}
  BY DEF TypeOK
<1>2. PICK x \in T : \A y \in T : ~(y < x)
  BY <1>1, LeastNumber
<1>3. PICK e \in S : x = order[e]
  BY <1>2
<1>4. \A f \in S : order[e] <= order[f]
  BY <1>1, <1>2, <1>3
<1> QED
  BY <1>4 DEF Oldest

(* What a handler that goes on or returns does to the revisions.           *)
LEMMA ReturnKeepsTypes ==
  ASSUME TypeOK, Adopted, NEW ok \in BOOLEAN, Return(ok)
  PROVE  /\ app' \in Revisions /\ serving' \in BOOLEAN
         /\ {reloading', failed'} \subseteq Revisions \cup {None}
         /\ pc' = "idle"
BY DEF TypeOK, Adopted, Return

(* Proceed moves the actor to its next step within the types.              *)
LEMMA ProceedKeepsTypes ==
  ASSUME TypeOK, NEW next, Proceed(next)
  PROVE  /\ app' \in Revisions /\ serving' \in BOOLEAN
         /\ {reloading', failed'} \subseteq Revisions \cup {None}
         /\ pc' = next
BY DEF TypeOK, Proceed

-----------------------------------------------------------------------------
(* Types are kept.                                                         *)
LEMMA RouteKeepsType ==
  ASSUME TypeOK, Adopted, NEW at, NEW next, RouteOne(at, next),
         at \in {"route", "reroute"}, next \in {"reconcile", "claim"}
  PROVE  TypeOK'
<1>1. CASE Pending = {}
  <2>1. Proceed(next) /\ UNCHANGED items
    BY <1>1 DEF RouteOne
  <2> QED
    BY <2>1, ProceedKeepsTypes DEF RouteOne, TypeOK, lane, bounds
<1>2. CASE Pending # {} /\ Routable(Oldest(Pending))
  <2> DEFINE o == Oldest(Pending)
  <2>1. o \in Events /\ items[o].status = "pending"
    BY <1>2, OldestIsOne DEF Pending
  <2>2. /\ items' = [items EXCEPT ![o].status = "available", ![o].revision = revision]
        /\ Proceed(at)
    BY <1>2 DEF RouteOne
  <2> HIDE DEF o
  <2>3. /\ items' \in [Events -> Item]
        /\ \A e \in Events : e # o => items'[e] = items[e]
    <3> DEFINE new == [items[o] EXCEPT !.status = "available", !.revision = revision]
    <3>1. items' = [items EXCEPT ![o] = new]
      BY <2>2
    <3>2. new \in Item
      BY <2>1 DEF TypeOK, Item, Statuses
    <3> HIDE DEF new
    <3> QED
      BY <2>1, <3>1, <3>2 DEF TypeOK
  <2>4. expired' \subseteq {e \in Events : items'[e].status = "claimed"}
    BY <2>1, <2>3 DEF RouteOne, TypeOK
  <2> QED
    BY <2>2, <2>3, <2>4, ProceedKeepsTypes DEF RouteOne, TypeOK, lane, bounds
<1>3. CASE Pending # {} /\ ~Routable(Oldest(Pending))
  <2>1. Return(FALSE) /\ UNCHANGED items
    BY <1>3 DEF RouteOne
  <2> QED
    BY <2>1, ReturnKeepsTypes DEF RouteOne, TypeOK, lane, bounds
<1> QED
  BY <1>1, <1>2, <1>3

(* Claim takes one of the claimable items and raises its fencing number.   *)
LEMMA ClaimedItem ==
  ASSUME TypeOK, pc = "claim", Claim, Cardinality(active) < Capacity, Claimable # {}
  PROVE  \E e \in Claimable :
           /\ items' = [items EXCEPT ![e].status = "claimed", ![e].claims = @ + 1]
           /\ hand' = e /\ Proceed("start")
<1>1. Oldest(Claimable) \in Claimable
  BY OldestIsOne DEF Claimable
<1> QED
  BY <1>1 DEF Claim

(* Every step keeps the types.                                             *)
LEMMA TypeStep ==
  ASSUME LaneInv, [Next]_vars
  PROVE  TypeOK'
<1> USE LaneAssumption
<1>0. TypeOK /\ Adopted /\ Bound
  BY DEF LaneInv
<1>1. CASE Route
  BY <1>0, <1>1, RouteKeepsType DEF Route
<1>2. CASE Reroute
  BY <1>0, <1>2, RouteKeepsType DEF Reroute
<1>3. CASE Reconcile
  <2>1. items' \in [Events -> Item]
    BY <1>0, <1>3 DEF Reconcile, TypeOK, Item, Statuses
  <2> QED
    BY <1>0, <1>3, <2>1, ProceedKeepsTypes DEF Reconcile, TypeOK, lane, bounds
<1>4. CASE Claim
  <2>1. CASE Cardinality(active) < Capacity /\ Claimable # {}
    <3>1. PICK e \in Claimable :
            /\ items' = [items EXCEPT ![e].status = "claimed", ![e].claims = @ + 1]
            /\ hand' = e /\ Proceed("start")
      BY <1>0, <1>4, <2>1, ClaimedItem DEF Claim
    <3>2. /\ e \in Events /\ items[e].status = "available"
          /\ items[e].claims + 1 \in 0 .. MaxClaims
      BY <1>0, <3>1 DEF Claimable, TypeOK, Item
    <3>3. /\ items' \in [Events -> Item]
          /\ \A f \in Events : f # e => items'[f] = items[f]
      BY <1>0, <3>1, <3>2 DEF TypeOK, Item, Statuses
    <3>4. expired' \subseteq {f \in Events : items'[f].status = "claimed"}
      BY <1>0, <1>4, <3>2, <3>3 DEF Claim, TypeOK
    <3> QED
      BY <1>0, <1>4, <3>1, <3>2, <3>3, <3>4, ProceedKeepsTypes DEF Claim, TypeOK, bounds
  <2>2. CASE ~(Cardinality(active) < Capacity /\ Claimable # {})
    <3>1. Return(TRUE) /\ UNCHANGED <<items, hand>>
      BY <1>4, <2>2 DEF Claim
    <3>2. hand = None
      BY <1>0, <1>4 DEF Claim, TypeOK
    <3> QED
      BY <1>0, <1>4, <3>1, <3>2, ReturnKeepsTypes DEF Claim, TypeOK, bounds
  <2> QED
    BY <2>1, <2>2
<1>5. CASE StartAttempt
  <2>0. hand \in Events /\ items[hand] \in Item
    BY <1>0, <1>5 DEF StartAttempt, TypeOK
  <2>1. CASE /\ hand \notin expired
             /\ items' = [items EXCEPT ![hand].attempts = @ + 1]
             /\ Proceed("build") /\ UNCHANGED hand
    <3>1. /\ items' \in [Events -> Item]
          /\ \A f \in Events : items'[f].status = items[f].status
      BY <1>0, <2>0, <2>1 DEF TypeOK, Item
    <3> QED
      BY <1>0, <1>5, <2>0, <2>1, <3>1, ProceedKeepsTypes DEF StartAttempt, TypeOK, bounds
  <2>2. CASE /\ items' = IF hand \in expired THEN items
                         ELSE [items EXCEPT ![hand].status = "available"]
             /\ hand' = None
             /\ Return(FALSE)
    <3>1. /\ items' \in [Events -> Item]
          /\ \A f \in Events : f \in expired => items'[f] = items[f]
      BY <1>0, <2>0, <2>2 DEF TypeOK, Item, Statuses
    <3> QED
      BY <1>0, <1>5, <2>2, <3>1, ReturnKeepsTypes, ZenonT(60) DEF StartAttempt, TypeOK, bounds
  <2> QED
    BY <1>5, <2>1, <2>2 DEF StartAttempt
<1>6. CASE BuildAndSpawn
  <2>0. hand \in Events /\ items[hand] \in Item /\ hand' = None
    BY <1>0, <1>6 DEF BuildAndSpawn, TypeOK
  <2>1. CASE /\ TaskRevision(hand) # None
             /\ active' = active \cup {[event |-> hand, token |-> items[hand].claims,
                                        cancelled |-> FALSE]}
             /\ workers' = workers \cup {[event |-> hand, token |-> items[hand].claims,
                                          revision |-> TaskRevision(hand),
                                          done |-> "running"]}
             /\ Proceed("claim") /\ UNCHANGED items
    <3>1. TaskRevision(hand) \in Revisions /\ items[hand].claims \in Nat
      BY <1>0, <2>0, <2>1 DEF TaskRevision, Load, TypeOK, Item
    <3>2. /\ [event |-> hand, token |-> items[hand].claims, cancelled |-> FALSE] \in Entry
          /\ [event |-> hand, token |-> items[hand].claims,
              revision |-> TaskRevision(hand), done |-> "running"] \in Thread
      BY <2>0, <3>1 DEF Entry, Thread
    <3>3. active' \subseteq Entry /\ workers' \subseteq Thread
      BY <1>0, <2>1, <3>2, Zenon DEF TypeOK
    <3> QED
      BY <1>0, <1>6, <2>0, <2>1, <3>3, ProceedKeepsTypes DEF BuildAndSpawn, TypeOK, bounds
  <2>2. CASE /\ hand \notin expired
             /\ items' = [items EXCEPT ![hand] = AfterFailure(@)]
             /\ Proceed("claim") /\ UNCHANGED <<active, workers>>
    <3>1. /\ items' \in [Events -> Item]
          /\ \A f \in Events : f \in expired => items'[f] = items[f]
      BY <1>0, <2>0, <2>2 DEF TypeOK, Item, Statuses, AfterFailure
    <3> QED
      BY <1>0, <1>6, <2>0, <2>2, <3>1, ProceedKeepsTypes DEF BuildAndSpawn, TypeOK, bounds
  <2>3. CASE Return(FALSE) /\ UNCHANGED <<items, active, workers>>
    BY <1>0, <1>6, <2>0, <2>3, ReturnKeepsTypes DEF BuildAndSpawn, TypeOK, bounds
  <2> QED
    BY <1>6, <2>1, <2>2, <2>3 DEF BuildAndSpawn
<1>7. CASE Deadline
  <2>1. ASSUME NEW a \in active, NEW c \in BOOLEAN
        PROVE  [a EXCEPT !.cancelled = c] \in Entry
    BY <1>0 DEF TypeOK, Entry
  <2>2. active' \subseteq Entry
    <3>1. \A a \in active : (a.cancelled \/ ~Current(a.event, a.token)) \in BOOLEAN
      OBVIOUS
    <3> QED
      BY <1>7, <2>1, <3>1, Zenon DEF Deadline
  <2> QED
    BY <1>0, <1>7, <2>2 DEF Deadline, TypeOK, queue, project, bounds
<1>8. CASE ReloadActor
  <2>1. CASE reloading \in Unadoptable
    BY <1>0, <1>8, <2>1 DEF ReloadActor, Record, TypeOK, queue, lane, bounds
  <2>2. CASE reloading \notin Unadoptable
    BY <1>0, <1>8, <2>2 DEF ReloadActor, Record, TypeOK, queue, lane, bounds
  <2> QED
    BY <2>1, <2>2
<1>9. CASE Restart
  <2>1. /\ UNCHANGED <<items, order, expired, disk, reloads>>
        /\ active' = {} /\ workers' = {} /\ hand' = None /\ pc' = "reconcile"
        /\ revision' = disk /\ targets' = disk /\ app' = disk
        /\ archive' = archive \cup {disk}
        /\ reloading' = None /\ serving' = FALSE /\ failed' = None
        /\ crashes' = crashes + 1
    BY <1>9 DEF Restart, Record, queue
  <2>2. /\ crashes' \in Nat /\ "reconcile" \notin {"start", "build"}
        /\ \A e \in expired : items'[e] = items[e]
    BY <1>0, <2>1 DEF TypeOK
  <2> QED
    BY <1>0, <2>1, <2>2, Zenon DEF TypeOK
<1>10. ASSUME NEW e \in Events, Ingest(e)
       PROVE  TypeOK'
  <2>1. /\ items' \in [Events -> Item]
        /\ \A f \in Events : f \in expired => items'[f] = items[f]
    <3>1. CASE items[e].status = "absent"
      BY <1>0, <1>10, <3>1 DEF Ingest, TypeOK, Item, Statuses
    <3>2. CASE items[e].status # "absent"
      BY <1>0, <1>10, <3>2 DEF Ingest, TypeOK
    <3> QED BY <3>1, <3>2
  <2>2. order' \in [Events -> Nat]
    <3>1. Cardinality({f \in Events : order[f] > 0}) \in Nat
      BY FS_CardinalityType DEF LaneInv
    <3> QED
      BY <1>0, <1>10, <3>1 DEF Ingest, TypeOK
  <2> QED
    BY <1>0, <1>10, <2>1, <2>2 DEF Ingest, TypeOK, project, lane, bounds
<1>11. ASSUME NEW e \in Events, LeaseEnds(e)
       PROVE  TypeOK'
  BY <1>0, <1>11 DEF LeaseEnds, TypeOK, project, lane, bounds
<1>12. ASSUME NEW w \in workers, AgentFinished(w)
       PROVE  TypeOK'
  <2>0. w \in Thread /\ w.event \in Events /\ items[w.event] \in Item
    BY <1>0 DEF TypeOK, Thread
  <2>1. active' \subseteq Entry /\ workers' \subseteq Thread
    BY <1>0, <1>12 DEF AgentFinished, TypeOK
  <2>5. /\ hand = None /\ hand' = None
        /\ UNCHANGED <<order, expired, archive, disk, revision, targets, crashes, reloads>>
    BY <1>0, <1>12 DEF AgentFinished, TypeOK, bounds
  <2>2. CASE ~Current(w.event, w.token)
    BY <1>0, <1>12, <2>1, <2>2 DEF AgentFinished, TypeOK, bounds
  <2>3. CASE /\ Current(w.event, w.token)
             /\ items' = [items EXCEPT ![w.event].status = "completed"]
             /\ Proceed("route")
    <3>1. /\ items' \in [Events -> Item]
          /\ \A f \in Events : f \in expired => items'[f] = items[f]
      BY <1>0, <2>0, <2>3 DEF TypeOK, Item, Statuses, Current
    <3>2. expired' \subseteq {f \in Events : items'[f].status = "claimed"}
      BY <1>0, <2>5, <3>1 DEF TypeOK
    <3> QED
      BY <1>0, <2>1, <2>3, <2>5, <3>1, <3>2, ProceedKeepsTypes DEF TypeOK
  <2>4. CASE /\ Current(w.event, w.token)
             /\ items' = [items EXCEPT ![w.event] = AfterFailure(@)]
             /\ Proceed("reconcile")
    <3>1. /\ items' \in [Events -> Item]
          /\ \A f \in Events : f \in expired => items'[f] = items[f]
      BY <1>0, <2>0, <2>4 DEF TypeOK, Item, Statuses, Current, AfterFailure
    <3>2. expired' \subseteq {f \in Events : items'[f].status = "claimed"}
      BY <1>0, <2>5, <3>1 DEF TypeOK
    <3> QED
      BY <1>0, <2>1, <2>4, <2>5, <3>1, <3>2, ProceedKeepsTypes DEF TypeOK
  <2> QED
    BY <1>12, <2>2, <2>3, <2>4 DEF AgentFinished
<1>13. ASSUME NEW w \in workers, NEW o \in {"completed", "failed"}, WorkerReturns(w, o)
       PROVE  TypeOK'
  <2>1. [w EXCEPT !.done = o] \in Thread
    BY <1>0 DEF TypeOK, Thread
  <2> QED
    BY <1>0, <1>13, <2>1 DEF WorkerReturns, TypeOK, queue, project, bounds
<1>14. ASSUME NEW r \in Revisions, ReloadWrites(r)
       PROVE  TypeOK'
  BY <1>0, <1>14 DEF ReloadWrites, TypeOK, queue, lane
<1>15. CASE UNCHANGED vars
  BY <1>0, <1>15 DEF TypeOK, vars, queue, project, lane, bounds
<1> QED
  BY <1>1, <1>2, <1>3, <1>4, <1>5, <1>6, <1>7, <1>8, <1>9, <1>10, <1>11, <1>12, <1>13,
     <1>14, <1>15 DEF Next, Step

-----------------------------------------------------------------------------
(* Only an ingested event gets a cursor, one at a time.                    *)
LEMMA OrderStep ==
  ASSUME LaneInv, [Next]_vars
  PROVE  IsFiniteSet({f \in Events : order'[f] > 0})
<1> DEFINE S == {f \in Events : order[f] > 0}
<1>0. IsFiniteSet(S) /\ order \in [Events -> Nat]
  BY DEF LaneInv, TypeOK
<1>1. CASE order' = order
  BY <1>0, <1>1
<1>2. ASSUME NEW e \in Events, Ingest(e)
      PROVE  IsFiniteSet({f \in Events : order'[f] > 0})
  <2>1. IsFiniteSet(S \cup {e})
    BY <1>0, FS_AddElement
  <2>2. {f \in Events : order'[f] > 0} \subseteq S \cup {e}
    BY <1>0, <1>2 DEF Ingest
  <2> QED
    BY <2>1, <2>2, FS_Subset
<1>3. \/ order' = order
      \/ \E e \in Events : Ingest(e)
  BY DEF Next, Step, Route, Reroute, RouteOne, Reconcile, Claim, StartAttempt,
         BuildAndSpawn, Deadline, ReloadActor, Restart, LeaseEnds, AgentFinished,
         WorkerReturns, ReloadWrites, vars, queue
<1> QED
  BY <1>1, <1>2, <1>3

(* How a handler's end keeps what is known of revisions.                   *)
LEMMA ReturnKeepsAdopted ==
  ASSUME TypeOK, Adopted, NEW ok \in BOOLEAN, Return(ok),
         UNCHANGED <<disk, archive, revision, targets>>
  PROVE  Adopted'
<1>1. None \notin Revisions /\ app \in Revisions
  BY LaneAssumption DEF TypeOK
<1>2. CASE serving
  BY <1>1, <1>2 DEF Adopted, Return
<1>3. CASE ~serving
  BY <1>1, <1>3 DEF Adopted, Return
<1> QED
  BY <1>2, <1>3

(* A pass that goes on serves the reload it has adopted.                   *)
LEMMA ProceedKeepsAdopted ==
  ASSUME Adopted, NEW next, next # "idle", Proceed(next),
         UNCHANGED <<disk, archive, revision, targets>>
  PROVE  Adopted'
BY DEF Adopted, Proceed

(* Every step keeps what the actor knows of revisions.                     *)
LEMMA AdoptedStep ==
  ASSUME LaneInv, [Next]_vars
  PROVE  Adopted'
<1>0. /\ TypeOK /\ Adopted /\ None \notin Revisions
      /\ app \in Revisions /\ reloading \in Revisions \cup {None}
  BY LaneAssumption DEF LaneInv, TypeOK
<1>1. CASE Step
  <2>1. \/ Return(TRUE) \/ Return(FALSE)
        \/ Proceed("route") \/ Proceed("reconcile") \/ Proceed("reroute")
        \/ Proceed("claim") \/ Proceed("start") \/ Proceed("build")
    BY <1>1, Zenon DEF Step, Route, Reroute, RouteOne, Reconcile, Claim, StartAttempt,
                       BuildAndSpawn
  <2>2. UNCHANGED <<disk, archive, revision, targets>>
    BY <1>1 DEF Step, Route, Reroute, RouteOne, Reconcile, Claim, StartAttempt,
                BuildAndSpawn
  <2> QED
    BY <1>0, <2>1, <2>2, ReturnKeepsAdopted, ProceedKeepsAdopted
<1>2. CASE ReloadActor
  <2>1. CASE reloading \in Unadoptable
    BY <1>0, <1>2, <2>1 DEF ReloadActor, Adopted, Record
  <2>2. CASE reloading \notin Unadoptable
    BY <1>0, <1>2, <2>2 DEF ReloadActor, Adopted, Record
  <2> QED
    BY <2>1, <2>2
<1>3. CASE Restart
  BY <1>0, <1>3 DEF Restart, Adopted, Record
<1>4. ASSUME NEW r \in Revisions, ReloadWrites(r)
      PROVE  Adopted'
  BY <1>0, <1>4 DEF ReloadWrites, Adopted
<1>5. ASSUME NEW w \in workers, AgentFinished(w)
      PROVE  Adopted'
  BY <1>0, <1>5 DEF AgentFinished, Adopted, Proceed
<1>6. CASE UNCHANGED project /\ (pc' = pc \/ pc' # "idle")
  BY <1>0, <1>6 DEF Adopted, project
<1> QED
  BY <1>1, <1>2, <1>3, <1>4, <1>5, <1>6
  DEF Next, Deadline, Ingest, LeaseEnds, WorkerReturns, vars

-----------------------------------------------------------------------------
(* How an item moves in a step: it is bound when it is routed, to the      *)
(* actor's revision, and stays bound; its claims count up; and it becomes  *)
(* claimed only in the hands of the lane.                                  *)
ItemMoves(e) ==
  /\ \/ items'[e].revision = items[e].revision
     \/ items[e].status = "pending" /\ items'[e].revision = revision
  /\ items[e].status \notin {"absent", "pending"}
     => items'[e].status \notin {"absent", "pending"}
  /\ items'[e].status \in {"available", "claimed"}
     => \/ Live(e)
        \/ items[e].status = "pending" /\ items'[e].revision = revision
  /\ items[e].claims <= items'[e].claims
  /\ (items'[e].status = "claimed" /\ e \notin expired')
     => \/ hand' = e
        \/ /\ items[e].status = "claimed" /\ e \notin expired
           /\ items'[e].claims = items[e].claims

(* An item that a step leaves alone moves trivially.                       *)
LEMMA ItemStays ==
  ASSUME TypeOK, NEW e \in Events, items'[e] = items[e],
         expired \subseteq expired' \/ e \notin expired
  PROVE  ItemMoves(e)
<1>1. items[e].claims \in Nat
  BY LaneAssumption DEF TypeOK, Item
<1> QED
  BY <1>1 DEF ItemMoves, Live

(* Every step moves every item the way its life allows.                    *)
LEMMA ItemsMove ==
  ASSUME LaneInv, [Next]_vars, NEW e \in Events
  PROVE  ItemMoves(e)
<1>0. /\ TypeOK /\ Bound /\ items[e].claims \in Nat
      /\ items \in [Events -> Item] /\ expired \subseteq Events
      /\ \A f \in expired : items[f].status = "claimed"
  BY LaneAssumption DEF LaneInv, TypeOK, Item
<1>1. CASE UNCHANGED items /\ expired \subseteq expired'
  BY <1>0, <1>1, ItemStays
<1>2. ASSUME NEW at, NEW next, RouteOne(at, next)
      PROVE  ItemMoves(e)
  <2>1. CASE UNCHANGED items
    BY <1>1, <1>2, <2>1 DEF RouteOne
  <2>2. CASE Pending # {} /\ Routable(Oldest(Pending))
    <3> DEFINE o == Oldest(Pending)
    <3>1. o \in Events /\ items[o].status = "pending"
      BY <1>0, <2>2, OldestIsOne DEF Pending
    <3>2. items' = [items EXCEPT ![o].status = "available", ![o].revision = revision]
      BY <1>2, <2>2 DEF RouteOne
    <3>3. expired' = expired
      BY <1>2 DEF RouteOne
    <3> HIDE DEF o
    <3>4. CASE e # o
      BY <1>0, <3>1, <3>2, <3>3, <3>4, ItemStays
    <3>5. CASE e = o
      BY <1>0, <3>1, <3>2, <3>3, <3>5 DEF ItemMoves, Item
    <3> QED
      BY <3>4, <3>5
  <2> QED
    BY <1>2, <2>1, <2>2 DEF RouteOne
<1>3. CASE Reconcile
  <2>1. CASE e \in expired
    BY <1>0, <1>3, <2>1 DEF Reconcile, ItemMoves, Live, Item
  <2>2. CASE e \notin expired
    BY <1>0, <1>3, <2>2, ItemStays DEF Reconcile
  <2> QED
    BY <2>1, <2>2
<1>4. CASE Claim
  <2>1. CASE Cardinality(active) < Capacity /\ Claimable # {}
    <3>1. PICK f \in Claimable :
            /\ items' = [items EXCEPT ![f].status = "claimed", ![f].claims = @ + 1]
            /\ hand' = f /\ Proceed("start")
      BY <1>0, <1>4, <2>1, ClaimedItem DEF Claim
    <3>2. f \in Events /\ items[f].status = "available" /\ expired' = expired
      BY <1>4, <3>1 DEF Claimable, Claim
    <3>3. CASE e # f
      BY <1>0, <3>1, <3>2, <3>3, ItemStays
    <3>4. CASE e = f
      BY <1>0, <3>1, <3>2, <3>4 DEF ItemMoves, Live, Item
    <3> QED
      BY <3>3, <3>4
  <2>2. CASE ~(Cardinality(active) < Capacity /\ Claimable # {})
    BY <1>1, <1>4, <2>2 DEF Claim
  <2> QED
    BY <2>1, <2>2
<1>5. CASE StartAttempt
  <2>1. /\ hand \in Events /\ items[hand] \in Item /\ items[hand].status = "claimed"
        /\ expired' = expired
    BY <1>0, <1>5, LaneAssumption DEF StartAttempt, TypeOK, Bound
  <2>2. \/ items' = items
        \/ items' = [items EXCEPT ![hand].attempts = @ + 1] /\ hand' = hand
        \/ items' = [items EXCEPT ![hand].status = "available"]
    BY <1>5 DEF StartAttempt
  <2>3. CASE e # hand
    BY <1>0, <2>1, <2>2, <2>3, ItemStays
  <2>4. CASE e = hand
    BY <1>0, <2>1, <2>2, <2>4 DEF ItemMoves, Live, Item
  <2> QED
    BY <2>3, <2>4
<1>6. CASE BuildAndSpawn
  <2>1. /\ hand \in Events /\ items[hand] \in Item /\ items[hand].status = "claimed"
        /\ expired' = expired
    BY <1>0, <1>6, LaneAssumption DEF BuildAndSpawn, TypeOK, Bound
  <2>2. items' = items \/ items' = [items EXCEPT ![hand] = AfterFailure(@)]
    BY <1>6 DEF BuildAndSpawn
  <2>3. CASE e # hand \/ items' = items
    BY <1>0, <2>1, <2>2, <2>3, ItemStays
  <2>4. CASE e = hand /\ items' = [items EXCEPT ![hand] = AfterFailure(@)]
    BY <1>0, <2>1, <2>4 DEF ItemMoves, Live, Item, AfterFailure
  <2> QED
    BY <2>2, <2>3, <2>4
<1>7. ASSUME NEW f \in Events, Ingest(f)
      PROVE  ItemMoves(e)
  <2>1. CASE e # f
    BY <1>0, <1>7, <2>1, ItemStays DEF Ingest
  <2>3. CASE items[f].status # "absent"
    BY <1>0, <1>7, <2>3, ItemStays DEF Ingest
  <2>2. CASE e = f /\ items[f].status = "absent"
    BY <1>0, <1>7, <2>2 DEF Ingest, ItemMoves, Item
  <2> QED
    BY <2>1, <2>2, <2>3
<1>8. ASSUME NEW w \in workers, AgentFinished(w)
      PROVE  ItemMoves(e)
  <2>1. w.event \in Events /\ expired' = expired
    BY <1>0, <1>8 DEF AgentFinished, TypeOK, Thread
  <2>2. CASE items' = items \/ e # w.event
    BY <1>0, <1>8, <2>1, <2>2, ItemStays DEF AgentFinished
  <2>3. CASE e = w.event /\ items' # items
    <3>1. items[e].status = "claimed"
      BY <1>8, <2>3 DEF AgentFinished, Current
    <3>2. \/ items' = [items EXCEPT ![e].status = "completed"]
          \/ items' = [items EXCEPT ![e] = AfterFailure(@)]
      BY <1>8, <2>3 DEF AgentFinished
    <3> QED
      BY <1>0, <3>1, <3>2 DEF ItemMoves, Live, Item, AfterFailure
  <2> QED
    BY <2>2, <2>3
<1> QED
  BY <1>1, <1>2, <1>3, <1>4, <1>5, <1>6, <1>7, <1>8
  DEF Next, Step, Route, Reroute, Deadline, ReloadActor, Restart, LeaseEnds,
      WorkerReturns, ReloadWrites, vars, queue

-----------------------------------------------------------------------------
(* The archive grows, and the threads after a step are those before it, as *)
(* far as event, token and revision go, and the one that is spawned.       *)
SameThread(v, w) == v.event = w.event /\ v.token = w.token /\ v.revision = w.revision
Spawned(w) ==
  /\ hand # None /\ hand' = None
  /\ w.event = hand /\ w.token = items[hand].claims
  /\ w.revision = items[hand].revision
  /\ \E a \in active' : a.event = w.event /\ a.token = w.token

(* No step removes a revision from the archive.                            *)
LEMMA ArchiveGrows ==
  ASSUME [Next]_vars
  PROVE  archive \subseteq archive'
BY DEF Next, Step, Route, Reroute, RouteOne, Reconcile, Claim, StartAttempt,
       BuildAndSpawn, Deadline, ReloadActor, Restart, Ingest, LeaseEnds, AgentFinished,
       WorkerReturns, ReloadWrites, Record, vars, project

(* A thread that has returned is the thread it was.                        *)
LEMMA ReturnedThread ==
  ASSUME TypeOK, NEW v \in workers, NEW o
  PROVE  SameThread(v, [v EXCEPT !.done = o])
BY DEF TypeOK, Thread, SameThread

(* A step removes threads, spawns one, or lets one return.                 *)
LEMMA WorkersMove ==
  ASSUME LaneInv, [Next]_vars
  PROVE  \/ workers' \subseteq workers
         \/ \E w : Spawned(w) /\ workers' = workers \cup {w}
         \/ \E v \in workers : \E w : SameThread(v, w) /\ workers' = (workers \ {v}) \cup {w}
<1>0. TypeOK
  BY DEF LaneInv
<1>1. CASE workers' \subseteq workers
  BY <1>1
<1>2. CASE BuildAndSpawn /\ workers' # workers
  <2> DEFINE w == [event |-> hand, token |-> items[hand].claims,
                   revision |-> TaskRevision(hand), done |-> "running"]
             a == [event |-> hand, token |-> items[hand].claims, cancelled |-> FALSE]
  <2>1. /\ workers' = workers \cup {w} /\ active' = active \cup {a}
        /\ TaskRevision(hand) # None
    BY <1>2 DEF BuildAndSpawn
  <2>2. TaskRevision(hand) = items[hand].revision
    BY <2>1 DEF TaskRevision, Load
  <2>3. hand # None /\ hand' = None
    BY <1>0, <1>2 DEF BuildAndSpawn, TypeOK
  <2>4. /\ w.event = hand /\ w.token = items[hand].claims
        /\ w.revision = items[hand].revision
        /\ a.event = w.event /\ a.token = w.token /\ a \in active'
    BY <2>1, <2>2
  <2> HIDE DEF w, a
  <2> QED
    BY <2>1, <2>3, <2>4 DEF Spawned
<1>3. ASSUME NEW v \in workers, NEW o \in {"completed", "failed"}, WorkerReturns(v, o)
      PROVE  \E w : SameThread(v, w) /\ workers' = (workers \ {v}) \cup {w}
  BY <1>0, <1>3, ReturnedThread DEF WorkerReturns
<1>4. \/ workers' \subseteq workers \/ BuildAndSpawn
      \/ \E v \in workers, o \in {"completed", "failed"} : WorkerReturns(v, o)
  BY DEF Next, Step, Route, Reroute, RouteOne, Reconcile, Claim, StartAttempt, Deadline,
         ReloadActor, Restart, Ingest, LeaseEnds, AgentFinished, ReloadWrites, vars, lane
<1> QED
  BY <1>1, <1>2, <1>3, <1>4

(* A thread after a step is new or was there before.                       *)
LEMMA ThreadsMove ==
  ASSUME LaneInv, [Next]_vars, NEW w \in workers'
  PROVE  Spawned(w) \/ \E v \in workers : SameThread(v, w)
<1>1. CASE w \in workers
  BY <1>1 DEF SameThread
<1>2. CASE w \notin workers
  BY <1>2, WorkersMove
<1> QED
  BY <1>1, <1>2

(* The item in hand: taken by a claim, kept, or let go.                    *)
LEMMA HandMoves ==
  ASSUME LaneInv, [Next]_vars, hand' # None
  PROVE  \/ /\ hand' = hand
            /\ \/ items' = items
               \/ items' = [items EXCEPT ![hand].attempts = @ + 1]
         \/ /\ hand = None /\ hand' \in Claimable /\ Cardinality(active) < Capacity
            /\ items' = [items EXCEPT ![hand'].status = "claimed", ![hand'].claims = @ + 1]
            /\ UNCHANGED <<active, workers>>
<1>0. TypeOK
  BY DEF LaneInv
<1>1. CASE Claim
  <2>1. hand = None
    BY <1>0, <1>1 DEF Claim, TypeOK
  <2>2. Cardinality(active) < Capacity /\ Claimable # {}
    BY <1>1, <2>1 DEF Claim
  <2>3. UNCHANGED <<active, workers>>
    BY <1>1 DEF Claim
  <2> QED
    BY <1>0, <1>1, <2>1, <2>2, <2>3, ClaimedItem DEF Claim
<1>2. CASE pc \notin {"start", "build"} /\ hand' = hand
  BY <1>0, <1>2 DEF TypeOK
<1>3. CASE StartAttempt
  BY <1>3 DEF StartAttempt
<1>4. CASE hand' = hand /\ items' = items
  BY <1>4
<1> QED
  BY <1>1, <1>2, <1>3, <1>4
  DEF Next, Step, Route, Reroute, RouteOne, Reconcile, BuildAndSpawn, Deadline,
      ReloadActor, Restart, Ingest, LeaseEnds, AgentFinished, WorkerReturns, ReloadWrites,
      vars, queue, lane

(* Every step keeps the revisions of live items and threads archived.      *)
LEMMA BoundStep ==
  ASSUME LaneInv, [Next]_vars
  PROVE  Bound'
<1>0. /\ TypeOK /\ TypeOK' /\ Bound /\ revision \in archive /\ archive \subseteq archive'
      /\ \A e \in Events : ItemMoves(e)
  BY TypeStep, ArchiveGrows, ItemsMove DEF LaneInv, Adopted
<1>1. \A e \in Events :
        items'[e].status \in {"available", "claimed"} => items'[e].revision \in archive'
  BY <1>0 DEF ItemMoves, Bound, Live
<1>2. ASSUME NEW w \in workers'
      PROVE  /\ w.revision = items'[w.event].revision
             /\ items'[w.event].status \notin {"absent", "pending"}
  <2>1. CASE Spawned(w)
    <3>1. hand \in Events /\ hand # None
      BY <1>0, <2>1 DEF Spawned, TypeOK
    <3> QED
      BY <1>0, <2>1, <3>1 DEF Spawned, Bound, ItemMoves
  <2>2. ASSUME NEW v \in workers, SameThread(v, w)
        PROVE  /\ w.revision = items'[w.event].revision
               /\ items'[w.event].status \notin {"absent", "pending"}
    <3>1. v.event \in Events
      BY <1>0 DEF TypeOK, Thread
    <3> QED
      BY <1>0, <2>2, <3>1 DEF SameThread, Bound, ItemMoves
  <2> QED
    BY <2>1, <2>2, ThreadsMove
<1>3. hand' # None => items'[hand'].status = "claimed"
  <2> SUFFICES ASSUME hand' # None
               PROVE  items'[hand'].status = "claimed"
    OBVIOUS
  <2>1. hand' \in Events /\ items[hand'] \in Item
    BY <1>0 DEF TypeOK
  <2>2. CASE hand' = hand
    BY <1>0, <2>1, <2>2, HandMoves DEF Bound, TypeOK, Item
  <2>3. CASE items' = [items EXCEPT ![hand'].status = "claimed", ![hand'].claims = @ + 1]
    BY <1>0, <2>1, <2>3 DEF TypeOK, Item
  <2> QED
    BY <2>2, <2>3, HandMoves
<1> QED
  BY <1>1, <1>2, <1>3 DEF Bound, Live

-----------------------------------------------------------------------------
(* A claim whose lease runs stays in hand or with its thread: the lane     *)
(* hands it to the thread it spawns, and a thread that is handled while    *)
(* its claim is current ends the claim.                                    *)
LEMMA HeldStep ==
  ASSUME LaneInv, [Next]_vars
  PROVE  Held'
<1> SUFFICES ASSUME crashes' = 0, NEW e \in Events,
                    items'[e].status = "claimed", e \notin expired', hand' # e
             PROVE  \E w \in workers' : w.event = e /\ w.token = items'[e].claims
  BY DEF Held
<1>0. TypeOK /\ Held /\ ItemMoves(e) /\ crashes \in Nat
  BY ItemsMove DEF LaneInv, TypeOK
<1>1. ~Restart
  BY <1>0 DEF Restart
<1>2. crashes = 0
  BY <1>0, <1>1
  DEF Next, Step, Route, Reroute, RouteOne, Reconcile, Claim, StartAttempt,
      BuildAndSpawn, Deadline, ReloadActor, Ingest, LeaseEnds, AgentFinished,
      WorkerReturns, ReloadWrites, vars, bounds
<1>3. /\ items[e].status = "claimed" /\ e \notin expired
      /\ items'[e].claims = items[e].claims
  BY <1>0 DEF ItemMoves
<1>4. CASE hand = e
  <2>1. CASE BuildAndSpawn
    <3>1. items' # [items EXCEPT ![hand] = AfterFailure(@)]
      <4>1. AfterFailure(items[e]).status # "claimed"
        BY <1>0 DEF AfterFailure, TypeOK, Item
      <4> QED
        BY <1>0, <1>4, <4>1 DEF TypeOK
    <3> DEFINE t == [event |-> hand, token |-> items[hand].claims,
                     revision |-> TaskRevision(hand), done |-> "running"]
    <3>2. t \in workers'
      BY <1>3, <1>4, <2>1, <3>1 DEF BuildAndSpawn
    <3>3. t.event = e /\ t.token = items'[e].claims
      BY <1>3, <1>4
    <3> HIDE DEF t
    <3> QED
      BY <3>2, <3>3
  <2>2. CASE StartAttempt
    <3>1. items' = [items EXCEPT ![hand].status = "available"]
      BY <1>3, <1>4, <2>2 DEF StartAttempt
    <3> QED
      BY <1>0, <1>4, <3>1 DEF TypeOK, Item
  <2>3. pc \in {"start", "build"}
    BY <1>0, <1>4, LaneAssumption DEF TypeOK
  <2> QED
    BY <1>1, <1>4, <2>1, <2>2, <2>3
    DEF Next, Step, Route, Reroute, RouteOne, Reconcile, Claim, Deadline, ReloadActor,
        Ingest, LeaseEnds, AgentFinished, WorkerReturns, ReloadWrites, vars, lane
<1>5. CASE hand # e
  <2>1. PICK w \in workers : w.event = e /\ w.token = items[e].claims
    BY <1>0, <1>2, <1>3, <1>5 DEF Held
  <2>2. CASE w \in workers'
    BY <1>3, <2>1, <2>2
  <2>3. ASSUME NEW v \in workers, NEW o \in {"completed", "failed"}, WorkerReturns(v, o)
        PROVE  \E u \in workers' : u.event = e /\ u.token = items'[e].claims
    <3>1. CASE v # w
      BY <2>2, <2>3, <3>1 DEF WorkerReturns
    <3>2. CASE v = w
      <4>1. [w EXCEPT !.done = o] \in workers'
        BY <2>3, <3>2 DEF WorkerReturns
      <4>2. SameThread(w, [w EXCEPT !.done = o])
        BY <1>0, ReturnedThread
      <4> QED
        BY <1>3, <2>1, <4>1, <4>2 DEF SameThread
    <3> QED
      BY <3>1, <3>2
  <2>4. ASSUME NEW v \in workers, AgentFinished(v)
        PROVE  w \in workers'
    <3>1. CASE v # w
      BY <2>4, <3>1 DEF AgentFinished
    <3>2. CASE v = w
      <4>1. Current(w.event, w.token)
        BY <1>3, <2>1 DEF Current
      <4>2. \/ items' = [items EXCEPT ![e].status = "completed"]
            \/ items' = [items EXCEPT ![e] = AfterFailure(@)]
        BY <2>1, <2>4, <3>2, <4>1 DEF AgentFinished
      <4> QED
        BY <1>0, <4>2 DEF TypeOK, Item, AfterFailure
    <3> QED
      BY <3>1, <3>2
  <2>5. w \in workers' \/ (\E v \in workers : AgentFinished(v))
        \/ \E v \in workers, o \in {"completed", "failed"} : WorkerReturns(v, o)
    BY <1>1
    DEF Next, Step, Route, Reroute, RouteOne, Reconcile, Claim, StartAttempt,
        BuildAndSpawn, Deadline, ReloadActor, Ingest, LeaseEnds, ReloadWrites, vars, lane
  <2> QED
    BY <2>2, <2>3, <2>4, <2>5
<1> QED
  BY <1>4, <1>5

-----------------------------------------------------------------------------
(* A thread keeps its entry: the deadline rewrites entries without their   *)
(* event and token, and only the thread's own return removes its entry.    *)
SameEntry(a, b) == a.event = b.event /\ a.token = b.token

(* An entry that is told to stop keeps its claim.                          *)
LEMMA CancelledEntry ==
  ASSUME TypeOK, NEW a \in active, NEW c
  PROVE  SameEntry(a, [a EXCEPT !.cancelled = c])
BY DEF TypeOK, Entry, SameEntry

(* The entry of a thread stays while the thread does.                      *)
LEMMA EntriesStay ==
  ASSUME LaneInv, [Next]_vars, NEW v \in workers, NEW w \in workers', SameThread(v, w)
  PROVE  \E a \in active' : a.event = w.event /\ a.token = w.token
<1>0. /\ TypeOK /\ Placed
      /\ w.event = v.event /\ w.token = v.token
  BY DEF LaneInv, SameThread
<1>1. PICK a \in active : a.event = v.event /\ a.token = v.token
  BY <1>0 DEF Placed, EntryOf
<1>2. CASE a \in active'
  BY <1>0, <1>1, <1>2
<1>3. CASE Deadline
  <2> DEFINE c == a.cancelled \/ ~Current(a.event, a.token)
             b == [a EXCEPT !.cancelled = c]
  <2>1. b \in active'
    BY <1>1, <1>3 DEF Deadline
  <2>2. SameEntry(a, b)
    BY <1>0, <1>1, CancelledEntry
  <2> HIDE DEF b
  <2> QED
    BY <1>0, <1>1, <2>1, <2>2 DEF SameEntry
<1>4. ASSUME NEW u \in workers, AgentFinished(u)
      PROVE  a \in active'
  <2>1. w \in workers /\ w # u
    BY <1>4 DEF AgentFinished
  <2>2. ~(u.event = w.event /\ u.token = w.token)
    BY <1>0, <2>1 DEF Placed
  <2> QED
    BY <1>0, <1>1, <1>4, <2>2 DEF AgentFinished, EntryOf
<1>5. CASE Restart
  BY <1>5 DEF Restart
<1> QED
  BY <1>2, <1>3, <1>4, <1>5
  DEF Next, Step, Route, Reroute, RouteOne, Reconcile, Claim, StartAttempt,
      BuildAndSpawn, ReloadActor, Ingest, LeaseEnds, WorkerReturns, ReloadWrites, vars,
      lane

(* The places taken: one more only for the item in hand.                   *)
LEMMA PlacesStep ==
  ASSUME LaneInv, [Next]_vars
  PROVE  /\ IsFiniteSet(active') /\ Cardinality(active') <= Capacity
         /\ hand' # None => Cardinality(active') < Capacity
<1>0. /\ TypeOK /\ IsFiniteSet(active) /\ Cardinality(active) \in Nat /\ Capacity \in Nat
      /\ Cardinality(active) <= Capacity /\ (hand # None => Cardinality(active) < Capacity)
  BY FS_CardinalityType, LaneAssumption DEF LaneInv, Placed
<1>1. CASE active' = active
  BY <1>0, <1>1, HandMoves
<1>2. CASE BuildAndSpawn
  <2>1. hand # None /\ hand' = None
    BY <1>0, <1>2 DEF BuildAndSpawn, TypeOK
  <2>2. ASSUME NEW a, active' = active \cup {a}
        PROVE  IsFiniteSet(active') /\ Cardinality(active') <= Capacity
    <3>1. /\ IsFiniteSet(active \cup {a})
          /\ \/ Cardinality(active \cup {a}) = Cardinality(active)
             \/ Cardinality(active \cup {a}) = Cardinality(active) + 1
      BY <1>0, FS_AddElement
    <3> QED
      BY <1>0, <2>1, <2>2, <3>1
  <2> QED
    BY <1>1, <1>2, <2>1, <2>2 DEF BuildAndSpawn
<1>3. CASE Deadline
  <2> DEFINE f == [a \in active |->
                     [a EXCEPT !.cancelled = @ \/ ~Current(a.event, a.token)]]
  <2>1. f \in Surjection(active, active')
    BY <1>3, Zenon DEF Deadline, Surjection
  <2>2. IsFiniteSet(active') /\ Cardinality(active') <= Cardinality(active)
    <3> HIDE DEF f
    <3> QED
      BY <1>0, <2>1, FS_Surjection
  <2>3. hand' = None /\ Cardinality(active') \in Nat
    BY <1>0, <1>3, <2>2, FS_CardinalityType DEF Deadline, TypeOK
  <2> QED
    BY <1>0, <2>2, <2>3
<1>4. ASSUME NEW w \in workers, AgentFinished(w)
      PROVE  /\ IsFiniteSet(active') /\ Cardinality(active') <= Capacity
             /\ hand' # None => Cardinality(active') < Capacity
  <2>1. active' \subseteq active /\ hand' = None
    BY <1>0, <1>4 DEF AgentFinished, TypeOK
  <2>2. /\ IsFiniteSet(active') /\ Cardinality(active') <= Cardinality(active)
        /\ Cardinality(active') \in Nat
    BY <1>0, <2>1, FS_Subset, FS_CardinalityType
  <2> QED
    BY <1>0, <2>1, <2>2
<1>5. CASE Restart
  BY <1>0, <1>5, FS_EmptySet DEF Restart
<1> QED
  BY <1>1, <1>2, <1>3, <1>4, <1>5
  DEF Next, Step, Route, Reroute, RouteOne, Reconcile, Claim, StartAttempt,
      ReloadActor, Ingest, LeaseEnds, WorkerReturns, ReloadWrites, vars, lane

(* Every step keeps an entry for every thread.                             *)
LEMMA PlacedStep ==
  ASSUME LaneInv, [Next]_vars
  PROVE  Placed'
<1>0. /\ TypeOK /\ TypeOK' /\ Placed /\ LaneAssumption
      /\ \A e \in Events : ItemMoves(e)
      /\ \A e \in Events : items[e].claims \in Nat /\ items'[e].claims \in Nat
  BY TypeStep, ItemsMove, LaneAssumption DEF LaneInv, TypeOK, Item
<1>1. ASSUME NEW w \in workers'
      PROVE  \E a \in active' : a.event = w.event /\ a.token = w.token
  BY ThreadsMove, EntriesStay DEF Spawned
<1>2. ASSUME NEW v \in workers
      PROVE  /\ v.event \in Events /\ v.token \in Nat
             /\ v.token <= items[v.event].claims
             /\ hand = v.event => v.token < items[v.event].claims
  BY <1>0 DEF TypeOK, Thread, Placed
<1>3. ASSUME NEW v \in workers', NEW w \in workers', v.event = w.event, v.token = w.token
      PROVE  v = w
  <2>1. CASE v \in workers /\ w \in workers
    BY <1>0, <1>3, <2>1 DEF Placed
  <2>2. ASSUME NEW x, Spawned(x), workers' = workers \cup {x}
        PROVE  v = w
    <3>1. \A u \in workers : ~(u.event = x.event /\ u.token = x.token)
      BY <1>2, <2>2 DEF Spawned
    <3> QED
      BY <1>3, <2>1, <2>2, <3>1
  <2>3. ASSUME NEW u \in workers, NEW x, SameThread(u, x),
               workers' = (workers \ {u}) \cup {x}
        PROVE  v = w
    BY <1>0, <1>3, <2>3 DEF Placed, SameThread
  <2> QED
    BY <2>1, <2>2, <2>3, WorkersMove
<1>4. ASSUME NEW w \in workers'
      PROVE  /\ w.token <= items'[w.event].claims
             /\ w.event = hand' => w.token < items'[w.event].claims
  <2>1. CASE Spawned(w)
    <3>1. /\ hand \in Events /\ w.event = hand /\ w.token = items[hand].claims
          /\ items[hand].claims <= items'[hand].claims /\ w.event # hand'
      BY <1>0, <2>1 DEF Spawned, TypeOK, ItemMoves
    <3> QED
      BY <3>1
  <2>2. ASSUME NEW v \in workers, SameThread(v, w)
        PROVE  /\ w.token <= items'[w.event].claims
               /\ w.event = hand' => w.token < items'[w.event].claims
    <3>1. /\ w.event = v.event /\ w.token = v.token
          /\ v.event \in Events /\ v.token \in Nat
          /\ v.token <= items[v.event].claims
          /\ items[v.event].claims <= items'[v.event].claims
      BY <1>0, <1>2, <2>2 DEF SameThread, ItemMoves
    <3>2. ASSUME v.event = hand'
          PROVE  v.token < items'[v.event].claims
      <4>1. CASE hand' = hand
        BY <1>0, <1>2, <3>1, <3>2, <4>1
      <4>2. CASE items' = [items EXCEPT ![hand'].status = "claimed",
                                        ![hand'].claims = @ + 1]
        <5>1. items'[hand'].claims = items[hand'].claims + 1
          BY <1>0, <3>1, <3>2, <4>2 DEF TypeOK, Item
        <5> QED
          BY <1>0, <3>1, <3>2, <5>1
      <4>3. hand' # None
        BY <1>0, <3>1, <3>2 DEF LaneAssumption
      <4> QED
        BY <4>1, <4>2, <4>3, HandMoves
    <3> QED
      BY <1>0, <3>1, <3>2
  <2> QED
    BY <2>1, <2>2, ThreadsMove
<1>5. \A w \in workers' : {a \in active' : a.event = w.event /\ a.token = w.token} # {}
  BY <1>1
<1> QED
  BY <1>3, <1>4, <1>5, PlacesStep DEF Placed, EntryOf

-----------------------------------------------------------------------------
(* The lane starts empty, on the first revision.                           *)
LEMMA LaneInit ==
  ASSUME Init
  PROVE  LaneInv
<1> USE LaneAssumption
<1>1. Absent \in Item
  BY DEF Absent, Item, Statuses
<1>2. items \in [Events -> Item] /\ \A e \in Events : items[e].status = "absent"
  BY <1>1 DEF Init, Absent
<1>3. TypeOK
  BY <1>2 DEF Init, TypeOK
<1>4. {f \in Events : order[f] > 0} = {}
  BY DEF Init
<1>5. Adopted /\ Bound /\ Held
  BY <1>2 DEF Init, Adopted, Bound, Held, Live
<1>6. IsFiniteSet({}) /\ Cardinality({}) = 0
  BY FS_EmptySet
<1>7. Placed
  BY <1>6 DEF Init, Placed
<1> QED
  BY <1>3, <1>4, <1>5, <1>6, <1>7 DEF LaneInv

(* Every step preserves the invariant.                                     *)
LEMMA LaneStep == LaneInv /\ [Next]_vars => LaneInv'
<1> SUFFICES ASSUME LaneInv, [Next]_vars
             PROVE  LaneInv'
  OBVIOUS
<1>1. IsFiniteSet({f \in Events : order[f] > 0})'
  BY OrderStep
<1> QED
  BY <1>1, TypeStep, AdoptedStep, BoundStep, HeldStep, PlacedStep DEF LaneInv

(* The invariant holds in every state.                                     *)
LEMMA LaneInvHolds == Spec => []LaneInv
BY LaneInit, LaneStep, PTL DEF Spec

(* Each thread has an entry that no other thread has, so that there are no *)
(* more threads than entries.                                              *)
LEMMA ThreadsHavePlaces ==
  ASSUME LaneInv
  PROVE  LaneIsBounded
<1> DEFINE f == [w \in workers |-> CHOOSE a \in active : a \in EntryOf(w)]
<1>0. Placed
  BY DEF LaneInv
<1>1. \A w \in workers : /\ f[w] \in active
                         /\ f[w].event = w.event /\ f[w].token = w.token
  BY <1>0 DEF Placed, EntryOf
<1>2. f \in [workers -> active]
  BY <1>1
<1> HIDE DEF f
<1>3. \A v, w \in workers : f[v] = f[w] => v = w
  BY <1>0, <1>1 DEF Placed
<1>4. f \in Injection(workers, active)
  BY <1>2, <1>3, Zenon DEF Injection, IsInjective
<1>5. IsFiniteSet(workers) /\ Cardinality(workers) <= Cardinality(active)
  BY <1>0, <1>4, FS_Injection DEF Placed
<1>6. /\ Cardinality(workers) \in Nat /\ Cardinality(active) \in Nat /\ Capacity \in Nat
      /\ Cardinality(active) <= Capacity
  BY <1>0, <1>5, FS_CardinalityType, LaneAssumption DEF Placed
<1>7. Cardinality(workers) <= Capacity
  BY <1>5, <1>6
<1> QED
  BY <1>0, <1>7 DEF LaneIsBounded, Placed

(* Through reloads that are refused or fail halfway and through restarts,  *)
(* the revisions in use and the one that live work was routed under are in *)
(* the archive, an agent runs under the revision of its item, and the      *)
(* copies of the active revision in the project file, the application, the *)
(* actor and its egress targets agree when no reload is under way and none *)
(* has failed.                                                             *)
THEOREM RevisionsStayKept == Spec => []RevisionsAreKept
<1>1. LaneInv => RevisionsAreKept
  BY DEF LaneInv, Bound, Adopted, RevisionsAreKept, QueuedRevisionIsArchived,
         RevisionsAgree
<1> QED
  BY <1>1, LaneInvHolds, PTL

(* Between handlers of the first process every claim whose lease runs is   *)
(* held by a thread, and at all times every thread has an entry of its own *)
(* in active_agents and there are at most AGENT_CAPACITY of them, although *)
(* claims are lost and their items are claimed again.                      *)
THEOREM ClaimsStayServed == Spec => []ClaimsAreServed
<1>1. LaneInv => NoClaimLeaks
  <2> SUFFICES ASSUME LaneInv, pc = "idle", crashes = 0
               PROVE  \A e \in Events :
                        (items[e].status = "claimed" /\ e \notin expired)
                        => \E w \in workers : w.event = e /\ w.token = items[e].claims
    BY DEF NoClaimLeaks
  <2>1. hand = None /\ None \notin Events
    BY LaneAssumption DEF LaneInv, TypeOK
  <2> QED
    BY <2>1 DEF LaneInv, Held
<1>2. LaneInv => ClaimsAreServed
  BY <1>1, ThreadsHavePlaces DEF ClaimsAreServed
<1> QED
  BY <1>2, LaneInvHolds, PTL

=============================================================================
