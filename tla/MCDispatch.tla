----------------------------- MODULE MCDispatch -----------------------------
(***************************************************************************)
(* The dispatch queue on two small instances, for TLC; a behaviour is one  *)
(* of the instance that `part' names.  Agent a1 keeps one session for all  *)
(* its events ("shared"), a2 one per event ("per-event"), and both take    *)
(* the same lock.                                                          *)
(*                                                                         *)
(* The constants of the module itself are those of the "lifecycle"         *)
(* instance, the whole history of single items with failures and           *)
(* cancellations.  The "coordination" instance replaces the inputs and the *)
(* bounds, which the invariants do not mention, except that AttemptBudget  *)
(* is checked with the larger of the two values of MaxAttempts.            *)
(***************************************************************************)
EXTENDS DispatchQueue, TLC

CONSTANTS a1, a2, w1, w2, t1, t2, t3, t4

VARIABLE part

MCSessionOf == [agent \in Agents |-> [e \in 1..2 |-> IF agent = a1 THEN <<agent, 0>>
                                                     ELSE <<agent, e>>]]
MCSessions == {MCSessionOf[agent][e] : agent \in Agents, e \in 1..2}
MCLocksOf == [agent \in Agents |-> LockKeys]
MCRetryDelay == [n \in 1..4 |-> 1]
MCRoutePlans == {{a1}}
MCNone == {}

(* Fan-out, unhandled events and session messages.                         *)
Coordination == INSTANCE DispatchQueue WITH
  RoutePlans <- {{}, {a1}, {a1, a2}}, MessageTargets <- {<<a1, <<a1, 0>>>>},
  CancelTargets <- {}, Failures <- {},
  Lease <- 2, MaxAttempts <- 1, MaxStarts <- 2, MaxLosses <- 1

(* Workers and tokens are interchangeable.                                 *)
Symmetry == Permutations(Workers) \union Permutations(Tokens)
-----------------------------------------------------------------------------
MCInit ==
  /\ part \in {"lifecycle", "coordination"}
  /\ Init

LifecycleNext == part = "lifecycle" /\ Next
CoordinationNext == part = "coordination" /\ Coordination!Next
MCNext == UNCHANGED part /\ (LifecycleNext \/ CoordinationNext)

MCSpec == MCInit /\ [][MCNext]_<<part, vars>>
=============================================================================
