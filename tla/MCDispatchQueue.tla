-------------------------- MODULE MCDispatchQueue --------------------------
(***************************************************************************)
(* Small instances of DispatchQueue for TLC.  Agent a1 keeps one session   *)
(* for all its events ("shared"), a2 one per event ("per-event"), and both *)
(* take the same lock.                                                     *)
(***************************************************************************)
EXTENDS DispatchQueue, TLC

CONSTANTS a1, a2, w1, w2, t1, t2, t3, t4

MCSessionOf ==
  [a \in Agents |-> [e \in Events |-> IF a = a1 THEN <<a, 0>> ELSE <<a, e>>]]
MCSessions == {MCSessionOf[a][e] : a \in Agents, e \in Events}
MCLocksOf == [a \in Agents |-> LockKeys]
MCRetryDelay == [n \in 1..MaxStarts |-> 1]
NoInput == {}

(* Coordination: fan-out, unhandled events and session messages.           *)
CoordinationPlans == {{}, {a1}, {a1, a2}}
(* Lifecycle: the whole history of single items.                           *)
LifecyclePlans == {{a1}}
LifecycleCancels == QueueItemIds
LifecycleFailures == {"network_error", "agent_spec_invalid"}
(* Settling: two turns of a session, or of two sessions that share a lock, *)
(* the first of which may be cancelled.                                    *)
SettlingPlans == {{a1}, {a2}}
SettlingCancels == {PendingQueueItemId(1)}
SettlingFailures == {"network_error"}

Symmetry == Permutations(Workers) \union Permutations(Tokens)

=============================================================================
