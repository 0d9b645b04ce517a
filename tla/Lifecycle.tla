----------------------------- MODULE Lifecycle -----------------------------
(***************************************************************************)
(* The state machines of crates/zeta-dispatch/src/state.rs: the states of  *)
(* a queue item and of an attempt, the transitions the projections accept, *)
(* and the classification of failures that decides between retry and dead  *)
(* letter.  The tables are written as relations, so that the modules that  *)
(* project lifecycle facts can test membership.                            *)
(***************************************************************************)

QueueItemStatus ==
  {"pending", "available", "claimed", "completed", "failed", "cancelled",
   "retry_scheduled", "dead_lettered", "unhandled"}

AttemptStatus == {"running", "completed", "failed", "cancelled"}

(* `None' as the previous state of an item or an attempt with no row yet.  *)
Absent == "absent"

QueueTransitions ==
     ({Absent}            \X {"pending", "available", "unhandled"})
  \union ({"pending"}         \X {"available", "claimed", "unhandled"})
  \union ({"available"}       \X {"claimed", "cancelled"})
  \union ({"claimed"}         \X {"available", "completed", "failed",
                                  "cancelled", "dead_lettered"})
  \union ({"retry_scheduled"} \X {"available", "cancelled"})
  \union ({"failed"}          \X {"retry_scheduled", "dead_lettered"})

AttemptTransitions ==
     ({Absent}    \X {"running"})
  \union ({"running"} \X {"completed", "failed", "cancelled"})

(* The states the claim query and the session ordering treat as finished.  *)
Terminal == {"completed", "cancelled", "dead_lettered", "unhandled"}

FailureCode ==
  {"agent_spec_invalid", "malformed_event_payload", "provider_timeout",
   "network_error", "tool_failed", "agent_execution_failed",
   "effect_delivery_failed", "unsafe_effect_ambiguous"}

PermanentFailure ==
  {"agent_spec_invalid", "malformed_event_payload", "unsafe_effect_ambiguous"}

Retryable(code) == code \notin PermanentFailure

=============================================================================
