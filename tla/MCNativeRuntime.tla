-------------------------- MODULE MCNativeRuntime --------------------------
(***************************************************************************)
(* Small instances of NativeRuntime for TLC.                               *)
(***************************************************************************)
EXTENDS NativeRuntime, TLC

MCInterval == [t \in Timers |-> IF t = "schedule" THEN 3 ELSE 1]

=============================================================================
