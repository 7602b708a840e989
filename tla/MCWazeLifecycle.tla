-------------------------- MODULE MCWazeLifecycle --------------------------
(* Small instances of WazeLifecycle. *)
EXTENDS WazeLifecycle

CONSTANTS u1, u2
OneUnit == [u \in UIDs |-> 1]
=============================================================================
