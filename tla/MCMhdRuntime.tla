---------------------------- MODULE MCMhdRuntime ----------------------------
(* Small instances of MhdRuntime. *)
EXTENDS MhdRuntime

CONSTANTS u1, u2

\* A trip of two time units.
OneTrip  == [u \in UIDs |-> {[start |-> 2, end |-> 3]}]

=============================================================================
