--------------------------- MODULE MCNdicRuntime ---------------------------
(* A small instance of NdicRuntime. *)
EXTENDS NdicRuntime

CONSTANTS u1
=============================================================================
