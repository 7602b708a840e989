----------------------------- MODULE MCMhdStream -----------------------------
(* The instance of MhdStream is given by numbers alone. *)
EXTENDS MhdStream
=============================================================================
