------------------------------ MODULE MCArbiter ------------------------------
(* An instance of Arbiter for TLC: two threads that grant. *)
EXTENDS Arbiter
=============================================================================
