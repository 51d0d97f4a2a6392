------------------------------ MODULE MCArmLink ------------------------------
(* Instances of ArmLink for TLC. *)
EXTENDS ArmLink
=============================================================================
