---------------------------- MODULE MCRtExecutor ----------------------------
(* Instances of RtExecutor for TLC. *)
EXTENDS RtExecutor

\* The mode for contact and another one in torque, a third in position.
Modes == {"float", "torque", "position"}
Needs == [m \in Modes |-> IF m = "position" THEN "POSITION" ELSE "TORQUE"]
=============================================================================
