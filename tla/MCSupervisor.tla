----------------------------- MODULE MCSupervisor -----------------------------
(***************************************************************************)
(* Instances of Supervisor for TLC.                                         *)
(***************************************************************************)
EXTENDS Supervisor, TLC

CONSTANTS g1, g2

Kind(mode, compliant) == [mode |-> mode, compliant |-> compliant]

\* One goal per trajectory mode.
MixedGoals == [g \in {g1, g2} |-> IF g = g1 THEN "pos" ELSE "imp"]
OneGoal == [g \in {g1} |-> "imp"]
PosGoals == [g \in {g1, g2} |-> "pos"]

PosStream == {Kind("pos", FALSE)}
CompliantStreams == {Kind("imp", TRUE), Kind("pos", FALSE)}
ImpStream == {Kind("imp", TRUE)}
VelStream == {Kind("vel", FALSE)}

\* What may happen together in one behaviour: a run explores each scenario.
Mixed == {{"goal", "link", "contact"}, {"goal", "contact", "retrip"},
          {"goal", "stream", "link", "gripper"}, {"stream", "contact", "retrip"},
          {"stream", "ik"}}
=============================================================================
