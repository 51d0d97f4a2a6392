--------------------------- MODULE KortexTransport ---------------------------
(***************************************************************************)
(* kinova::KortexTransport as its callers see it, and the arm behind it.    *)
(*                                                                          *)
(* The arm keeps what it was told when a connection dies: a base still in   *)
(* low-level servoing and an actuator still in TORQUE mode stay so until    *)
(* somebody tells them otherwise or the arm reboots.  The driver remembers  *)
(* only that it entered low-level servoing on this connection (low_level_). *)
(* An RPC to a reachable arm is answered or refused; to an unreachable one  *)
(* it times out.  Every operation is one action: the arm may become         *)
(* unreachable between any two of them, and one that makes several RPCs may *)
(* also stop half-way.                                                      *)
(***************************************************************************)
EXTENDS Naturals

CONSTANT MaxDrop      \* bound on how often the arm becomes unreachable

ASSUME DropAssumption == MaxDrop \in Nat

VARIABLES
  reachable,    \* the arm: it answers
  drops,        \* how often it stopped answering
  right_arm,    \* the arm: it has the actuators this build is made for
  arm_fault,    \* the arm: its state is ARMSTATE_IN_FAULT
  servoing,     \* the arm: the base's servoing mode, "low" or "single"
  torque,       \* the arm: some actuator is in TORQUE mode
  low_level,    \* low_level_: set_servoing_low_level() was accepted on this connection
  balked        \* history: the last hand-back met a refusal or no answer

arm == <<reachable, drops, right_arm, arm_fault, servoing, torque>>
transport == <<arm, low_level, balked>>

TransportInit ==
  /\ reachable \in BOOLEAN
  /\ drops = 0
  /\ right_arm \in BOOLEAN
  /\ arm_fault \in BOOLEAN
  /\ servoing = "single"
  /\ torque = FALSE
  /\ low_level = FALSE
  /\ balked = FALSE

-----------------------------------------------------------------------------
(* Operations, one per outcome *)

\* What an RPC can meet: no answer is a TransportTimeout, a refusal ArmRejected.
Outcome == IF reachable THEN {"ok", "refused"} ELSE {"timeout"}

\* connect(): up; not up (no route, no answer, still booting: retried); or the
\* wrong number of actuators, the one error that is not the arm's doing.
ConnectOutcome ==
  IF ~reachable THEN {"not_up"}
  ELSE {"not_up", IF right_arm THEN "up" ELSE "wrong_arm"}

\* SetServoingMode accepted.  low_level_ is set before the seed exchange, which
\* may still be lost, so that a hand-back knows the base is in low-level.
EnterLowLevel ==
  /\ reachable
  /\ servoing' = "low"
  /\ low_level' = TRUE
  /\ UNCHANGED <<reachable, drops, right_arm, arm_fault, torque, balked>>

\* set_actuator_modes(position) went through on every actuator.
AllToPosition ==
  /\ reachable
  /\ torque' = FALSE
  /\ UNCHANGED <<reachable, drops, right_arm, arm_fault, servoing, low_level, balked>>

\* A mode switch under RtExecutor, complete or left half-way.
SwitchModes ==
  /\ reachable
  /\ torque' \in BOOLEAN
  /\ UNCHANGED <<reachable, drops, right_arm, arm_fault, servoing, low_level, balked>>

\* release_low_level(): nothing unless low_level_; then every actuator to
\* POSITION and the base to single-level.  A refused request is skipped; after
\* one that is not answered the rest is not tried.  Never throws.
ReleaseLowLevel ==
  /\ low_level' = FALSE
  /\ \E actuators, base \in IF reachable /\ low_level THEN BOOLEAN ELSE {FALSE} :
       /\ torque' = (torque /\ ~actuators)
       /\ servoing' = IF base THEN "single" ELSE servoing
       /\ balked' = (low_level /\ ~(actuators /\ base))
  /\ UNCHANGED <<reachable, drops, right_arm, arm_fault>>

\* safe_shutdown(): the hand-back, then the sessions and sockets are dropped.
SafeShutdown == ReleaseLowLevel

\* clear_faults(): the arm may leave its fault at once, later, or not at all;
\* errors are swallowed.  Low-level servoing is re-entered only if low_level_.
ClearFaults ==
  /\ arm_fault' \in IF reachable THEN {arm_fault, FALSE} ELSE {arm_fault}
  /\ servoing' \in IF reachable /\ low_level THEN {"low", servoing} ELSE {servoing}
  /\ UNCHANGED <<reachable, drops, right_arm, torque, low_level, balked>>

-----------------------------------------------------------------------------
(* What the arm does on its own *)

Unreachable ==
  /\ reachable /\ drops < MaxDrop
  /\ reachable' = FALSE
  /\ drops' = drops + 1
  /\ UNCHANGED <<right_arm, arm_fault, servoing, torque, low_level, balked>>

ReachableAgain ==
  /\ ~reachable
  /\ reachable' = TRUE
  /\ UNCHANGED <<drops, right_arm, arm_fault, servoing, torque, low_level, balked>>

\* Power cycled while out of reach: back under its base, faulted or not.
Reboots ==
  /\ ~reachable
  /\ arm_fault' \in BOOLEAN
  /\ servoing' = "single"
  /\ torque' = FALSE
  /\ UNCHANGED <<reachable, drops, right_arm, low_level, balked>>

\* A fault, after which the base may also have left low-level servoing.
Faults ==
  /\ ~arm_fault
  /\ arm_fault' = TRUE
  /\ servoing' \in {servoing, "single"}
  /\ UNCHANGED <<reachable, drops, right_arm, torque, low_level, balked>>

\* The fault goes away: a delayed clear, the operator's pendant.
FaultGone ==
  /\ arm_fault
  /\ arm_fault' = FALSE
  /\ UNCHANGED <<reachable, drops, right_arm, servoing, torque, low_level, balked>>

\* Another client takes the base out of low-level servoing.
ForcedOut ==
  /\ servoing = "low"
  /\ servoing' = "single"
  /\ UNCHANGED <<reachable, drops, right_arm, arm_fault, torque, low_level, balked>>

ArmStep == Unreachable \/ ReachableAgain \/ Reboots \/ Faults \/ FaultGone \/ ForcedOut

TransportTypes ==
  /\ reachable \in BOOLEAN /\ right_arm \in BOOLEAN /\ arm_fault \in BOOLEAN
  /\ torque \in BOOLEAN /\ low_level \in BOOLEAN /\ balked \in BOOLEAN
  /\ servoing \in {"low", "single"}
  /\ drops \in 0..MaxDrop
=============================================================================
