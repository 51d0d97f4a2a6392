--------------------------- MODULE JointReference ---------------------------
(***************************************************************************)
(* What the control modes do to one joint in one cycle.  Angles are         *)
(* integers, 2 * Half of them to a turn; a continuous joint is measured in  *)
(* (-Half, Half], a bounded one between Lower and Upper.  The joints of the *)
(* arm are independent, each mode is a loop over them.                      *)
(***************************************************************************)
EXTENDS Integers

CONSTANTS
  Half,        \* pi
  Lower, Upper, \* limits of a bounded joint
  MaxLead,     \* max_following_error of position mode
  VelLead,     \* kVelocityRefMaxLead
  MaxSpring,   \* max_tracking_error of impedance mode
  Band,        \* drag_band_rad of float mode
  MaxStep,     \* max_ref_speed * dt
  VMax,        \* the rated velocity * dt
  Full,        \* a speed scale is n / Full
  MinScale     \* kMinSpeedScale

ASSUME ReferenceAssumption ==
  /\ {Half, MaxLead, VelLead, MaxSpring, Band, MaxStep, VMax, Full, MinScale} \subseteq Nat \ {0}
  /\ Lower \in Int /\ Upper \in Int /\ Lower < Upper /\ MinScale <= Full

Clamp(x, lo, hi) == IF x < lo THEN lo ELSE IF x > hi THEN hi ELSE x

\* wrap_to_pi: into (-Half, Half].
Wrap(a) == ((a + Half - 1) % (2 * Half)) - Half + 1

Fold(joint, a) == IF joint = "continuous" THEN Wrap(a) ELSE a

MutLeash(joint, ref, q, lead) == q + Clamp(ref - q, -lead, lead)

\* The reference is never further than lead from where the arm is.
Leash(joint, ref, q, lead) == q + Clamp(Fold(joint, ref - q), -lead, lead)

\* The representation the transport reports, or the limits.
InRange(joint, ref) == IF joint = "continuous" THEN Wrap(ref) ELSE Clamp(ref, Lower, Upper)

StepAt(speed) == (speed * MaxStep) \div Full

MutPositionReference(joint, ref, target, q, speed) ==
  LET wanted == IF joint = "continuous" THEN target ELSE Clamp(target, Lower, Upper)
      walked == ref + Clamp(wanted - ref, -StepAt(speed), StepAt(speed))
  IN  InRange(joint, Leash(joint, walked, q, MaxLead))

\* JointPositionMode::compute: clamp the target, walk to it the short way,
\* leash, back into range.
PositionReference(joint, ref, target, q, speed) ==
  LET wanted == IF joint = "continuous" THEN target ELSE Clamp(target, Lower, Upper)
      walked == ref + Clamp(Fold(joint, wanted - ref), -StepAt(speed), StepAt(speed))
  IN  InRange(joint, Leash(joint, walked, q, MaxLead))

\* limit_joint_velocity, then the global speed scale.
LimitedRate(v, speed) == (Clamp(v, -VMax, VMax) * speed) \div Full

MutVelocityReference(joint, ref, step, q) == Leash(joint, ref + step, q, VelLead)

\* integrate_leashed_reference, of velocity mode and of the compliant stream.
VelocityReference(joint, ref, step, q) == InRange(joint, Leash(joint, ref + step, q, VelLead))

\* JointImpedanceMode::compute: the reference has no leash and no limits.
ImpedanceReference(joint, ref, target, speed) ==
  Fold(joint, ref + Clamp(Fold(joint, target - ref), -StepAt(speed), StepAt(speed)))

\* What its spring pulls with; the leash is on the torque only.
SpringError(joint, ref, q) == Clamp(Fold(joint, ref - q), -MaxSpring, MaxSpring)

\* FloatMode::compute: the anchor is dragged along at the end of its band.
FloatAnchor(joint, anchor, q) ==
  LET err == Fold(joint, q - anchor)
  IN  Fold(joint, IF err > Band THEN q - Band ELSE IF err < -Band THEN q + Band ELSE anchor)
=============================================================================
