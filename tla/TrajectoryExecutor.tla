------------------------- MODULE TrajectoryExecutor -------------------------
(***************************************************************************)
(* TrajectoryExecutor: one goal at a time, a trajectory clock that runs at  *)
(* the slower of the goal's own speed scale and the global one, the sampled *)
(* curve with its velocity, and the guard on divergence.                    *)
(* Times are integers; a trajectory's clock counts 1 / Full of them.        *)
(***************************************************************************)
EXTENDS JointReference, Sequences

CONSTANTS
  NaN,          \* a speed scale that is no number
  NoGoal

\* Every comparison with a bound fails for it.
ASSUME NaNAssumption == NaN \notin MinScale .. Full

VARIABLES
  joint,        \* continuous_ of this joint, from the URDF
  goal,         \* active_, mode_, path_tol_ and scale_; NoGoal when idle
  applied,      \* applied_
  target,       \* the last JointTarget the sink was given
  last          \* how the last goal ended

execVars == <<joint, goal, applied, target, last>>

Active == goal # NoGoal

Smaller(a, b) == IF a < b THEN a ELSE b

EffectiveScale(own, override) ==
  LET Finite(s) == IF s = NaN THEN Full ELSE s
  IN  Clamp(Smaller(Finite(own), Finite(override)), MinScale, Full)

SlewScale(cur, wanted, dt) == cur + Clamp(wanted - cur, -dt, dt)

Duration(plan) == plan.points[Len(plan.points)].t * Full

ValidTimestamps(plan) ==
  \A i \in 2 .. Len(plan.points) : plan.points[i].t > plan.points[i - 1].t

Held(plan, q) == [q |-> q, qd |-> 0, profiled |-> plan.order # "linear"]

\* The cubic through both ends' positions and velocities, at u = i / N.
Cubic(a, b, span, i, N) ==
  LET v0 == a.qd * span
      v1 == b.qd * span
      i2 == i * i
      i3 == i2 * i
      N2 == N * N
      N3 == N2 * N
  IN  [q |-> ((2 * i3 - 3 * i2 * N + N3) * a.q + (i3 - 2 * i2 * N + i * N2) * v0
              + (3 * i2 * N - 2 * i3) * b.q + (i3 - i2 * N) * v1) \div N3,
       qd |-> ((6 * i2 - 6 * i * N) * a.q + (3 * i2 - 4 * i * N + N2) * v0
               + (6 * i * N - 6 * i2) * b.q + (3 * i2 - 2 * i * N) * v1) \div (N2 * span),
       profiled |-> TRUE]

\* The quintic that also meets both accelerations (coefficients are doubled).
Quintic(a, b, span, i, N) ==
  LET v0 == a.qd * span
      v1 == b.qd * span
      a0 == a.qdd * span * span
      a1 == b.qdd * span * span
      d == b.q - a.q
      c3 == 20 * d - 12 * v0 - 8 * v1 - 3 * a0 + a1
      c4 == -30 * d + 16 * v0 + 14 * v1 + 3 * a0 - 2 * a1
      c5 == 12 * d - 6 * v0 - 6 * v1 - a0 + a1
      N4 == N * N * N * N
  IN  [q |-> ((((((c5 * i + c4 * N) * i + c3 * N * N) * i + a0 * N * N * N) * i
               + 2 * v0 * N4) * i) + 2 * a.q * N4 * N) \div (2 * N4 * N),
       qd |-> ((((5 * c5 * i + 4 * c4 * N) * i + 3 * c3 * N * N) * i + 2 * a0 * N * N * N) * i
               + 2 * v0 * N4) \div (2 * N4 * span),
       profiled |-> TRUE]

\* Outside the span the reference is pinned: not moving, which is an opinion.
SampleTarget(plan, time) ==
  LET p == plan.points
      hi == CHOOSE i \in DOMAIN p : p[i].t * Full > time
                       /\ \A j \in 1 .. i - 1 : p[j].t * Full <= time
      a == p[hi - 1]
      b == p[hi]
      span == b.t - a.t
      i == time - a.t * Full
      N == span * Full
  IN  IF time <= p[1].t * Full THEN Held(plan, p[1].q)
      ELSE IF time >= Duration(plan) THEN Held(plan, p[Len(p)].q)
      ELSE IF plan.order = "linear" THEN Held(plan, a.q + ((b.q - a.q) * i) \div N)
      ELSE IF plan.order = "cubic" THEN Cubic(a, b, span, i, N)
      ELSE Quintic(a, b, span, i, N)

MutRefused(plan, mode, latest, scale) ==
  \/ plan.points = << >>
  \/ ~ValidTimestamps(plan)
  \/ Active /\ (goal.mode # mode \/ ~latest)

\* submit refuses, and the active goal is left exactly as it was.
Refused(plan, mode, latest, scale) ==
  \/ plan.points = << >>
  \/ ~ValidTimestamps(plan)
  \/ scale \notin MinScale .. Full
  \/ Active /\ (goal.mode # mode \/ ~latest)

\* submit adopts: idle or preempting, the clock starts over.
Submit(plan, mode, latest, tol, scale) ==
  /\ ~Refused(plan, mode, latest, scale)
  /\ goal' = [plan |-> plan, mode |-> mode, tol |-> tol, scale |-> scale,
              time |-> 0, started |-> FALSE]
  /\ UNCHANGED <<joint, applied, target, last>>

MutDiverged(measured, wanted, tol) ==
  LET err == measured - wanted
  IN  tol > 0 /\ (err > tol \/ -err > tol)

\* The measurement of a continuous joint is wrapped, the plan is not.
Diverged(measured, wanted, tol) ==
  LET err == Fold(joint, measured - wanted)
  IN  tol > 0 /\ (err > tol \/ -err > tol)

MutScaled(sampled, scale) == sampled

\* The curve's velocity in wall time.
Scaled(sampled, scale) == [sampled EXCEPT !.qd = (@ * scale) \div Full]

\* tick: dt is the time since the last tick, override has been slewed already.
Tick(measured, dt, override) ==
  LET scale == EffectiveScale(goal.scale, override)
      time == goal.time + (IF goal.started THEN dt * scale ELSE 0)
      sampled == SampleTarget(goal.plan, time)
  IN  /\ applied' = scale
      /\ target' = Scaled(sampled, scale)
      /\ IF Diverged(measured, sampled.q, goal.tol)
         THEN goal' = NoGoal /\ last' = "aborted"
         ELSE IF time >= Duration(goal.plan)
         THEN goal' = NoGoal /\ last' = "done"
         ELSE goal' = [goal EXCEPT !.time = time, !.started = TRUE] /\ UNCHANGED last
      /\ UNCHANGED joint

\* A fresh, idle executor: the Supervisor's halt and cancel rebuild it.
Reset(how) ==
  /\ goal' = NoGoal
  /\ applied' = Full
  /\ last' = how
  /\ UNCHANGED joint
=============================================================================
