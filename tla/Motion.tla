------------------------------- MODULE Motion -------------------------------
(***************************************************************************)
(* One joint from the goal to the arm: the Supervisor's sampler thread      *)
(* slews the speed scale, runs the trajectory or integrates a compliant     *)
(* velocity stream, and writes the mode's target; the RT loop's cycle turns *)
(* the target into the reference; the arm follows it.                       *)
(***************************************************************************)
EXTENDS TrajectoryExecutor

CONSTANTS
  Shapes,       \* plans, relative to where the joint is
  Branches,     \* turns a plan of a continuous joint may be off by
  Tolerances,   \* path tolerances, 0 is none
  GoalScales,   \* speed scales a goal may ask for
  Overrides,    \* global speed scales an operator may ask for
  Rates,        \* streamed velocities
  Starts,       \* where the joint may be at first
  MaxLag,       \* bound: cycles between two iterations of the sampler
  MaxWork,      \* bound: goals, sessions, switches, halts and overrides
  MaxDisturb,   \* bound: cycles the arm is blocked or pushed
  NoStream

Trajectory == {"position", "impedance"}
Modes == Trajectory \union {"velocity", "float"}

Turn == -Half + 1 .. Half
Waypoints == [t : Int, q : Int, qd : Int, qdd : Int]
Plans == [order : {"linear", "cubic", "quintic"}, points : Seq(Waypoints)]
Goals == [plan : Plans, mode : Modes, tol : Int, scale : Int, time : Int, started : BOOLEAN]

\* The measurement starts in the transport's representation; the rest is
\* whatever clients and planners send.
ASSUME MotionAssumption ==
  /\ Starts \subseteq Turn /\ Shapes \subseteq Plans
  /\ \A S \in {Branches, Tolerances, GoalScales, Overrides, Rates} : S \subseteq Int
  /\ MaxLag \in Nat

ASSUME NoGoalAssumption == NoGoal \notin Goals

\* A plan of one constant velocity.
Uniform(plan) ==
  LET p == plan.points
  IN  /\ \A i \in DOMAIN p : p[i].qd = p[1].qd /\ p[i].qdd = 0
      /\ \A i \in 2 .. Len(p) : p[i].q - p[i - 1].q = p[1].qd * (p[i].t - p[i - 1].t)

\* The unit of velocity: a speed scale divides that of such a plan, so that
\* what the code computes in doubles is a whole number here too.
ASSUME GridAssumption ==
  \A plan \in Shapes :
    plan.order # "linear" /\ plan.points # << >> /\ Uniform(plan) => plan.points[1].qd % Full = 0

\* A lead and a cycle's step are short of half a turn: max_following_error is
\* 0.35 rad, the velocity lead 0.1 rad, the band 2 degrees, a step a few mrad.
ASSUME LeadAssumption ==
  MaxLead + MaxStep < Half /\ VelLead + VMax < Half /\ Band < Half

VARIABLES
  running,      \* the mode the RT loop runs
  ref,          \* its q_ref_, q_d_ or anchor_
  q,            \* the measured position
  speed,        \* speed of the sampler, pushed to the modes
  request,      \* speed_override_
  lag,          \* cycles since the sampler's last iteration
  stream,       \* the velocity session: its rate and stream_q_ref_
  work, disturbed, \* counters
  wall          \* cycles since the goal was adopted

motionVars == <<running, ref, q, speed, request, lag, stream, work, disturbed, wall>>
vars == <<execVars, motionVars>>

Streaming == stream # NoStream

\* set_target: a position, no derivatives.
Hold(x) == [q |-> x, qd |-> 0, profiled |-> FALSE]

Init ==
  /\ joint \in {"continuous", "bounded"}
  /\ q \in Starts
  /\ joint = "bounded" => q \in Lower .. Upper
  /\ ref = q /\ target = Hold(q)
  /\ running \in Modes \ {"velocity"}
  /\ goal = NoGoal /\ applied = Full /\ last = "none"
  /\ speed = Full /\ request = Full /\ lag = 0
  /\ stream = NoStream /\ work = 0 /\ disturbed = 0 /\ wall = 0

-----------------------------------------------------------------------------
(* The RT loop and the arm.                                                *)

NextRef ==
  CASE running = "position" -> PositionReference(joint, ref, target.q, q, speed)
    [] running = "impedance" -> ImpedanceReference(joint, ref, target.q, speed)
    [] running = "velocity" ->
         VelocityReference(joint, ref, IF Streaming THEN LimitedRate(stream.rate, speed) ELSE 0, q)
    [] running = "float" -> FloatAnchor(joint, ref, q)

\* The base's position servo and the spring both take the short way.
Pull(command) ==
  CASE running = "impedance" -> SpringError(joint, command, q)
    [] running = "float" -> 0
    [] OTHER -> Clamp(Fold(joint, command - q), -MaxStep, MaxStep)

\* One cycle: compute() on this feedback, then the arm follows or is blocked.
Cycle ==
  /\ lag < MaxLag
  /\ lag' = lag + 1
  /\ wall' = IF Active THEN wall + 1 ELSE 0
  /\ ref' = NextRef
  /\ \/ q' = InRange(joint, q + Pull(ref')) /\ UNCHANGED disturbed
     \/ disturbed < MaxDisturb /\ disturbed' = disturbed + 1 /\ UNCHANGED q
  /\ UNCHANGED <<execVars, running, speed, request, stream, work>>

Push ==
  /\ disturbed < MaxDisturb
  /\ disturbed' = disturbed + 1
  /\ \E by \in {-1, 1} : q' = InRange(joint, q + by)
  /\ UNCHANGED <<execVars, running, ref, speed, request, lag, stream, work, wall>>

\* on_enter: hold where the arm is, drop every older target.
Enters(mode) ==
  IF mode = running THEN UNCHANGED <<running, ref, target>>
  ELSE running' = mode /\ ref' = q /\ target' = Hold(q)

-----------------------------------------------------------------------------
(* The sampler thread.                                                     *)

\* The compliant stream: integrate, leash, feed forward what was achieved.
Integrate(scale) ==
  LET next == VelocityReference(joint, stream.ref, LimitedRate(stream.rate, scale) * lag, q)
      moved == Fold(joint, next - stream.ref)
  IN  /\ stream' = [stream EXCEPT !.ref = next]
      /\ target' = [q |-> next, qd |-> IF lag > 0 THEN moved \div lag ELSE 0, profiled |-> TRUE]
      /\ UNCHANGED <<joint, goal, applied, last>>

\* One iteration: slew the scale once, for the executor and the modes alike.
Sample ==
  /\ lag' = 0
  /\ speed' = SlewScale(speed, request, lag)
  /\ IF Active THEN Tick(q, lag, speed') /\ UNCHANGED stream
     ELSE IF Streaming /\ running = "impedance" THEN Integrate(speed')
     ELSE UNCHANGED <<execVars, stream>>
  /\ UNCHANGED <<running, ref, q, request, work, disturbed, wall>>

\* A plan starts where the joint is, on any branch of a continuous one, and
\* keeps a bounded one inside its limits.
Planned(shape, turn) ==
  [shape EXCEPT !.points = [i \in DOMAIN shape.points |->
     [shape.points[i] EXCEPT !.q = @ + q + turn * 2 * Half]]]

Feasible(plan) ==
  joint = "bounded" => \A i \in DOMAIN plan.points : plan.points[i].q \in Lower .. Upper

\* The drain changes the mode for a goal, and waits for it, with nothing
\* running; a fresh executor is bound to the new mode.
SwitchMode ==
  /\ ~Active /\ ~Streaming /\ work < MaxWork
  /\ \E mode \in Trajectory \ {running} : Enters(mode)
  /\ work' = work + 1
  /\ applied' = Full
  /\ UNCHANGED <<joint, goal, last, q, speed, request, lag, stream, disturbed, wall>>

\* A goal drained from the inbox, in the mode that runs.
StartGoal ==
  /\ ~Streaming /\ work < MaxWork
  /\ \E shape \in Shapes, turn \in (IF joint = "continuous" THEN Branches ELSE {0}),
        mode \in IF Active THEN Trajectory ELSE Trajectory \intersect {running},
        latest \in IF Active THEN BOOLEAN ELSE {TRUE}, tol \in Tolerances, scale \in GoalScales :
       /\ Feasible(Planned(shape, turn))
       /\ Submit(Planned(shape, turn), mode, latest, tol, scale)
  /\ work' = work + 1 /\ wall' = 0
  /\ UNCHANGED <<running, ref, q, speed, request, lag, stream, disturbed>>

\* The mode keeps its last target.
Cancel ==
  /\ Active
  /\ Reset("cancelled")
  /\ UNCHANGED <<target, motionVars>>

\* A halt closes the session and holds where the arm is.
Halt ==
  /\ work < MaxWork /\ work' = work + 1
  /\ Reset("halted")
  /\ stream' = NoStream
  /\ target' = IF running \in Trajectory THEN Hold(q) ELSE target
  /\ UNCHANGED <<running, ref, q, speed, request, lag, disturbed, wall>>

-----------------------------------------------------------------------------
(* A client's velocity session, and the operator's speed override.         *)

OpenStream ==
  /\ ~Active /\ ~Streaming /\ work < MaxWork
  /\ work' = work + 1
  /\ \E mode \in {"velocity", "impedance"} : Enters(mode)
  /\ stream' = [rate |-> 0, ref |-> q]
  /\ UNCHANGED <<joint, goal, applied, last, q, speed, request, lag, disturbed, wall>>

Setpoint ==
  /\ Streaming
  /\ \E v \in Rates : stream' = [stream EXCEPT !.rate = v]
  /\ UNCHANGED <<execVars, running, ref, q, speed, request, lag, work, disturbed, wall>>

CloseStream ==
  /\ Streaming
  /\ stream' = NoStream
  /\ target' = IF running \in Trajectory THEN Hold(q) ELSE target
  /\ UNCHANGED <<joint, goal, applied, last, running, ref, q, speed, request, lag,
                 work, disturbed, wall>>

\* Anyone may raise or lower it; below the floor it is refused, never clamped.
SetOverride ==
  /\ work < MaxWork /\ work' = work + 1
  /\ \E s \in Overrides : s \in MinScale .. Full /\ request' = s
  /\ UNCHANGED <<execVars, running, ref, q, speed, lag, stream, disturbed, wall>>

-----------------------------------------------------------------------------
Next ==
  \/ Cycle \/ Push
  \/ Sample \/ SwitchMode \/ StartGoal \/ Cancel \/ Halt
  \/ OpenStream \/ Setpoint \/ CloseStream \/ SetOverride

Spec == Init /\ [][Next]_vars

\* Both threads are periodic.  Only Cycle counts lag up and only Sample clears it.
CycleRuns == lag < MaxLag /\ lag' = lag + 1
SampleRuns == lag > 0 /\ lag' = 0
FairSpec == Spec /\ WF_lag(CycleRuns) /\ WF_lag(SampleRuns)

-----------------------------------------------------------------------------
(* Properties.                                                             *)

Places == IF joint = "continuous" THEN Turn ELSE Lower .. Upper

\* The measurement, the reference and the anchor stay in the representation
\* of the transport, or within the limits, except that impedance mode applies
\* no limits to a bounded joint's reference; the scales stay within theirs.
TypeOK ==
  /\ q \in Places
  /\ ref \in IF running = "impedance" /\ joint = "bounded" THEN Int ELSE Places
  /\ running \in Modes
  /\ applied \in MinScale .. Full /\ speed \in MinScale .. Full
  /\ request \in MinScale .. Full
  /\ lag \in 0 .. MaxLag
  /\ Active => goal.mode = running /\ (goal.started => goal.time < Duration(goal.plan))
  /\ Streaming => stream.ref \in Places /\ running \in {"velocity", "impedance"}

\* How far apart two angles are, by the shorter arc of a continuous joint.
Distance(a, b) ==
  LET Abs(x) == IF x < 0 THEN -x ELSE x
      d == Abs(a - b) % (2 * Half)
  IN  IF joint = "continuous" THEN Smaller(d, 2 * Half - d) ELSE Abs(a - b)

\* The command never runs away from the arm: position mode commands at most
\* max_following_error and velocity mode at most its lead away from the
\* measurement, also when the arm is blocked or pushed across the wrap, and
\* no mode moves its command further in a cycle than its rated speed, unless
\* it is dragged closer to the arm.
CommandBounded ==
  [][lag' = lag + 1 =>
       /\ running = "position" => Distance(ref', q) <= MaxLead
       /\ running = "velocity" => Distance(ref', q) <= VelLead
       /\ running = "float" => Distance(ref', q) <= Band
       /\ \/ Distance(ref', ref) <= IF running = "velocity" THEN VMax ELSE StepAt(Full)
          \/ Distance(ref', q) < Distance(ref, q)]_vars

\* A goal is aborted when the arm is further from the plan than the
\* tolerance, by the arc, and by nothing else; so an arm nobody disturbed is
\* never aborted, wherever the joint wraps and whatever the speed scales do.
AbortsOnlyDiverged ==
  [][Active /\ goal' = NoGoal /\ last' \in {"done", "aborted"} =>
       /\ last' = "aborted" <=> goal.tol > 0 /\ Distance(q, target'.q) > goal.tol
       /\ last' = "aborted" => disturbed > 0]_vars

\* The trajectory is never further than the slowest speed asked for this goal
\* allows since it was adopted, a preempting one included.
ProgressWithinScale == Active => goal.time <= wall * goal.scale

\* The velocity that is fed forward is the motion commanded: between two
\* samples of a uniform plan the target advances by it, whatever the scale is;
\* and a goal that has run its course leaves none.
FeedforwardIsTheMotion ==
  [][/\ Active /\ goal' # NoGoal /\ goal'.time > goal.time /\ goal'.plan = goal.plan
        /\ goal.time >= goal.plan.points[1].t * Full /\ Uniform(goal.plan) /\ target'.profiled
          => target'.q - target.q = lag * target'.qd
     /\ last' = "done" /\ last # "done" => target'.qd = 0]_vars

\* A cancelled goal leaves the arm held: the target the impedance mode goes
\* on feeding forward says "not moving" (supervisor.cpp:356-357).
CancelHolds ==
  last = "cancelled" /\ ~Active /\ ~Streaming /\ running = "impedance" => target.qd = 0

\* When nothing disturbs it any more the joint comes to rest, its goal ended,
\* at the target the mode was given last.
Arrives ==
  <>[](~Active /\ (running \in Trajectory /\ ~Streaming => Distance(q, InRange(joint, target.q)) = 0))
=============================================================================
