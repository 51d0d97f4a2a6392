----------------------------- MODULE MotionProofs -----------------------------
(***************************************************************************)
(* For every plan, turn, limit and scale, and however the sampler is        *)
(* delayed and the arm is moved: the trajectory clock never outruns the     *)
(* speed asked for; the command stays a lead, and a cycle's step, close to  *)
(* the arm; the guard aborts by the distance; the velocity fed forward is   *)
(* that of the targets.                                                     *)
(***************************************************************************)
EXTENDS Motion, WellFoundedInduction, TLAPS

-----------------------------------------------------------------------------
(* The trajectory clock.                                                   *)

\* What the clock depends on has its type; a goal's own scale was in range.
ClockTypes ==
  /\ lag \in Nat /\ wall \in Nat /\ speed \in Int /\ request \in Int
  /\ goal # NoGoal =>
       /\ goal = [plan |-> goal.plan, mode |-> goal.mode, tol |-> goal.tol,
                  scale |-> goal.scale, time |-> goal.time, started |-> goal.started]
       /\ goal.time \in Nat /\ goal.started \in BOOLEAN
       /\ goal.scale \in MinScale .. Full

\* The cycles since the last tick are still to come: the clock will be
\* advanced by them at most at the goal's own scale.
Owed == IF goal.started THEN lag * goal.scale ELSE 0
ClockInv == ClockTypes /\ (goal # NoGoal => goal.time + Owed <= wall * goal.scale)

\* A number clamped is one of the three, and an integer.
LEMMA ClampInt ==
  ASSUME NEW x \in Int, NEW lo \in Int, NEW hi \in Int
  PROVE  Clamp(x, lo, hi) \in Int
  BY DEF Clamp

\* The scale a tick runs at is no faster than the goal's own, whatever the
\* override is, and never zero.
LEMMA EffectiveIsSlower ==
  ASSUME NEW own \in MinScale .. Full, NEW override \in Int
  PROVE  /\ EffectiveScale(own, override) \in Nat
         /\ EffectiveScale(own, override) <= own
<1>0. MinScale \in Nat /\ Full \in Nat /\ MinScale <= Full /\ own \in Int
  BY ReferenceAssumption
<1>1. own # NaN
  BY NaNAssumption
<1> DEFINE other == IF override = NaN THEN Full ELSE override
<1>2. other \in Int
  BY <1>0
<1>3. EffectiveScale(own, override) = Clamp(Smaller(own, other), MinScale, Full)
  BY <1>1, Zenon DEF EffectiveScale
<1>4. Smaller(own, other) \in Int /\ Smaller(own, other) <= own
  BY <1>0, <1>2 DEF Smaller
<1>5. QED
  BY <1>0, <1>3, <1>4 DEF Clamp

\* The slower of two scales over the same time gets no further.
LEMMA SlowerIsLess ==
  ASSUME NEW t \in Nat, NEW a \in Nat, NEW b \in Nat, a <= b
  PROVE  t * a \in Nat /\ t * a <= t * b
  BY Z3

\* At rest nothing runs and the scales are full.
LEMMA InitClock == Init => ClockInv
  BY ReferenceAssumption DEF Init, ClockInv, ClockTypes

\* A tick advances the clock by the time that passed, at the slower scale: it
\* uses up what was owed, and an iteration without a goal owes nothing.
LEMMA SampleClock == ASSUME ClockInv, Sample PROVE ClockInv'
<1>1. lag \in Nat /\ wall \in Nat /\ speed \in Int /\ request \in Int
  BY DEF ClockInv, ClockTypes
<1>2. lag' = 0 /\ wall' = wall /\ request' = request /\ speed' = SlewScale(speed, request, lag)
  BY DEF Sample
<1>3. speed' \in Int
  <2>1. Clamp(request - speed, -lag, lag) \in Int
    BY <1>1, ClampInt
  <2>2. QED
    BY <1>1, <1>2, <2>1 DEF SlewScale
<1>4. CASE Active
  <2>1. Tick(q, lag, speed')
    BY <1>4 DEF Sample
  <2> DEFINE scale == EffectiveScale(goal.scale, speed')
             time == goal.time + (IF goal.started THEN lag * scale ELSE 0)
  <2>2. /\ goal.time \in Nat /\ goal.started \in BOOLEAN /\ goal.scale \in MinScale .. Full
        /\ goal.time + Owed <= wall * goal.scale
    BY <1>4 DEF ClockInv, ClockTypes, Active
  <2>3. goal.scale \in Nat
    BY <2>2, ReferenceAssumption
  <2>4. scale \in Nat /\ scale <= goal.scale
    BY <1>3, <2>2, EffectiveIsSlower
  <2>5. lag * scale \in Nat /\ lag * scale <= lag * goal.scale
    BY <1>1, <2>3, <2>4, SlowerIsLess
  <2>6. lag * goal.scale \in Nat /\ wall * goal.scale \in Nat
    BY <1>1, <2>3, SlowerIsLess
  <2>7. time \in Nat /\ time <= wall * goal.scale
    BY <2>2, <2>5, <2>6 DEF Owed
  <2>8. goal' = NoGoal \/ goal' = [goal EXCEPT !.time = time, !.started = TRUE]
    BY <2>1, Zenon DEF Tick
  <2>9. CASE goal' = NoGoal
    BY <1>1, <1>2, <1>3, <2>9 DEF ClockInv, ClockTypes
  <2>10. CASE goal' = [goal EXCEPT !.time = time, !.started = TRUE]
    <3>1. goal = [plan |-> goal.plan, mode |-> goal.mode, tol |-> goal.tol,
                  scale |-> goal.scale, time |-> goal.time, started |-> goal.started]
      BY <1>4 DEF ClockInv, ClockTypes, Active
    <3> HIDE DEF time
    <3>2. goal' = [plan |-> goal.plan, mode |-> goal.mode, tol |-> goal.tol,
                   scale |-> goal.scale, time |-> time, started |-> TRUE]
      BY <2>10, <3>1
    <3>3. /\ goal'.time = time /\ goal'.started = TRUE /\ goal'.scale = goal.scale
          /\ goal'.plan = goal.plan /\ goal'.mode = goal.mode /\ goal'.tol = goal.tol
      BY <3>2
    <3>4. ClockTypes'
      BY <1>1, <1>2, <1>3, <2>2, <2>7, <3>2, <3>3 DEF ClockTypes
    <3>5. Owed' = 0
      BY <1>2, <2>3, <3>3 DEF Owed
    <3>6. QED
      BY <1>2, <2>7, <3>3, <3>4, <3>5 DEF ClockInv
  <2>11. QED
    BY <2>8, <2>9, <2>10
<1>5. CASE ~Active
  <2>1. goal' = goal
    BY <1>5 DEF Sample, Integrate, execVars
  <2>2. QED
    BY <1>1, <1>2, <1>3, <1>5, <2>1 DEF ClockInv, ClockTypes, Active
<1>6. QED
  BY <1>4, <1>5

\* A cycle adds to what is owed what it adds to the bound.
LEMMA CycleClock == ASSUME ClockInv, Cycle PROVE ClockInv'
<1>1. lag' = lag + 1 /\ goal' = goal /\ speed' = speed /\ request' = request
  BY DEF Cycle, execVars
<1>2. wall' = IF Active THEN wall + 1 ELSE 0
  BY DEF Cycle
<1>3. ClockTypes'
  BY <1>1, <1>2 DEF ClockInv, ClockTypes
<1>4. ASSUME goal # NoGoal PROVE goal.time + Owed' <= wall' * goal.scale
  <2>1. /\ lag \in Nat /\ wall \in Nat /\ goal.time \in Nat /\ goal.scale \in Nat
        /\ goal.started \in BOOLEAN /\ goal.time + Owed <= wall * goal.scale
    BY <1>4, ReferenceAssumption DEF ClockInv, ClockTypes
  <2>2. wall' = wall + 1
    BY <1>2, <1>4 DEF Active
  <2>3. Owed' = IF goal.started THEN (lag + 1) * goal.scale ELSE 0
    BY <1>1 DEF Owed
  <2>4. /\ (wall + 1) * goal.scale = wall * goal.scale + goal.scale
        /\ (lag + 1) * goal.scale = lag * goal.scale + goal.scale
    BY <2>1, Z3
  <2>5. wall * goal.scale \in Nat /\ lag * goal.scale \in Nat
    BY <2>1, SlowerIsLess
  <2>6. QED
    BY <2>1, <2>2, <2>3, <2>4, <2>5 DEF Owed
<1>5. QED
  BY <1>1, <1>3, <1>4 DEF ClockInv

\* An adopted goal starts a clock of its own, at a scale that was in range.
LEMMA StartClock == ASSUME ClockInv, StartGoal PROVE ClockInv'
<1>1. lag' = lag /\ speed' = speed /\ request' = request /\ wall' = 0
  BY DEF StartGoal
<1>2. PICK plan, mode, latest, tol, scale : Submit(plan, mode, latest, tol, scale)
  BY DEF StartGoal
<1>3. /\ scale \in MinScale .. Full
      /\ goal' = [plan |-> plan, mode |-> mode, tol |-> tol, scale |-> scale,
                  time |-> 0, started |-> FALSE]
  BY <1>2 DEF Submit, Refused
<1>4. /\ goal'.plan = plan /\ goal'.mode = mode /\ goal'.tol = tol
      /\ goal'.time = 0 /\ goal'.started = FALSE /\ goal'.scale = scale
  BY <1>3
<1>5. scale \in Nat
  BY <1>3, ReferenceAssumption
<1>6. Owed' = 0
  BY <1>4 DEF Owed
<1>7. ClockTypes'
  BY <1>1, <1>3, <1>4 DEF ClockInv, ClockTypes
<1>8. QED
  BY <1>1, <1>4, <1>5, <1>6, <1>7 DEF ClockInv

\* Every other step leaves the goal and both counts alone, or ends the goal.
LEMMA OtherClock ==
  ASSUME ClockInv, lag' = lag, wall' = wall, speed' = speed, request' \in Int,
         goal' = goal \/ goal' = NoGoal
  PROVE  ClockInv'
<1>1. CASE goal' = goal
  BY <1>1 DEF ClockInv, ClockTypes, Owed
<1>2. CASE goal' = NoGoal
  BY <1>2 DEF ClockInv, ClockTypes
<1>3. QED
  BY <1>1, <1>2

\* So every step keeps the clock's invariant.
LEMMA NextClock == ASSUME ClockInv, [Next]_vars PROVE ClockInv'
<1>0. request \in Int
  BY DEF ClockInv, ClockTypes
<1>1. CASE Cycle
  BY <1>1, CycleClock
<1>2. CASE Sample
  BY <1>2, SampleClock
<1>3. CASE StartGoal
  BY <1>3, StartClock
<1>4. CASE Push
  BY <1>0, <1>4, OtherClock DEF Push, execVars
<1>5. CASE SwitchMode
  BY <1>0, <1>5, OtherClock DEF SwitchMode
<1>6. CASE Cancel
  BY <1>0, <1>6, OtherClock DEF Cancel, Reset, motionVars
<1>7. CASE Halt
  BY <1>0, <1>7, OtherClock DEF Halt, Reset
<1>8. CASE OpenStream
  BY <1>0, <1>8, OtherClock DEF OpenStream
<1>9. CASE Setpoint
  BY <1>0, <1>9, OtherClock DEF Setpoint, execVars
<1>10. CASE CloseStream
  BY <1>0, <1>10, OtherClock DEF CloseStream
<1>11. CASE SetOverride
  <2>1. request' \in Int
    BY <1>11, ReferenceAssumption DEF SetOverride
  <2>2. QED
    BY <1>11, <2>1, OtherClock DEF SetOverride, execVars
<1>12. CASE UNCHANGED vars
  BY <1>0, <1>12, OtherClock DEF vars, execVars, motionVars
<1>13. QED
  BY <1>1, <1>2, <1>3, <1>4, <1>5, <1>6, <1>7, <1>8, <1>9, <1>10, <1>11, <1>12 DEF Next

\* The trajectory is never further than the slowest speed asked for its goal
\* allows since that goal was adopted (TrajectoryExecutor::tick, submit):
\* whatever the plan, the override's slew and the sampler's delays.
THEOREM ProgressBounded == Spec => []ProgressWithinScale
<1>1. ClockInv => ProgressWithinScale
  <2> SUFFICES ASSUME ClockInv, Active PROVE goal.time <= wall * goal.scale
    BY DEF ProgressWithinScale
  <2>1. /\ goal.time \in Nat /\ goal.started \in BOOLEAN /\ lag \in Nat /\ wall \in Nat
        /\ goal.scale \in Nat /\ goal.time + Owed <= wall * goal.scale
    BY ReferenceAssumption DEF ClockInv, ClockTypes, Active
  <2>2. lag * goal.scale \in Nat /\ wall * goal.scale \in Nat
    BY <2>1, SlowerIsLess
  <2>3. QED
    BY <2>1, <2>2 DEF Owed
<1>2. QED
  BY <1>1, InitClock, NextClock, PTL DEF Spec

-----------------------------------------------------------------------------
(* Angles: whole turns, distances, and the step of a leashed reference.    *)

\* Division with a remainder.
LEMMA Division ==
  ASSUME NEW C \in Int, C > 0, NEW n \in Int
  PROVE  n % C \in 0 .. C - 1 /\ n \div C \in Int /\ n % C = n - C * (n \div C)
<1>1. n % C >= 0 /\ n % C < C /\ n % C \in Int /\ n \div C \in Int
  BY SMT
<1>2. n % C = n - C * (n \div C)
  BY SMT
<1>3. QED
  BY <1>1, <1>2

\* The remainder is the only one of its range.
LEMMA Residue ==
  ASSUME NEW C \in Int, C > 0, NEW k \in Int, NEW r \in Int, 0 <= r, r < C, NEW n, n = C * k + r
  PROVE  n % C = r
<1> DEFINE p == n \div C
           s == n % C
<1>1. n \in Int
  BY SMT
<1>2. s >= 0 /\ s < C /\ s \in Int /\ p \in Int /\ s = n - C * p
  BY <1>1, Division
<1> HIDE DEF p, s
<1>3. C * (k - p) = s - r /\ k - p \in Int
  BY <1>2
<1>4. k - p >= 1 => C * (k - p) >= C
  BY <1>3, SMT
<1>5. k - p <= -1 => C * (k - p) <= -C
  BY <1>3, SMT
<1>6. k - p = 0
  BY <1>2, <1>3, <1>4, <1>5
<1>7. s = r
  BY <1>2, <1>3, <1>6
<1>8. QED
  BY <1>7 DEF s

\* Wrap adds whole turns, and lands in the half-open turn.
LEMMA WrapTurns ==
  ASSUME NEW a \in Int
  PROVE  /\ Wrap(a) \in Int /\ -Half < Wrap(a) /\ Wrap(a) <= Half
         /\ \E k \in Int : Wrap(a) = a + 2 * Half * k
<1> DEFINE C == 2 * Half
           n == a + Half - 1
<1>1. C \in Int /\ C > 0 /\ n \in Int /\ Half \in Int /\ Half > 0
  BY ReferenceAssumption
<1>2. n % C \in 0 .. C - 1 /\ n \div C \in Int /\ n % C = n - C * (n \div C)
  BY <1>1, Division
<1>3. Wrap(a) = (n % C) - Half + 1
  BY DEF Wrap
<1> DEFINE d == n \div C
           m == n % C
<1> HIDE DEF d, m
<1>4. m \in Int /\ 0 <= m /\ m < 2 * Half /\ d \in Int /\ m = a + Half - 1 - 2 * Half * d /\ Wrap(a) = m - Half + 1
  BY <1>1, <1>2, <1>3 DEF d, m
<1>5. 2 * Half * (-d) = -(2 * Half * d) /\ -d \in Int
  BY <1>1, <1>4, SMT
<1>6. Wrap(a) = a + 2 * Half * (-d)
  BY <1>1, <1>4, <1>5
<1>7. QED
  BY <1>1, <1>4, <1>5, <1>6

\* And is the only angle there that differs by whole turns.
LEMMA WrapIs ==
  ASSUME NEW r \in Int, -Half < r, r <= Half, NEW k \in Int, NEW a \in Int, a = r + 2 * Half * k
  PROVE  Wrap(a) = r
<1> DEFINE C == 2 * Half
           n == a + Half - 1
           m == r + Half - 1
<1>1. /\ C \in Int /\ C > 0 /\ Half \in Int /\ n = C * k + m /\ m \in Int /\ 0 <= m /\ m < C
      /\ Wrap(a) = (n % C) - Half + 1 /\ m - Half + 1 = r
  BY ReferenceAssumption DEF Wrap
<1> HIDE DEF C, n, m
<1>2. n % C = m
  BY <1>1, Residue
<1>3. QED
  BY <1>1, <1>2

Size(x) == IF x < 0 THEN -x ELSE x

\* The distance of two angles is the size of their folded difference.
LEMMA DistanceIs ==
  ASSUME joint \in {"continuous", "bounded"}, NEW a \in Int, NEW b \in Int
  PROVE  Distance(a, b) = Size(Fold(joint, a - b)) /\ Fold(joint, a - b) \in Int
<1>0. Half \in Int /\ Half > 0
  BY ReferenceAssumption
<1>1. CASE joint = "bounded"
  BY <1>1 DEF Distance, Fold, Size
<1>2. CASE joint = "continuous"
  <2>1. PICK k \in Int : Wrap(a - b) = a - b + 2 * Half * k
    BY WrapTurns
  <2> DEFINE w == Wrap(a - b)
             C == 2 * Half
             d == Size(a - b) % C
  <2>2. w \in Int /\ -Half < w /\ w <= Half
    BY WrapTurns
  <2>3. Distance(a, b) = Smaller(d, 2 * Half - d) /\ Fold(joint, a - b) = w
    BY <1>2 DEF Distance, Fold, Size
  <2>4. C \in Int /\ C > 0 /\ C = 2 * Half /\ w = a - b + C * k
    BY <1>0, <2>1
  <2>5. C * (-k) = -(C * k) /\ C * (-k - 1) = -(C * k) - C /\ C * (k - 1) = C * k - C
        /\ -k \in Int /\ k - 1 \in Int /\ -k - 1 \in Int /\ C * k \in Int
    BY <2>4, SMT
  <2> DEFINE e == Size(a - b)
  <2>6. e = a - b \/ e = b - a
    BY DEF Size
  <2> HIDE DEF w, C, e
  <2>7. d = e % C
    BY DEF e
  <2>8. CASE e = a - b /\ w >= 0
    <3>1. e = C * (-k) + w BY <2>2, <2>4, <2>5, <2>8
    <3>2. d = w
      <4>1. PICK m \in Int : m = -k BY <2>5
      <4>2. PICK r \in Int : r = w BY <2>2, <2>4
      <4>3. C \in Int /\ C > 0 /\ 0 <= r /\ r < C /\ e = C * m + r
        BY <1>0, <2>2, <2>4, <2>8, <3>1, <4>1, <4>2
      <4>4. e % C = r BY <4>3, Residue
      <4>5. QED BY <2>7, <4>2, <4>4
    <3>3. QED BY <1>0, <2>2, <2>3, <2>8, <3>2 DEF Smaller, Size
  <2>9. CASE e = a - b /\ w < 0
    <3>1. e = C * (-k - 1) + (w + C) BY <2>2, <2>4, <2>5, <2>9
    <3>2. d = w + C
      <4>1. PICK m \in Int : m = -k - 1 BY <2>5
      <4>2. PICK r \in Int : r = w + C BY <2>2, <2>4
      <4>3. C \in Int /\ C > 0 /\ 0 <= r /\ r < C /\ e = C * m + r
        BY <1>0, <2>2, <2>4, <2>9, <3>1, <4>1, <4>2
      <4>4. e % C = r BY <4>3, Residue
      <4>5. QED BY <2>7, <4>2, <4>4
    <3>3. QED BY <1>0, <2>2, <2>3, <2>4, <2>9, <3>2 DEF Smaller, Size
  <2>10. CASE e = b - a /\ w <= 0
    <3>1. e = C * k + (-w) BY <2>2, <2>4, <2>5, <2>10
    <3>2. d = -w
      <4>1. PICK m \in Int : m = k BY <2>5
      <4>2. PICK r \in Int : r = -w BY <2>2, <2>4
      <4>3. C \in Int /\ C > 0 /\ 0 <= r /\ r < C /\ e = C * m + r
        BY <1>0, <2>2, <2>4, <2>10, <3>1, <4>1, <4>2
      <4>4. e % C = r BY <4>3, Residue
      <4>5. QED BY <2>7, <4>2, <4>4
    <3>3. QED BY <1>0, <2>2, <2>3, <2>10, <3>2 DEF Smaller, Size
  <2>11. CASE e = b - a /\ w > 0
    <3>1. e = C * (k - 1) + (C - w) BY <2>2, <2>4, <2>5, <2>11
    <3>2. d = C - w
      <4>1. PICK m \in Int : m = k - 1 BY <2>5
      <4>2. PICK r \in Int : r = C - w BY <2>2, <2>4
      <4>3. C \in Int /\ C > 0 /\ 0 <= r /\ r < C /\ e = C * m + r
        BY <1>0, <2>2, <2>4, <2>11, <3>1, <4>1, <4>2
      <4>4. e % C = r BY <4>3, Residue
      <4>5. QED BY <2>7, <4>2, <4>4
    <3>3. QED BY <1>0, <2>2, <2>3, <2>4, <2>11, <3>2 DEF Smaller, Size
  <2>12. QED
    BY <2>2, <2>6, <2>8, <2>9, <2>10, <2>11
<1>3. QED
  BY <1>1, <1>2

LEMMA DistanceInt ==
  ASSUME joint \in {"continuous", "bounded"}, NEW a \in Int, NEW b \in Int
  PROVE  Distance(a, b) \in Int
<1> DEFINE e == Fold(joint, a - b)
<1>1. e \in Int /\ Distance(a, b) = Size(e)
  BY DistanceIs
<1> HIDE DEF e
<1>2. QED
  BY <1>1 DEF Size

\* A bounded joint's distance is the difference.
LEMMA GapIs ==
  ASSUME joint = "bounded", NEW a \in Int, NEW b \in Int
  PROVE  Distance(a, b) = Size(a - b)
  BY DistanceIs DEF Fold

\* Distance is symmetric.
LEMMA DistanceSymmetric ==
  ASSUME joint \in {"continuous", "bounded"}, NEW a \in Int, NEW b \in Int
  PROVE  Distance(a, b) = Distance(b, a)
<1>1. CASE joint = "bounded"
  BY <1>1, GapIs DEF Size
<1>2. CASE joint = "continuous"
  <2> DEFINE e == Size(a - b)
             f == Size(b - a)
  <2>1. e = f
    BY DEF Size
  <2> HIDE DEF e, f
  <2>2. /\ Distance(a, b) = Smaller(e % (2 * Half), 2 * Half - (e % (2 * Half)))
        /\ Distance(b, a) = Smaller(f % (2 * Half), 2 * Half - (f % (2 * Half)))
    BY <1>2 DEF Distance, e, f, Size
  <2>3. QED
    BY <2>1, <2>2
<1>3. QED
  BY <1>1, <1>2

\* Every reference that is put in range is a place of the joint.
LEMMA InRangeIsPlace ==
  ASSUME joint \in {"continuous", "bounded"}, NEW x \in Int
  PROVE  InRange(joint, x) \in Places /\ InRange(joint, x) \in Int
<1>0. Half \in Int /\ Lower \in Int /\ Upper \in Int /\ Lower < Upper
  BY ReferenceAssumption
<1>1. CASE joint = "continuous"
  BY <1>0, <1>1, WrapTurns DEF InRange, Places, Turn
<1>2. CASE joint = "bounded"
  BY <1>0, <1>2 DEF InRange, Places, Clamp
<1>3. QED
  BY <1>1, <1>2

LEMMA PlacesAreInt ==
  ASSUME joint \in {"continuous", "bounded"}, NEW x \in Places
  PROVE  x \in Int
  BY ReferenceAssumption DEF Places, Turn

\* A command that is at most lead away from the arm stays so in range.
LEMMA LeadHolds ==
  ASSUME joint \in {"continuous", "bounded"}, NEW p \in Places, NEW lead \in Nat,
         lead < Half, NEW c \in Int, -lead <= c, c <= lead
  PROVE  /\ Distance(InRange(joint, p + c), p) <= lead
         /\ joint = "continuous" => Distance(InRange(joint, p + c), p) = Size(c)
<1>0. /\ Half \in Int /\ Lower \in Int /\ Upper \in Int /\ Lower < Upper /\ p \in Int
      /\ p + c \in Int
  BY ReferenceAssumption, PlacesAreInt
<1>1. CASE joint = "continuous"
  <2> DEFINE r == InRange(joint, p + c)
  <2>1. r = Wrap(p + c)
    BY <1>1 DEF InRange
  <2>2. PICK k \in Int : r = (p + c) + 2 * Half * k
    BY <1>0, <2>1, WrapTurns
  <2>3. r \in Int
    BY <1>0, InRangeIsPlace
  <2> HIDE DEF r
  <2>4. r - p = c + 2 * Half * k
    BY <1>0, <2>2, <2>3
  <2>5. Distance(r, p) = Size(c)
    <3>1. -Half < c /\ c <= Half
      BY <1>0
    <3>2. PICK e \in Int : e = r - p
      BY <1>0, <2>3
    <3>3. e = c + 2 * Half * k
      BY <2>4, <3>2
    <3>4. QED
      <4>1. Wrap(e) = c
        BY <3>1, <3>3, WrapIs
      <4>2. Distance(r, p) = Size(Fold(joint, r - p))
        BY <1>0, <2>3, DistanceIs
      <4>3. QED
        BY <1>1, <3>2, <4>1, <4>2 DEF Fold
  <2>6. QED
    BY <1>0, <2>5 DEF r, Size
<1>2. CASE joint = "bounded"
  <2>1. InRange(joint, p + c) = Clamp(p + c, Lower, Upper) /\ p \in Lower .. Upper
    BY <1>2 DEF InRange, Places
  <2>2. Distance(InRange(joint, p + c), p) = Size(Clamp(p + c, Lower, Upper) - p)
    BY <1>0, <1>2, <2>1, GapIs, InRangeIsPlace
  <2>3. QED
    BY <1>0, <1>2, <2>1, <2>2 DEF Size, Clamp
<1>3. QED
  BY <1>1, <1>2

\* The step of a leashed reference: it ends at most lead from the arm, and has
\* moved no further than it was asked to unless it was dragged to the arm.
LEMMA LeashedStep ==
  ASSUME joint \in {"continuous", "bounded"}, NEW p \in Places, NEW from \in Places,
         NEW lead \in Nat, NEW step \in Nat, lead + step < Half,
         NEW s \in Int, -step <= s, s <= step
  PROVE  LET r == InRange(joint, Leash(joint, from + s, p, lead))
         IN  /\ Distance(r, p) <= lead
             /\ Distance(r, from) <= step \/ Distance(r, p) < Distance(from, p)
<1> DEFINE w == Fold(joint, from + s - p)
           c == Clamp(w, -lead, lead)
           r == InRange(joint, p + c)
<1>0. /\ Half \in Int /\ Lower \in Int /\ Upper \in Int /\ Lower < Upper
      /\ p \in Int /\ from \in Int /\ lead \in Int /\ step \in Int /\ lead < Half
  BY ReferenceAssumption, PlacesAreInt
<1>1. InRange(joint, Leash(joint, from + s, p, lead)) = r
  <2>1. Leash(joint, from + s, p, lead) = p + c
    BY <1>0 DEF Leash
  <2> HIDE DEF c
  <2>2. QED
    BY <2>1
<1>2. w \in Int
  BY <1>0, WrapTurns DEF Fold
<1>3. c \in Int /\ -lead <= c /\ c <= lead /\ (-lead <= w /\ w <= lead => c = w)
      /\ (w < -lead => c = -lead) /\ (w > lead => c = lead)
  <2> HIDE DEF w
  <2>1. QED
    BY <1>0, <1>2 DEF Clamp
<1>4. r \in Int
  <2> HIDE DEF c
  <2>1. p + c \in Int
    BY <1>0, <1>3
  <2>2. QED
    BY <2>1, InRangeIsPlace
<1>5. Distance(r, p) <= lead /\ (joint = "continuous" => Distance(r, p) = Size(c))
  <2> HIDE DEF c
  <2>1. QED
    BY <1>0, <1>3, LeadHolds
<1>6. Distance(r, from) <= step \/ Distance(r, p) < Distance(from, p)
  <2>1. CASE joint = "continuous"
    <3> DEFINE e == Wrap(from - p)
    <3>1. e \in Int /\ -Half < e /\ e <= Half /\ Distance(from, p) = Size(e)
      BY <1>0, <2>1, WrapTurns, DistanceIs DEF Fold
    <3>2. PICK k \in Int : e = from - p + 2 * Half * k
      <4>1. from - p \in Int
        BY <1>0
      <4>2. QED
        BY <4>1, WrapTurns
    <3>3. w = Wrap(from + s - p)
      BY <2>1 DEF Fold
    <3>4. PICK n \in Int : r = p + c + 2 * Half * n
      <4> HIDE DEF c
      <4>1. r = Wrap(p + c) /\ p + c \in Int
        BY <1>0, <1>3, <2>1 DEF InRange
      <4>2. QED
        BY <4>1, WrapTurns
    <3> HIDE DEF e, w, c, r
    <3>5. CASE e < -lead \/ e > lead
      <4>1. Distance(from, p) > lead
        BY <1>0, <3>1, <3>5 DEF Size
      <4>2. Distance(r, p) = Size(c) /\ Size(c) \in Int /\ Distance(from, p) \in Int
        BY <1>3, <1>5, <2>1, <3>1 DEF Size
      <4>3. QED
        BY <1>0, <1>5, <4>1, <4>2
    <3>6. CASE -lead <= e /\ e <= lead
      <4>1. -Half < e + s /\ e + s <= Half /\ e + s \in Int
        BY <1>0, <3>1, <3>6
      <4>2. PICK z \in Int : z = from + s - p
        BY <1>0
      <4>3. PICK m \in Int : m = -k
        OBVIOUS
      <4>4. 2 * Half * m = -(2 * Half * k) /\ 2 * Half * k \in Int
        BY <1>0, <4>3, SMT
      <4>5. z = (e + s) + 2 * Half * m
        BY <1>0, <3>1, <3>2, <4>2, <4>4
      <4>6. PICK t \in Int : t = e + s
        BY <4>1
      <4>7. Wrap(z) = t
        BY <4>1, <4>5, <4>6, WrapIs
      <4>8. w = e + s
        BY <3>3, <4>2, <4>6, <4>7
      <4>9. PICK d \in Int : d = c - e
        BY <1>3, <3>1
      <4>10. -step <= d /\ d <= step
        BY <1>0, <1>2, <1>3, <3>1, <3>6, <4>8, <4>9
      <4>11. PICK j \in Int : j = n + k
        OBVIOUS
      <4>12. 2 * Half * j = 2 * Half * n + 2 * Half * k /\ 2 * Half * n \in Int
        BY <1>0, <4>11, SMT
      <4>13. r - from = d + 2 * Half * j
        BY <1>0, <1>3, <1>4, <3>1, <3>2, <3>4, <4>4, <4>9, <4>12
      <4>14. Distance(r, from) = Size(d)
        <5>1. -Half < d /\ d <= Half
          BY <1>0, <4>10
        <5>2. PICK e0 \in Int : e0 = r - from
          BY <1>0, <1>4
        <5>3. e0 = d + 2 * Half * j
          BY <4>13, <5>2
        <5>4. QED
          <6>1. Wrap(e0) = d
            BY <5>1, <5>3, WrapIs
          <6>2. Distance(r, from) = Size(Fold(joint, r - from))
            BY <1>0, <1>4, DistanceIs
          <6>3. QED
            BY <2>1, <5>2, <6>1, <6>2 DEF Fold
      <4>15. QED
        BY <1>0, <4>10, <4>14 DEF Size
    <3>7. QED
      BY <1>0, <3>1, <3>5, <3>6
  <2>2. CASE joint = "bounded"
    <3>1. w = from + s - p /\ r = Clamp(p + c, Lower, Upper)
          /\ from \in Lower .. Upper /\ p \in Lower .. Upper
      BY <2>2 DEF Fold, InRange, Places
    <3> HIDE DEF w, c, r
    <3>2. /\ Distance(r, from) = Size(r - from) /\ Distance(r, p) = Size(r - p)
          /\ Distance(from, p) = Size(from - p)
      BY <1>0, <1>4, <2>2, GapIs
    <3>3. CASE -lead <= from - p /\ from - p <= lead
      <4>1. -step <= r - from /\ r - from <= step
        BY <1>0, <1>3, <3>1, <3>3 DEF Clamp
      <4>2. QED
        BY <1>0, <1>4, <3>2, <4>1 DEF Size
    <3>4. CASE ~(-lead <= from - p /\ from - p <= lead)
      BY <1>0, <1>4, <1>5, <3>2, <3>4 DEF Size
    <3>5. QED
      BY <3>3, <3>4
  <2>3. QED
    BY <2>1, <2>2
<1>7. QED
  BY <1>1, <1>5, <1>6

\* A reference without a leash moves by what it was stepped by.
LEMMA FreeStep ==
  ASSUME joint \in {"continuous", "bounded"}, NEW from \in Int, NEW step \in Nat, step < Half,
         NEW s \in Int, -step <= s, s <= step
  PROVE  /\ Fold(joint, from + s) \in Int
         /\ joint = "continuous" => Fold(joint, from + s) \in Places
         /\ Distance(Fold(joint, from + s), from) <= step
<1>0. Half \in Int /\ from + s \in Int
  BY ReferenceAssumption
<1>1. CASE joint = "continuous"
  <2> DEFINE r == Wrap(from + s)
  <2>1. PICK k \in Int : r = from + s + 2 * Half * k
    BY <1>0, WrapTurns
  <2>2. r \in Int /\ -Half < r /\ r <= Half
    BY <1>0, WrapTurns
  <2>3. Fold(joint, from + s) = r
    BY <1>1 DEF Fold
  <2>4. r \in Places
    BY <1>0, <1>1, <2>2 DEF Places, Turn
  <2> HIDE DEF r
  <2>5. PICK e \in Int : e = r - from
    BY <2>2
  <2>6. e = s + 2 * Half * k /\ -Half < s /\ s <= Half
    BY <1>0, <2>1, <2>2, <2>5
  <2>7. Wrap(e) = s
    BY <2>6, WrapIs
  <2>8. Distance(r, from) = Size(Fold(joint, r - from))
    BY <2>2, DistanceIs
  <2>9. QED
    BY <1>1, <2>2, <2>3, <2>4, <2>5, <2>7, <2>8 DEF Fold, Size
<1>2. CASE joint = "bounded"
  BY <1>0, <1>2, GapIs DEF Fold, Size
<1>3. QED
  BY <1>1, <1>2

\* The anchor stays where it is while the arm is inside its band, and else is
\* dragged to the end of the band: closer, never past the arm.
LEMMA DraggedAnchor ==
  ASSUME joint \in {"continuous", "bounded"}, NEW p \in Places, NEW anchor \in Places
  PROVE  LET r == FloatAnchor(joint, anchor, p)
         IN  /\ r \in Places /\ Distance(r, p) <= Band
             /\ Distance(r, anchor) = 0 \/ Distance(r, p) < Distance(anchor, p)
<1> DEFINE err == Fold(joint, p - anchor)
           r == FloatAnchor(joint, anchor, p)
<1>0. /\ Half \in Int /\ Lower \in Int /\ Upper \in Int /\ Lower < Upper /\ Band \in Int /\ Band > 0
      /\ Band < Half /\ p \in Int /\ anchor \in Int
  BY ReferenceAssumption, LeadAssumption, PlacesAreInt
<1>1. err \in Int /\ Distance(p, anchor) = Size(err) /\ Distance(anchor, p) = Size(err)
  BY <1>0, DistanceIs, DistanceSymmetric
<1> HIDE DEF err
<1>2. /\ err > Band => r = Fold(joint, p - Band)
      /\ err < -Band => r = Fold(joint, p + Band)
      /\ -Band <= err /\ err <= Band => r = Fold(joint, anchor)
  BY <1>0, <1>1 DEF FloatAnchor, err
<1> HIDE DEF r
<1>3. joint = "bounded" => err = p - anchor /\ p \in Lower .. Upper /\ anchor \in Lower .. Upper
  BY DEF err, Fold, Places
<1>4. ASSUME NEW s \in {-Band, Band}, r = Fold(joint, p + s)
      PROVE  r \in Int /\ (joint = "continuous" => r \in Places) /\ Distance(r, p) <= Band
  <2>1. s \in Int /\ -Band <= s /\ s <= Band /\ Band \in Nat
    BY <1>0
  <2>2. QED
    BY <1>0, <1>4, <2>1, FreeStep
<1>5. CASE err > Band
  <2>1. r = Fold(joint, p + (-Band))
    <3>1. p + (-Band) = p - Band
      BY <1>0
    <3>2. QED
      BY <1>2, <1>5, <3>1
  <2>2. r \in Int /\ (joint = "continuous" => r \in Places) /\ Distance(r, p) <= Band
    BY <1>4, <2>1
  <2>3. joint = "bounded" => r \in Places
    BY <1>0, <1>1, <1>2, <1>3, <1>5 DEF Fold, Places
  <2>4. Distance(r, p) < Distance(anchor, p)
    <3>1. Distance(r, p) \in Int
      BY <1>0, <2>2, DistanceInt
    <3>2. QED
      BY <1>0, <1>1, <1>5, <2>2, <3>1 DEF Size
  <2>5. QED
    BY <2>2, <2>3, <2>4 DEF r
<1>6. CASE err < -Band
  <2>1. r = Fold(joint, p + Band)
    BY <1>2, <1>6
  <2>2. r \in Int /\ (joint = "continuous" => r \in Places) /\ Distance(r, p) <= Band
    BY <1>4, <2>1
  <2>3. joint = "bounded" => r \in Places
    BY <1>0, <1>1, <1>3, <1>6, <2>1 DEF Fold, Places
  <2>4. Distance(r, p) < Distance(anchor, p)
    <3>1. Distance(r, p) \in Int
      BY <1>0, <2>2, DistanceInt
    <3>2. QED
      BY <1>0, <1>1, <1>6, <2>2, <3>1 DEF Size
  <2>5. QED
    BY <2>2, <2>3, <2>4 DEF r
<1>7. CASE -Band <= err /\ err <= Band
  <2>1. r = anchor
    <3>1. CASE joint = "continuous"
      <4>1. anchor = anchor + 2 * Half * 0 /\ -Half < anchor /\ anchor <= Half
        BY <1>0, <3>1 DEF Places, Turn
      <4>2. Wrap(anchor) = anchor
        BY <1>0, <4>1, WrapIs
      <4>3. QED
        BY <1>2, <1>7, <3>1, <4>2 DEF Fold
    <3>2. CASE joint = "bounded"
      BY <1>2, <1>7, <3>2 DEF Fold
    <3>3. QED
      BY <3>1, <3>2
  <2>2. Distance(anchor, p) <= Band
    BY <1>0, <1>1, <1>7 DEF Size
  <2>3. Distance(anchor, anchor) = 0
    <3>1. Distance(anchor, anchor) = Size(Fold(joint, 0)) 
      <4>1. anchor - anchor = 0
        BY <1>0
      <4>2. QED
        BY <1>0, <4>1, DistanceIs
    <3>2. Wrap(0) = 0
      <4>1. 0 = 0 + 2 * Half * 0 /\ -Half < 0
        BY <1>0
      <4>2. QED
        BY <1>0, <4>1, WrapIs
    <3>3. QED
      BY <3>1, <3>2 DEF Fold, Size
  <2>4. QED
    BY <2>1, <2>2, <2>3 DEF r
<1>8. QED
  BY <1>0, <1>1, <1>5, <1>6, <1>7

-----------------------------------------------------------------------------
(* Scales and the targets sampled from a plan.                             *)

\* A nonempty set of naturals has a least element.
LEMMA LeastElement ==
  ASSUME NEW T, T \subseteq Nat, T # {}
  PROVE  \E n \in T : \A m \in T : n <= m
<1>1. \E n \in T : \A m \in T : <<m, n>> \notin OpToRel(<, Nat)
  BY NatLessThanWellFounded, WFMin, Zenon
<1>2. \A n, m \in Nat : <<m, n>> \notin OpToRel(<, Nat) => n <= m
  BY DEF OpToRel
<1>3. QED
  BY <1>1, <1>2

\* A speed scale makes a number smaller.
LEMMA ScaledDown ==
  ASSUME NEW M \in Nat, NEW m \in Int, -M <= m, m <= M, NEW k \in Int, 0 <= k, k <= Full
  PROVE  /\ (m * k) \div Full \in Int
         /\ -M <= (m * k) \div Full /\ (m * k) \div Full <= M
         /\ 0 <= m => 0 <= (m * k) \div Full
<1> DEFINE n == m * k
           d == n \div Full
           e == n % Full
<1>0. Full \in Int /\ Full > 0 /\ n \in Int /\ M \in Int
  BY ReferenceAssumption
<1>1. /\ m * k <= M * k /\ M * k <= M * Full /\ -(M * k) <= m * k
      /\ M * k \in Int /\ M * Full \in Int
  <2>1. (M - m) * k >= 0 /\ M * (Full - k) >= 0 /\ (M + m) * k >= 0
    BY <1>0, Z3
  <2>2. (M - m) * k = M * k - m * k /\ M * (Full - k) = M * Full - M * k
        /\ (M + m) * k = M * k + m * k
    BY <1>0, Z3
  <2>3. QED
    BY <1>0, <2>1, <2>2
<1>2. n <= M * Full /\ -(M * Full) <= n /\ (0 <= m => 0 <= n)
  <2>1. 0 <= m => 0 <= n
    BY Z3
  <2>2. QED
    BY <1>0, <1>1, <2>1
<1>3. e >= 0 /\ e < Full /\ e \in Int /\ d \in Int /\ e = n - Full * d
  BY <1>0, Division
<1> HIDE DEF n, e, d
<1>4. d <= M
  <2>1. SUFFICES ASSUME d >= M + 1 PROVE FALSE
    BY <1>0, <1>3
  <2>2. Full * d >= Full * (M + 1)
    <3>1. Full * (d - (M + 1)) >= 0 /\ Full * (d - (M + 1)) = Full * d - Full * (M + 1)
      BY <1>0, <1>3, <2>1, Z3
    <3>2. QED
      BY <1>0, <1>3, <3>1
  <2>3. Full * (M + 1) = M * Full + Full
    BY <1>0, Z3
  <2>4. QED
    BY <1>0, <1>1, <1>2, <1>3, <2>2, <2>3
<1>5. -M <= d
  <2>1. SUFFICES ASSUME d <= -M - 1 PROVE FALSE
    BY <1>0, <1>3
  <2>2. Full * d <= Full * (-M - 1)
    <3>1. Full * ((-M - 1) - d) >= 0 /\ Full * ((-M - 1) - d) = Full * (-M - 1) - Full * d
      BY <1>0, <1>3, <2>1, Z3
    <3>2. QED
      BY <1>0, <1>3, <3>1
  <2>3. Full * (-M - 1) = -(M * Full) - Full
    BY <1>0, Z3
  <2>4. QED
    BY <1>0, <1>1, <1>2, <1>3, <2>2, <2>3
<1>6. 0 <= m => 0 <= d
  <2>1. SUFFICES ASSUME 0 <= n, d <= -1 PROVE FALSE
    BY <1>0, <1>2, <1>3
  <2>2. Full * d <= -Full
    <3>1. Full * (-1 - d) >= 0 /\ Full * (-1 - d) = -Full - Full * d
      BY <1>0, <1>3, <2>1, Z3
    <3>2. QED
      BY <1>0, <1>3, <3>1
  <2>3. QED
    BY <1>0, <1>3, <2>1, <2>2
<1>7. QED
  BY <1>3, <1>4, <1>5, <1>6 DEF d, n

\* A cycle's step at any speed scale is at most the rated one.
LEMMA StepAtBound ==
  ASSUME NEW k \in Int, 0 <= k, k <= Full
  PROVE  StepAt(k) \in Nat /\ StepAt(k) <= MaxStep
<1>1. k * MaxStep = MaxStep * k /\ MaxStep \in Nat
  BY ReferenceAssumption
<1>2. (MaxStep * k) \div Full \in Int /\ (MaxStep * k) \div Full <= MaxStep
      /\ 0 <= (MaxStep * k) \div Full
  BY <1>1, ScaledDown
<1>3. QED
  BY <1>1, <1>2 DEF StepAt

LEMMA FullStep == StepAt(Full) = MaxStep
<1>1. Full \in Int /\ Full > 0 /\ MaxStep \in Int
  BY ReferenceAssumption
<1> DEFINE n == Full * MaxStep
           d == n \div Full
           e == n % Full
<1>2. e >= 0 /\ e < Full /\ e \in Int /\ d \in Int /\ e = n - Full * d /\ n \in Int
  BY <1>1, Division
<1>3. StepAt(Full) = d
  BY DEF StepAt
<1> HIDE DEF d, e
<1>4. Full * (MaxStep - d) = e
  BY <1>1, <1>2
<1>5. MaxStep - d >= 1 => Full * (MaxStep - d) >= Full
  BY <1>1, <1>2, Z3
<1>6. MaxStep - d <= -1 => Full * (MaxStep - d) <= -Full
  BY <1>1, <1>2, Z3
<1>7. QED
  BY <1>1, <1>2, <1>3, <1>4, <1>5, <1>6

\* A streamed rate is at most the rated velocity.
LEMMA RateBound ==
  ASSUME NEW v \in Int, NEW k \in Int, 0 <= k, k <= Full
  PROVE  LimitedRate(v, k) \in Int /\ -VMax <= LimitedRate(v, k) /\ LimitedRate(v, k) <= VMax
<1>1. VMax \in Nat /\ VMax \in Int
  BY ReferenceAssumption
<1> DEFINE m == Clamp(v, -VMax, VMax)
<1>2. m \in Int /\ -VMax <= m /\ m <= VMax
  BY <1>1 DEF Clamp
<1> HIDE DEF m
<1>3. (m * k) \div Full \in Int /\ -VMax <= (m * k) \div Full /\ (m * k) \div Full <= VMax
  BY <1>1, <1>2, ScaledDown
<1>4. QED
  BY <1>3 DEF LimitedRate, m

\* What a mode is given for its target.
Targets == [q : Int, qd : Int, profiled : BOOLEAN]

LEMMA QuotientInt ==
  ASSUME NEW n \in Int, NEW d \in Int, d > 0
  PROVE  n \div d \in Int
  BY SMT

LEMMA HeldTyped ==
  ASSUME NEW plan, NEW x \in Int
  PROVE  Held(plan, x) \in Targets /\ Held(plan, x).q = x /\ Held(plan, x).qd = 0
  BY DEF Held, Targets

LEMMA ProductPositive ==
  ASSUME NEW m \in Int, NEW n \in Int, m > 0, n > 0
  PROVE  m * n \in Int /\ m * n > 0
  BY Z3

LEMMA CubicTyped ==
  ASSUME NEW a \in Waypoints, NEW b \in Waypoints, NEW span \in Int, span > 0,
         NEW i \in Int, NEW N \in Int, N > 0
  PROVE  Cubic(a, b, span, i, N) \in Targets
<1> DEFINE v0 == a.qd * span
           v1 == b.qd * span
           i2 == i * i
           i3 == i2 * i
           N2 == N * N
           N3 == N2 * N
           x == (2 * i3 - 3 * i2 * N + N3) * a.q + (i3 - 2 * i2 * N + i * N2) * v0
                + (3 * i2 * N - 2 * i3) * b.q + (i3 - i2 * N) * v1
           y == (6 * i2 - 6 * i * N) * a.q + (3 * i2 - 4 * i * N + N2) * v0
                + (6 * i * N - 6 * i2) * b.q + (3 * i2 - 2 * i * N) * v1
<1>1. N2 \in Int /\ N2 > 0
  BY ProductPositive
<1>2. N3 \in Int /\ N3 > 0 /\ N2 * span \in Int /\ N2 * span > 0
  <2> HIDE DEF N2
  <2>1. QED
    BY <1>1, ProductPositive
<1>3. v0 \in Int /\ v1 \in Int /\ i2 \in Int /\ i3 \in Int /\ a.q \in Int /\ b.q \in Int
  BY DEF Waypoints
<1>4. Cubic(a, b, span, i, N) = [q |-> x \div N3, qd |-> y \div (N2 * span), profiled |-> TRUE]
  BY DEF Cubic
<1> HIDE DEF v0, v1, i2, i3, N2, N3
<1>5. x \in Int
  BY <1>1, <1>2, <1>3
<1>6. y \in Int
  BY <1>1, <1>2, <1>3
<1> HIDE DEF x, y
<1>7. x \div N3 \in Int /\ y \div (N2 * span) \in Int
  BY <1>2, <1>5, <1>6, QuotientInt
<1>8. QED
  BY <1>4, <1>7 DEF Targets

LEMMA QuinticTyped ==
  ASSUME NEW a \in Waypoints, NEW b \in Waypoints, NEW span \in Int, span > 0,
         NEW i \in Int, NEW N \in Int, N > 0
  PROVE  Quintic(a, b, span, i, N) \in Targets
<1> DEFINE v0 == a.qd * span
           v1 == b.qd * span
           a0 == a.qdd * span * span
           a1 == b.qdd * span * span
           d == b.q - a.q
           c3 == 20 * d - 12 * v0 - 8 * v1 - 3 * a0 + a1
           c4 == -30 * d + 16 * v0 + 14 * v1 + 3 * a0 - 2 * a1
           c5 == 12 * d - 6 * v0 - 6 * v1 - a0 + a1
           N4 == N * N * N * N
           x == (((((c5 * i + c4 * N) * i + c3 * N * N) * i + a0 * N * N * N) * i
                 + 2 * v0 * N4) * i) + 2 * a.q * N4 * N
           y == (((5 * c5 * i + 4 * c4 * N) * i + 3 * c3 * N * N) * i + 2 * a0 * N * N * N) * i
                 + 2 * v0 * N4
<1>1. N4 \in Int /\ N4 > 0
  <2>1. PICK n2 \in Int : n2 = N * N /\ n2 > 0
    BY ProductPositive
  <2>2. PICK n3 \in Int : n3 = n2 * N /\ n3 > 0
    BY <2>1, ProductPositive
  <2>3. n3 * N \in Int /\ n3 * N > 0
    BY <2>2, ProductPositive
  <2>4. QED
    BY <2>1, <2>2, <2>3
<1>2. v0 \in Int /\ v1 \in Int /\ a0 \in Int /\ a1 \in Int /\ a.q \in Int /\ b.q \in Int /\ d \in Int
  BY DEF Waypoints
<1>3. c3 \in Int /\ c4 \in Int /\ c5 \in Int
  <2> HIDE DEF v0, v1, a0, a1, d
  <2>1. QED
    BY <1>2
<1>4. Quintic(a, b, span, i, N)
        = [q |-> x \div (2 * N4 * N), qd |-> y \div (2 * N4 * span), profiled |-> TRUE]
  BY DEF Quintic
<1> HIDE DEF v0, v1, a0, a1, d, c3, c4, c5, N4
<1>5. x \in Int
  BY <1>1, <1>2, <1>3
<1>6. y \in Int
  BY <1>1, <1>2, <1>3
<1>7. 2 * N4 * N \in Int /\ 2 * N4 * N > 0 /\ 2 * N4 * span \in Int /\ 2 * N4 * span > 0
  <2>1. PICK m \in Int : m = 2 * N4 /\ m > 0
    BY <1>1
  <2>2. m * N \in Int /\ m * N > 0 /\ m * span \in Int /\ m * span > 0
    BY <2>1, ProductPositive
  <2>3. QED
    BY <2>1, <2>2
<1> HIDE DEF x, y
<1>8. x \div (2 * N4 * N) \in Int /\ y \div (2 * N4 * span) \in Int
  BY <1>5, <1>6, <1>7, QuotientInt
<1>9. QED
  BY <1>4, <1>8 DEF Targets

\* Between its first and its last waypoint a plan has a segment for every time.
LEMMA SegmentExists ==
  ASSUME NEW plan \in Plans, plan.points # << >>, NEW time \in Int,
         plan.points[1].t * Full < time, time < Duration(plan)
  PROVE  \E i \in DOMAIN plan.points : plan.points[i].t * Full > time
           /\ \A j \in 1 .. i - 1 : plan.points[j].t * Full <= time
<1> DEFINE p == plan.points
           T == {i \in DOMAIN p : p[i].t * Full > time}
<1>1. p \in Seq(Waypoints)
  BY DEF Plans, Waypoints
<1>2. Len(p) \in Nat \ {0} /\ DOMAIN p = 1 .. Len(p)
  BY <1>1
<1>3. \A i \in DOMAIN p : p[i] \in Waypoints
  BY <1>1
<1>4. Full \in Int
  BY ReferenceAssumption
<1>5. \A i \in DOMAIN p : p[i].t * Full \in Int
  BY <1>3, <1>4 DEF Waypoints
<1>6. Len(p) \in T
  <2>1. Len(p) \in DOMAIN p
    BY <1>2
  <2>2. p[Len(p)].t * Full > time
    BY DEF Duration
  <2>3. QED
    BY <2>1, <2>2
<1>7. PICK n \in T : \A m \in T : n <= m
  <2>1. T \subseteq Nat /\ T # {}
    BY <1>2, <1>6
  <2> HIDE DEF T
  <2>2. QED
    BY <2>1, LeastElement
<1>8. \A j \in 1 .. n - 1 : p[j].t * Full <= time
  <2> SUFFICES ASSUME NEW j \in 1 .. n - 1 PROVE p[j].t * Full <= time
    OBVIOUS
  <2>1. j \in DOMAIN p /\ j \notin T
    BY <1>2, <1>7
  <2>2. QED
    BY <1>5, <2>1
<1>9. QED
  BY <1>7, <1>8

\* Strictly between them the sample is of one segment, with a span.
LEMMA SegmentSample ==
  ASSUME NEW plan \in Plans, plan.points # << >>, NEW time \in Int,
         plan.points[1].t * Full < time, time < Duration(plan)
  PROVE  \E k \in DOMAIN plan.points :
           /\ k - 1 \in DOMAIN plan.points
           /\ plan.points[k].t - plan.points[k - 1].t > 0
           /\ LET a == plan.points[k - 1]
                  b == plan.points[k]
                  span == b.t - a.t
                  i == time - a.t * Full
                  N == span * Full
              IN  SampleTarget(plan, time) =
                    IF plan.order = "linear" THEN Held(plan, a.q + ((b.q - a.q) * i) \div N)
                    ELSE IF plan.order = "cubic" THEN Cubic(a, b, span, i, N)
                    ELSE Quintic(a, b, span, i, N)
<1> DEFINE p == plan.points
           hi == CHOOSE i \in DOMAIN p : p[i].t * Full > time
                       /\ \A j \in 1 .. i - 1 : p[j].t * Full <= time
           a == p[hi - 1]
           b == p[hi]
           span == b.t - a.t
           i == time - a.t * Full
           N == span * Full
<1>1. p \in Seq(Waypoints)
  BY DEF Plans, Waypoints
<1>2. Len(p) \in Nat \ {0} /\ DOMAIN p = 1 .. Len(p)
  BY <1>1
<1>3. \A k \in DOMAIN p : p[k] \in Waypoints
  BY <1>1
<1>4. Full \in Int /\ Full > 0
  BY ReferenceAssumption
<1>5. 1 \in DOMAIN p /\ Len(p) \in DOMAIN p
  BY <1>2
<1>6. p[1].t * Full \in Int /\ Duration(plan) \in Int
  BY <1>3, <1>4, <1>5 DEF Waypoints, Duration
<1>7. ~(time <= p[1].t * Full) /\ ~(time >= Duration(plan))
  BY <1>6
<1>8. SampleTarget(plan, time) =
        IF plan.order = "linear" THEN Held(plan, a.q + ((b.q - a.q) * i) \div N)
        ELSE IF plan.order = "cubic" THEN Cubic(a, b, span, i, N)
        ELSE Quintic(a, b, span, i, N)
  BY <1>7, Zenon DEF SampleTarget
<1>9. /\ hi \in DOMAIN p /\ p[hi].t * Full > time
      /\ \A j \in 1 .. hi - 1 : p[j].t * Full <= time
  <2>1. \E k \in DOMAIN p : p[k].t * Full > time /\ \A j \in 1 .. k - 1 : p[j].t * Full <= time
    BY SegmentExists
  <2>2. QED
    BY <2>1, Zenon
<1> HIDE DEF hi
<1>10. hi # 1
  BY <1>6, <1>9
<1>11. hi - 1 \in DOMAIN p /\ hi - 1 \in 1 .. hi - 1
  BY <1>2, <1>9, <1>10
<1>12. a \in Waypoints /\ b \in Waypoints
  BY <1>3, <1>9, <1>11
<1>13. a.t * Full <= time /\ time < b.t * Full
  <2>1. p[hi].t * Full \in Int
    BY <1>4, <1>12 DEF Waypoints
  <2>2. QED
    BY <1>9, <1>11, <2>1
<1>14. span > 0
  <2> HIDE DEF a, b
  <2>1. a.t \in Int /\ b.t \in Int
    BY <1>12 DEF Waypoints
  <2>2. a.t * Full \in Int /\ b.t * Full \in Int /\ span \in Int
    BY <1>4, <2>1
  <2>3. SUFFICES ASSUME span <= 0 PROVE FALSE
    BY <2>2
  <2>4. span * Full <= 0
    BY <1>4, <2>2, <2>3, Z3
  <2>5. span * Full = b.t * Full - a.t * Full
    BY <1>4, <2>1, Z3
  <2>6. QED
    BY <1>13, <2>2, <2>4, <2>5
<1>15. QED
  BY <1>8, <1>9, <1>11, <1>14, Zenon

\* The sample of a plan is a target, whatever the time.
LEMMA SampleTyped ==
  ASSUME NEW plan \in Plans, plan.points # << >>, NEW time \in Int
  PROVE  SampleTarget(plan, time) \in Targets
<1> DEFINE p == plan.points
<1>1. p \in Seq(Waypoints)
  BY DEF Plans, Waypoints
<1>2. Len(p) \in Nat \ {0} /\ DOMAIN p = 1 .. Len(p)
  BY <1>1
<1>3. \A k \in DOMAIN p : p[k] \in Waypoints
  BY <1>1
<1>4. Full \in Int /\ Full > 0
  BY ReferenceAssumption
<1>5. 1 \in DOMAIN p /\ Len(p) \in DOMAIN p
  BY <1>2
<1>6. p[1].q \in Int /\ p[Len(p)].q \in Int /\ p[1].t * Full \in Int /\ Duration(plan) \in Int
  BY <1>3, <1>4, <1>5 DEF Waypoints, Duration
<1>7. CASE time <= p[1].t * Full
  <2>1. SampleTarget(plan, time) = Held(plan, p[1].q)
    BY <1>7 DEF SampleTarget
  <2>2. QED
    BY <1>6, <2>1, HeldTyped
<1>8. CASE ~(time <= p[1].t * Full) /\ time >= Duration(plan)
  <2>1. SampleTarget(plan, time) = Held(plan, p[Len(p)].q)
    BY <1>8 DEF SampleTarget
  <2>2. QED
    BY <1>6, <2>1, HeldTyped
<1>9. CASE ~(time <= p[1].t * Full) /\ ~(time >= Duration(plan))
  <2>1. p[1].t * Full < time /\ time < Duration(plan)
    BY <1>6, <1>9
  <2>2. PICK k \in DOMAIN p :
          /\ k - 1 \in DOMAIN p
          /\ p[k].t - p[k - 1].t > 0
          /\ LET a == p[k - 1]
                 b == p[k]
                 span == b.t - a.t
                 i == time - a.t * Full
                 N == span * Full
             IN  SampleTarget(plan, time) =
                   IF plan.order = "linear" THEN Held(plan, a.q + ((b.q - a.q) * i) \div N)
                   ELSE IF plan.order = "cubic" THEN Cubic(a, b, span, i, N)
                   ELSE Quintic(a, b, span, i, N)
    BY <2>1, SegmentSample, Zenon
  <2> DEFINE a == p[k - 1]
             b == p[k]
             span == b.t - a.t
             i == time - a.t * Full
             N == span * Full
  <2>3. /\ span > 0
        /\ SampleTarget(plan, time) =
             IF plan.order = "linear" THEN Held(plan, a.q + ((b.q - a.q) * i) \div N)
             ELSE IF plan.order = "cubic" THEN Cubic(a, b, span, i, N)
             ELSE Quintic(a, b, span, i, N)
    BY <2>2, Zenon
  <2>4. a \in Waypoints /\ b \in Waypoints
    BY <1>3, <2>2
  <2> HIDE DEF a, b
  <2>5. a.t \in Int /\ b.t \in Int /\ a.q \in Int /\ b.q \in Int
    BY <2>4 DEF Waypoints
  <2>6. span \in Int /\ i \in Int
    BY <1>4, <2>5
  <2> HIDE DEF span, i
  <2>7. N \in Int /\ N > 0
    BY <1>4, <2>3, <2>6, ProductPositive
  <2> HIDE DEF N
  <2>8. a.q + ((b.q - a.q) * i) \div N \in Int
    <3>1. (b.q - a.q) * i \in Int
      BY <2>5, <2>6
    <3>2. ((b.q - a.q) * i) \div N \in Int
      BY <2>7, <3>1, QuotientInt
    <3>3. QED
      BY <2>5, <3>2
  <2>9. /\ Held(plan, a.q + ((b.q - a.q) * i) \div N) \in Targets
        /\ Cubic(a, b, span, i, N) \in Targets /\ Quintic(a, b, span, i, N) \in Targets
    BY <2>3, <2>4, <2>6, <2>7, <2>8, HeldTyped, CubicTyped, QuinticTyped
  <2>10. QED
    BY <2>3, <2>9
<1>10. QED
  BY <1>7, <1>8, <1>9

-----------------------------------------------------------------------------
(* The invariant of the joint, and what each step does to it.              *)

\* What the joint's step needs: where it is, its scales, its goal's plan.
PlaceInv ==
  /\ joint \in {"continuous", "bounded"}
  /\ q \in Places
  /\ ref \in IF running = "impedance" /\ joint = "bounded" THEN Int ELSE Places
  /\ running \in Modes /\ target \in Targets
ScaleInv ==
  /\ applied \in MinScale .. Full /\ speed \in MinScale .. Full
  /\ request \in MinScale .. Full /\ lag \in 0 .. MaxLag
PlanInv ==
  goal # NoGoal =>
    /\ goal.plan \in Plans /\ goal.plan.points # << >> /\ goal.tol \in Int
    /\ goal.mode = running /\ (goal.started => goal.time < Duration(goal.plan))
StreamInv ==
  stream # NoStream =>
    /\ stream = [rate |-> stream.rate, ref |-> stream.ref]
    /\ stream.rate \in Int /\ stream.ref \in Places
    /\ running \in {"velocity", "impedance"}
MotionInv == ClockInv /\ PlaceInv /\ ScaleInv /\ PlanInv /\ StreamInv

LEMMA FoldInt ==
  ASSUME joint \in {"continuous", "bounded"}, NEW x \in Int
  PROVE  Fold(joint, x) \in Int
  BY WrapTurns DEF Fold

LEMMA LeashInt ==
  ASSUME joint \in {"continuous", "bounded"}, NEW x \in Int, NEW p \in Int, NEW lead \in Nat
  PROVE  Leash(joint, x, p, lead) \in Int
<1> DEFINE e == Fold(joint, x - p)
<1>1. e \in Int
  BY FoldInt
<1>2. Leash(joint, x, p, lead) = p + Clamp(e, -lead, lead)
  BY DEF Leash
<1> HIDE DEF e
<1>3. Clamp(e, -lead, lead) \in Int
  BY <1>1, ClampInt
<1>4. QED
  BY <1>2, <1>3

\* A number clamped to a symmetric range is within it.
LEMMA ClampedStep ==
  ASSUME NEW x \in Int, NEW m \in Nat
  PROVE  Clamp(x, -m, m) \in Int /\ -m <= Clamp(x, -m, m) /\ Clamp(x, -m, m) <= m
  BY DEF Clamp

\* The numbers the constants are.
LEMMA Numbers ==
  /\ Half \in Int /\ Lower \in Int /\ Upper \in Int /\ Lower < Upper
  /\ MaxLead \in Nat /\ VelLead \in Nat /\ MaxSpring \in Nat /\ Band \in Nat
  /\ MaxStep \in Nat /\ VMax \in Nat /\ Full \in Nat /\ MinScale \in Nat
  /\ Full > 0 /\ MinScale > 0 /\ MinScale <= Full /\ MaxLag \in Nat
  BY ReferenceAssumption, MotionAssumption

\* The cycle's reference is in range, and CommandBounded is what it does.
LEMMA ReferenceStep ==
  ASSUME PlaceInv, ScaleInv, StreamInv
  PROVE  /\ NextRef \in IF running = "impedance" /\ joint = "bounded" THEN Int ELSE Places
         /\ NextRef \in Int
         /\ running = "position" => Distance(NextRef, q) <= MaxLead
         /\ running = "velocity" => Distance(NextRef, q) <= VelLead
         /\ running = "float" => Distance(NextRef, q) <= Band
         /\ \/ Distance(NextRef, ref) <= IF running = "velocity" THEN VMax ELSE StepAt(Full)
            \/ Distance(NextRef, q) < Distance(ref, q)
<1>1. /\ joint \in {"continuous", "bounded"} /\ q \in Places /\ q \in Int
      /\ target.q \in Int
  BY PlacesAreInt DEF PlaceInv, Targets
<1>2. speed \in Int /\ 0 <= speed /\ speed <= Full
  BY Numbers DEF ScaleInv
<1>3. StepAt(speed) \in Nat /\ StepAt(speed) <= MaxStep /\ StepAt(Full) = MaxStep
  BY <1>2, StepAtBound, FullStep
<1>4. CASE running = "position"
  <2> DEFINE wanted == IF joint = "continuous" THEN target.q ELSE Clamp(target.q, Lower, Upper)
             s == Clamp(Fold(joint, wanted - ref), -StepAt(speed), StepAt(speed))
             r == InRange(joint, Leash(joint, ref + s, q, MaxLead))
  <2>1. NextRef = r
    <3>1. NextRef = PositionReference(joint, ref, target.q, q, speed)
      BY <1>4 DEF NextRef
    <3>2. QED
      BY <3>1, Zenon DEF PositionReference
  <2>2. ref \in Places /\ ref \in Int
    BY <1>1, <1>4, PlacesAreInt DEF PlaceInv
  <2>3. wanted \in Int
    BY <1>1, Numbers, ClampInt
  <2> HIDE DEF wanted
  <2>4. Fold(joint, wanted - ref) \in Int
    BY <1>1, <2>2, <2>3, FoldInt
  <2>5. s \in Int /\ -StepAt(speed) <= s /\ s <= StepAt(speed)
    BY <1>3, <2>4, ClampedStep
  <2> HIDE DEF s
  <2>6. MaxLead + StepAt(speed) < Half
    BY <1>3, Numbers, LeadAssumption
  <2>7. /\ Distance(r, q) <= MaxLead
        /\ Distance(r, ref) <= StepAt(speed) \/ Distance(r, q) < Distance(ref, q)
    BY <1>1, <1>3, <2>2, <2>5, <2>6, Numbers, LeashedStep
  <2>8. Leash(joint, ref + s, q, MaxLead) \in Int
    <3>1. ref + s \in Int
      BY <2>2, <2>5
    <3>2. QED
      BY <1>1, <3>1, Numbers, LeashInt
  <2>9. r \in Places /\ r \in Int
    BY <1>1, <2>8, InRangeIsPlace
  <2> HIDE DEF r
  <2>10. Distance(r, ref) \in Int
    BY <1>1, <2>2, <2>9, DistanceInt
  <2>11. QED
    BY <1>3, <1>4, <2>1, <2>7, <2>9, <2>10, Numbers
<1>5. CASE running = "velocity"
  <2> DEFINE s == IF Streaming THEN LimitedRate(stream.rate, speed) ELSE 0
             r == InRange(joint, Leash(joint, ref + s, q, VelLead))
  <2>1. NextRef = r
    <3>1. NextRef = VelocityReference(joint, ref, s, q)
      BY <1>5 DEF NextRef
    <3>2. QED
      BY <3>1, Zenon DEF VelocityReference
  <2>2. ref \in Places /\ ref \in Int
    BY <1>1, <1>5, PlacesAreInt DEF PlaceInv
  <2>3. s \in Int /\ -VMax <= s /\ s <= VMax
    <3>1. CASE Streaming
      <4>1. stream.rate \in Int
        BY <3>1 DEF StreamInv, Streaming
      <4>2. QED
        BY <1>2, <3>1, <4>1, RateBound
    <3>2. CASE ~Streaming
      BY <3>2, Numbers
    <3>3. QED
      BY <3>1, <3>2
  <2> HIDE DEF s
  <2>4. VelLead + VMax < Half
    BY LeadAssumption
  <2>5. /\ Distance(r, q) <= VelLead
        /\ Distance(r, ref) <= VMax \/ Distance(r, q) < Distance(ref, q)
    BY <1>1, <2>2, <2>3, <2>4, Numbers, LeashedStep
  <2>6. Leash(joint, ref + s, q, VelLead) \in Int
    <3>1. ref + s \in Int
      BY <2>2, <2>3
    <3>2. QED
      BY <1>1, <3>1, Numbers, LeashInt
  <2>7. r \in Places /\ r \in Int
    BY <1>1, <2>6, InRangeIsPlace
  <2> HIDE DEF r
  <2>8. QED
    BY <1>5, <2>1, <2>5, <2>7
<1>6. CASE running = "impedance"
  <2> DEFINE s == Clamp(Fold(joint, target.q - ref), -StepAt(speed), StepAt(speed))
             r == Fold(joint, ref + s)
  <2>1. NextRef = r
    <3>1. NextRef = ImpedanceReference(joint, ref, target.q, speed)
      BY <1>6 DEF NextRef
    <3>2. QED
      BY <3>1, Zenon DEF ImpedanceReference
  <2>2. ref \in Int
    BY <1>1, PlacesAreInt DEF PlaceInv
  <2>3. Fold(joint, target.q - ref) \in Int
    BY <1>1, <2>2, FoldInt
  <2>4. s \in Int /\ -StepAt(speed) <= s /\ s <= StepAt(speed)
    BY <1>3, <2>3, ClampedStep
  <2> HIDE DEF s
  <2>5. StepAt(speed) < Half
    BY <1>3, Numbers, LeadAssumption
  <2>6. r \in Int /\ (joint = "continuous" => r \in Places) /\ Distance(r, ref) <= StepAt(speed)
    BY <1>1, <1>3, <2>2, <2>4, <2>5, FreeStep
  <2> HIDE DEF r
  <2>7. Distance(r, ref) \in Int
    BY <1>1, <2>2, <2>6, DistanceInt
  <2>8. QED
    BY <1>1, <1>3, <1>6, <2>1, <2>6, <2>7, Numbers
<1>7. CASE running = "float"
  <2> DEFINE r == FloatAnchor(joint, ref, q)
  <2>1. NextRef = r
    BY <1>7 DEF NextRef
  <2>2. ref \in Places
    BY <1>1, <1>7 DEF PlaceInv
  <2>3. /\ r \in Places /\ Distance(r, q) <= Band
        /\ Distance(r, ref) = 0 \/ Distance(r, q) < Distance(ref, q)
    BY <1>1, <2>2, DraggedAnchor
  <2>4. r \in Int
    BY <1>1, <2>3, PlacesAreInt
  <2> HIDE DEF r
  <2>5. QED
    BY <1>3, <1>7, <2>1, <2>3, <2>4, Numbers
<1>8. QED
  BY <1>4, <1>5, <1>6, <1>7 DEF PlaceInv, Modes, Trajectory

\* At first the joint is held where it is.
LEMMA InitMotion == Init => MotionInv
<1> SUFFICES ASSUME Init PROVE MotionInv
  OBVIOUS
<1>1. ClockInv
  BY InitClock
<1>2. joint \in {"continuous", "bounded"} /\ q \in Places /\ ref = q
  BY MotionAssumption DEF Init, Places
<1>3. q \in Int
  BY <1>2, PlacesAreInt
<1>4. target \in Targets
  BY <1>3 DEF Init, Hold, Targets
<1>5. running \in Modes
  BY DEF Init
<1>6. PlaceInv
  BY <1>2, <1>3, <1>4, <1>5 DEF PlaceInv
<1>7. ScaleInv
  BY Numbers DEF Init, ScaleInv
<1>8. QED
  BY <1>1, <1>6, <1>7 DEF Init, MotionInv, PlanInv, StreamInv

\* Where the joint is after a pull or a push is a place of it.
LEMMA MovedIsPlace ==
  ASSUME PlaceInv, NEW by \in Int
  PROVE  InRange(joint, q + by) \in Places
<1>1. joint \in {"continuous", "bounded"} /\ q + by \in Int
  BY PlacesAreInt DEF PlaceInv
<1>2. QED
  BY <1>1, InRangeIsPlace

LEMMA PullInt ==
  ASSUME PlaceInv, NEW command \in Int
  PROVE  Pull(command) \in Int
<1>1. joint \in {"continuous", "bounded"} /\ command - q \in Int
  BY PlacesAreInt DEF PlaceInv
<1>2. Fold(joint, command - q) \in Int
  BY <1>1, FoldInt
<1>3. /\ Clamp(Fold(joint, command - q), -MaxStep, MaxStep) \in Int
      /\ Clamp(Fold(joint, command - q), -MaxSpring, MaxSpring) \in Int
  BY <1>2, Numbers, ClampedStep
<1>4. QED
  BY <1>3 DEF Pull, SpringError

\* A cycle moves the reference and the arm, and nothing else.
LEMMA CycleMotion == ASSUME MotionInv, Cycle PROVE MotionInv'
<1>1. ClockInv'
  BY CycleClock DEF MotionInv
<1>2. PlaceInv /\ ScaleInv /\ StreamInv /\ PlanInv
  BY DEF MotionInv
<1>3. /\ lag < MaxLag /\ lag' = lag + 1 /\ ref' = NextRef
      /\ joint' = joint /\ goal' = goal /\ applied' = applied /\ target' = target
      /\ running' = running /\ speed' = speed /\ request' = request /\ stream' = stream
  BY DEF Cycle, execVars
<1>4. Places' = Places
  BY <1>3 DEF Places
<1>5. ref' \in Int /\ ref' \in IF running = "impedance" /\ joint = "bounded" THEN Int ELSE Places
  BY <1>2, <1>3, ReferenceStep
<1>6. q' \in Places
  <2>1. CASE q' = q
    BY <1>2, <2>1 DEF PlaceInv
  <2>2. CASE q' = InRange(joint, q + Pull(ref'))
    <3>1. Pull(ref') \in Int
      BY <1>2, <1>5, PullInt
    <3>2. QED
      BY <1>2, <2>2, <3>1, MovedIsPlace
  <2>3. QED
    BY <2>1, <2>2 DEF Cycle
<1>7. PlaceInv'
  BY <1>2, <1>3, <1>4, <1>5, <1>6 DEF PlaceInv
<1>8. ScaleInv'
  BY <1>2, <1>3, Numbers DEF ScaleInv
<1>9. PlanInv'
  BY <1>2, <1>3 DEF PlanInv, Duration
<1>10. StreamInv'
  BY <1>2, <1>3, <1>4 DEF StreamInv
<1>11. QED
  BY <1>1, <1>7, <1>8, <1>9, <1>10 DEF MotionInv

\* The slewed scale stays between the two it goes from and to.
LEMMA SlewInRange ==
  ASSUME NEW cur \in MinScale .. Full, NEW wanted \in MinScale .. Full, NEW dt \in Nat
  PROVE  SlewScale(cur, wanted, dt) \in MinScale .. Full
  BY Numbers DEF SlewScale, Clamp

LEMMA EffectiveInRange ==
  ASSUME NEW own \in MinScale .. Full, NEW override \in MinScale .. Full
  PROVE  EffectiveScale(own, override) \in MinScale .. Full
<1>1. EffectiveScale(own, override) = Clamp(Smaller(own, override), MinScale, Full)
  <2>1. own # NaN /\ override # NaN
    BY NaNAssumption
  <2>2. QED
    BY <2>1, Zenon DEF EffectiveScale
<1>2. QED
  BY <1>1, Numbers DEF Clamp, Smaller

\* The guard aborts by the distance, whichever joint it is.
LEMMA DivergedIs ==
  ASSUME joint \in {"continuous", "bounded"}, NEW p \in Int, NEW x \in Int, NEW tol \in Int
  PROVE  Diverged(p, x, tol) <=> tol > 0 /\ Distance(p, x) > tol
<1> DEFINE err == Fold(joint, p - x)
<1>1. err \in Int /\ Distance(p, x) = Size(err)
  BY DistanceIs
<1>2. Diverged(p, x, tol) <=> tol > 0 /\ (err > tol \/ -err > tol)
  BY DEF Diverged
<1> HIDE DEF err
<1>3. QED
  BY <1>1, <1>2 DEF Size

\* What a tick hands to the mode, and how it ends a goal.
LEMMA TickStep ==
  ASSUME MotionInv, Active, NEW now \in MinScale .. Full, Tick(q, lag, now),
         running' = running
  PROVE  /\ target' \in Targets /\ applied' \in MinScale .. Full /\ PlanInv'
         /\ goal' = NoGoal /\ last' \in {"done", "aborted"} =>
              /\ last' = "aborted" <=> goal.tol > 0 /\ Distance(q, target'.q) > goal.tol
              /\ last' = "done" => target'.qd = 0
<1> DEFINE scale == EffectiveScale(goal.scale, now)
           time == goal.time + (IF goal.started THEN lag * scale ELSE 0)
           sampled == SampleTarget(goal.plan, time)
<1>0. PlaceInv /\ ScaleInv /\ ClockTypes /\ PlanInv
  BY DEF MotionInv, ClockInv
<1>1. /\ goal.plan \in Plans /\ goal.plan.points # << >> /\ goal.tol \in Int
      /\ goal.mode = running
      /\ goal.time \in Nat /\ goal.started \in BOOLEAN /\ goal.scale \in MinScale .. Full
      /\ lag \in Nat
      /\ goal = [plan |-> goal.plan, mode |-> goal.mode, tol |-> goal.tol,
                 scale |-> goal.scale, time |-> goal.time, started |-> goal.started]
  BY <1>0 DEF PlanInv, ClockTypes, Active
<1>2. scale \in MinScale .. Full /\ scale \in Int /\ 0 <= scale /\ scale <= Full
  BY <1>1, Numbers, EffectiveInRange
<1>3. time \in Int
  <2> HIDE DEF scale
  <2>1. lag * scale \in Int
    BY <1>1, <1>2
  <2>2. QED
    BY <1>1, <2>1
<1>4. /\ applied' = scale /\ target' = Scaled(sampled, scale)
      /\ joint' = joint
      /\ IF Diverged(q, sampled.q, goal.tol) THEN goal' = NoGoal /\ last' = "aborted"
         ELSE IF time >= Duration(goal.plan) THEN goal' = NoGoal /\ last' = "done"
         ELSE goal' = [goal EXCEPT !.time = time, !.started = TRUE] /\ UNCHANGED last
  BY Zenon DEF Tick
<1>5. sampled \in Targets
  <2> HIDE DEF time
  <2>1. QED
    BY <1>1, <1>3, SampleTyped
<1>6. time >= Duration(goal.plan) => sampled.qd = 0
  <2> DEFINE p == goal.plan.points
  <2> HIDE DEF time
  <2>1. ASSUME time >= Duration(goal.plan)
        PROVE  \/ sampled = Held(goal.plan, p[1].q) \/ sampled = Held(goal.plan, p[Len(p)].q)
    BY <2>1, Zenon DEF SampleTarget
  <2>2. \A x : Held(goal.plan, x).qd = 0
    BY DEF Held
  <2> HIDE DEF p, sampled
  <2>3. QED
    BY <2>1, <2>2
<1> HIDE DEF scale, time, sampled
<1>7. target' = [q |-> sampled.q, qd |-> (sampled.qd * scale) \div Full,
                 profiled |-> sampled.profiled]
  BY <1>4, <1>5 DEF Scaled, Targets
<1>8. sampled.q \in Int /\ sampled.qd \in Int /\ sampled.profiled \in BOOLEAN
  BY <1>5 DEF Targets
<1>9. (sampled.qd * scale) \div Full \in Int
  <2>1. sampled.qd * scale \in Int
    BY <1>2, <1>8
  <2>2. QED
    BY <2>1, Numbers, QuotientInt
<1>10. target' \in Targets /\ target'.q = sampled.q /\ target'.qd = (sampled.qd * scale) \div Full
  BY <1>7, <1>8, <1>9 DEF Targets
<1>11. PlanInv'
  <2>1. CASE goal' = NoGoal
    BY <2>1 DEF PlanInv
  <2>2. CASE goal' # NoGoal
    <3>1. goal' = [goal EXCEPT !.time = time, !.started = TRUE] /\ ~(time >= Duration(goal.plan))
      BY <1>4, <2>2
    <3>2. goal' = [plan |-> goal.plan, mode |-> goal.mode, tol |-> goal.tol,
                   scale |-> goal.scale, time |-> time, started |-> TRUE]
      BY <1>1, <3>1
    <3>3. goal'.plan = goal.plan /\ goal'.mode = goal.mode /\ goal'.tol = goal.tol /\ goal'.time = time
      BY <3>2
    <3>4. Duration(goal.plan) \in Int
      <4> DEFINE p == goal.plan.points
      <4>1. p \in Seq(Waypoints)
        BY <1>1 DEF Plans
      <4>2. p[Len(p)] \in Waypoints
        BY <1>1, <4>1
      <4>3. QED
        BY <4>2, Numbers DEF Duration, Waypoints
    <3>5. time < Duration(goal.plan)
      BY <1>3, <3>1, <3>4
    <3>6. Duration(goal'.plan) = Duration(goal.plan)
      BY <3>3
    <3>7. goal'.time < Duration(goal'.plan) /\ goal'.mode = running
      BY <1>1, <3>3, <3>5, <3>6
    <3>8. QED
      BY <1>1, <3>3, <3>7 DEF PlanInv, Duration
  <2>3. QED
    BY <2>1, <2>2
<1>12. ASSUME goal' = NoGoal, last' \in {"done", "aborted"}
       PROVE  /\ last' = "aborted" <=> goal.tol > 0 /\ Distance(q, target'.q) > goal.tol
              /\ last' = "done" => target'.qd = 0
  <2>1. q \in Int /\ joint \in {"continuous", "bounded"}
    BY <1>0, PlacesAreInt DEF PlaceInv
  <2>2. Diverged(q, sampled.q, goal.tol) <=> goal.tol > 0 /\ Distance(q, sampled.q) > goal.tol
    BY <1>1, <1>8, <2>1, DivergedIs
  <2>3. goal' # [goal EXCEPT !.time = time, !.started = TRUE]
    <3>1. PICK g : g = [goal EXCEPT !.time = time, !.started = TRUE]
      OBVIOUS
    <3>2. g = [plan |-> goal.plan, mode |-> goal.mode, tol |-> goal.tol,
               scale |-> goal.scale, time |-> time, started |-> TRUE]
      BY <1>1, <3>1
    <3>3. goal.mode \in Modes /\ goal.scale \in Int
      BY <1>0, <1>1, Numbers DEF PlaceInv
    <3>4. g \in Goals
      BY <1>1, <1>3, <3>2, <3>3 DEF Goals
    <3>5. QED
      BY <1>12, <3>1, <3>4, NoGoalAssumption
  <2>4. IF Diverged(q, sampled.q, goal.tol) THEN last' = "aborted"
        ELSE time >= Duration(goal.plan) /\ last' = "done"
    BY <1>4, <2>3
  <2>5. ASSUME sampled.qd = 0 PROVE target'.qd = 0
    <3>1. 0 * scale = 0
      BY <1>2
    <3>2. (0 * scale) \div Full \in Int /\ 0 <= (0 * scale) \div Full /\ (0 * scale) \div Full <= 0
      BY <1>2, ScaledDown
    <3>3. target'.qd = (0 * scale) \div Full
      BY <1>10, <2>5
    <3>4. QED
      BY <3>2, <3>3
  <2>6. QED
    BY <1>6, <1>10, <2>2, <2>4, <2>5
<1>13. QED
  BY <1>2, <1>4, <1>10, <1>11, <1>12

\* One step of the compliant stream's integration.
LEMMA IntegrateStep ==
  ASSUME MotionInv, Streaming, running = "impedance", NEW now \in MinScale .. Full,
         Integrate(now), running' = running
  PROVE  target' \in Targets /\ StreamInv'
<1> DEFINE s == LimitedRate(stream.rate, now) * lag
           next == InRange(joint, Leash(joint, stream.ref + s, q, VelLead))
           moved == Fold(joint, next - stream.ref)
<1>0. PlaceInv /\ ScaleInv /\ StreamInv
  BY DEF MotionInv
<1>1. /\ stream = [rate |-> stream.rate, ref |-> stream.ref]
      /\ stream.rate \in Int /\ stream.ref \in Places /\ stream.ref \in Int
      /\ joint \in {"continuous", "bounded"} /\ q \in Int
  BY <1>0, PlacesAreInt DEF StreamInv, PlaceInv, Streaming
<1>2. now \in Int /\ 0 <= now /\ now <= Full /\ lag \in Nat
  BY <1>0, Numbers DEF ScaleInv
<1>3. LimitedRate(stream.rate, now) \in Int
  BY <1>1, <1>2, RateBound
<1>4. s \in Int
  BY <1>2, <1>3
<1>5. VelocityReference(joint, stream.ref, s, q) = next
  BY Zenon DEF VelocityReference
<1> HIDE DEF s
<1>6. stream.ref + s \in Int
  BY <1>1, <1>4
<1>7. Leash(joint, stream.ref + s, q, VelLead) \in Int
  BY <1>1, <1>6, Numbers, LeashInt
<1>8. next \in Places /\ next \in Int
  BY <1>1, <1>7, InRangeIsPlace
<1>9. /\ stream' = [stream EXCEPT !.ref = next]
      /\ target' = [q |-> next, qd |-> IF lag > 0 THEN moved \div lag ELSE 0, profiled |-> TRUE]
      /\ joint' = joint
  BY <1>5 DEF Integrate, s
<1> HIDE DEF next
<1>10. moved \in Int
  BY <1>1, <1>8, FoldInt
<1> HIDE DEF moved
<1>11. (IF lag > 0 THEN moved \div lag ELSE 0) \in Int
  BY <1>2, <1>10, QuotientInt
<1>12. target' \in Targets
  BY <1>8, <1>9, <1>11 DEF Targets
<1>13. stream' = [rate |-> stream.rate, ref |-> next]
  BY <1>1, <1>9
<1>14. Places' = Places
  BY <1>9 DEF Places
<1>15. StreamInv'
  BY <1>1, <1>8, <1>13, <1>14 DEF StreamInv
<1>16. QED
  BY <1>12, <1>15

\* An iteration of the sampler writes the target, and leaves the joint alone.
LEMMA SampleMotion == ASSUME MotionInv, Sample PROVE MotionInv'
<1>0. PlaceInv /\ ScaleInv /\ StreamInv /\ PlanInv
  BY DEF MotionInv
<1>1. ClockInv'
  BY SampleClock DEF MotionInv
<1>2. /\ lag' = 0 /\ speed' = SlewScale(speed, request, lag)
      /\ running' = running /\ ref' = ref /\ q' = q /\ request' = request
  BY DEF Sample
<1>3. speed' \in MinScale .. Full
  <2>1. lag \in Nat
    BY <1>0, Numbers DEF ScaleInv
  <2>2. QED
    BY <1>0, <1>2, <2>1, SlewInRange DEF ScaleInv
<1>4. joint' = joint /\ applied' \in MinScale .. Full /\ target' \in Targets /\ PlanInv' /\ StreamInv'
  <2>1. CASE Active
    <3>1. Tick(q, lag, speed') /\ stream' = stream
      BY <2>1 DEF Sample
    <3>2. target' \in Targets /\ applied' \in MinScale .. Full /\ PlanInv'
      BY <1>2, <1>3, <2>1, <3>1, TickStep
    <3>3. joint' = joint
      BY <3>1, Zenon DEF Tick
    <3>4. Places' = Places
      BY <3>3 DEF Places
    <3>5. StreamInv'
      BY <1>0, <1>2, <3>1, <3>4 DEF StreamInv
    <3>6. QED
      BY <3>2, <3>3, <3>5
  <2>2. CASE ~Active /\ Streaming /\ running = "impedance"
    <3>1. Integrate(speed')
      BY <2>2 DEF Sample
    <3>2. joint' = joint /\ goal' = goal /\ applied' = applied
      BY <3>1 DEF Integrate
    <3>3. target' \in Targets /\ StreamInv'
      BY <1>2, <1>3, <2>2, <3>1, IntegrateStep
    <3>4. PlanInv'
      BY <2>2, <3>2 DEF PlanInv, Active
    <3>5. QED
      BY <1>0, <3>2, <3>3, <3>4 DEF ScaleInv
  <2>3. CASE ~Active /\ ~(Streaming /\ running = "impedance")
    <3>1. joint' = joint /\ goal' = goal /\ applied' = applied /\ target' = target /\ stream' = stream
      BY <2>3 DEF Sample, execVars
    <3>2. Places' = Places
      BY <3>1 DEF Places
    <3>3. PlanInv'
      BY <2>3, <3>1 DEF PlanInv, Active
    <3>4. QED
      BY <1>0, <1>2, <3>1, <3>2, <3>3 DEF ScaleInv, PlaceInv, StreamInv
  <2>4. QED
    BY <2>1, <2>2, <2>3
<1>5. Places' = Places
  BY <1>4 DEF Places
<1>6. PlaceInv'
  BY <1>0, <1>2, <1>4, <1>5 DEF PlaceInv
<1>7. ScaleInv'
  BY <1>0, <1>2, <1>3, <1>4, Numbers DEF ScaleInv
<1>8. QED
  BY <1>1, <1>4, <1>6, <1>7 DEF MotionInv

\* A plan moved to where the joint is, and to a branch of it, is a plan.
LEMMA PlannedTyped ==
  ASSUME PlaceInv, NEW shape \in Plans, NEW turn \in Int
  PROVE  Planned(shape, turn) \in Plans
<1> DEFINE p == shape.points
           by == q + turn * 2 * Half
           m == [i \in DOMAIN p |-> [p[i] EXCEPT !.q = @ + q + turn * 2 * Half]]
<1>1. p \in Seq(Waypoints) /\ q \in Int /\ turn * 2 * Half \in Int
      /\ shape.order \in {"linear", "cubic", "quintic"}
      /\ shape = [order |-> shape.order, points |-> p]
  BY PlacesAreInt, Numbers DEF Plans, PlaceInv
<1>2. \A i \in DOMAIN p : m[i] \in Waypoints
  <2> SUFFICES ASSUME NEW i \in DOMAIN p PROVE m[i] \in Waypoints
    OBVIOUS
  <2>1. p[i] \in Waypoints
    BY <1>1
  <2>2. p[i].q + q + turn * 2 * Half \in Int
    BY <1>1, <2>1 DEF Waypoints
  <2>3. QED
    BY <2>1, <2>2 DEF Waypoints
<1>3. DOMAIN m = 1 .. Len(p) /\ Len(p) \in Nat
  BY <1>1
<1>4. m = [i \in 1 .. Len(p) |-> m[i]]
  BY <1>1
<1>5. Planned(shape, turn) = [shape EXCEPT !.points = m]
  BY DEF Planned
<1> HIDE DEF m
<1>6. m \in Seq(Waypoints)
  <2>1. PICK n \in Nat : n = Len(p)
    BY <1>3
  <2>2. DOMAIN p = 1 .. n /\ m = [i \in 1 .. n |-> m[i]]
    BY <1>1, <1>4, <2>1
  <2>3. \A i \in 1 .. n : m[i] \in Waypoints
    BY <1>2, <2>2
  <2> HIDE DEF p
  <2>4. m \in [1 .. n -> Waypoints]
    BY <2>2, <2>3
  <2>5. QED
    BY <2>4
<1>7. Planned(shape, turn) = [order |-> shape.order, points |-> m]
  BY <1>1, <1>5
<1>8. QED
  BY <1>1, <1>6, <1>7 DEF Plans

\* A goal adopted is of the mode that runs, with a plan, not yet started.
LEMMA Adopted ==
  ASSUME MotionInv, StartGoal
  PROVE  /\ goal' \in Goals /\ goal'.plan.points # << >> /\ goal'.mode = running
         /\ goal'.started = FALSE
         /\ joint' = joint /\ applied' = applied /\ target' = target
<1>0. PlaceInv /\ PlanInv
  BY DEF MotionInv
<1>1. PICK shape \in Shapes, turn \in (IF joint = "continuous" THEN Branches ELSE {0}),
           mode \in IF Active THEN Trajectory ELSE Trajectory \intersect {running},
           latest \in IF Active THEN BOOLEAN ELSE {TRUE}, tol \in Tolerances, scale \in GoalScales :
             Submit(Planned(shape, turn), mode, latest, tol, scale)
  BY DEF StartGoal
<1>2. shape \in Plans /\ turn \in Int /\ tol \in Int /\ mode \in Modes
  BY MotionAssumption DEF Modes
<1>3. Planned(shape, turn) \in Plans
  BY <1>0, <1>2, PlannedTyped
<1> DEFINE plan == Planned(shape, turn)
<1> HIDE DEF plan
<1>4. /\ plan \in Plans /\ plan.points # << >>
      /\ Active => goal.mode = mode
      /\ scale \in MinScale .. Full
      /\ goal' = [plan |-> plan, mode |-> mode, tol |-> tol, scale |-> scale,
                  time |-> 0, started |-> FALSE]
      /\ joint' = joint /\ applied' = applied /\ target' = target
  BY <1>1, <1>3 DEF Submit, Refused, plan
<1>5. mode = running
  BY <1>0, <1>4 DEF PlanInv, Active
<1>6. scale \in Int
  BY <1>4, Numbers
<1>7. goal' \in Goals
  BY <1>2, <1>4, <1>6 DEF Goals
<1>8. goal'.plan = plan /\ goal'.mode = mode /\ goal'.started = FALSE
  BY <1>4
<1>9. QED
  BY <1>4, <1>5, <1>7, <1>8

LEMMA StartMotion == ASSUME MotionInv, StartGoal PROVE MotionInv'
<1>0. PlaceInv /\ ScaleInv /\ StreamInv /\ PlanInv
  BY DEF MotionInv
<1>1. ClockInv'
  BY StartClock DEF MotionInv
<1>2. /\ goal' \in Goals /\ goal'.plan.points # << >> /\ goal'.mode = running
      /\ goal'.started = FALSE
      /\ joint' = joint /\ applied' = applied /\ target' = target
  BY Adopted
<1>3. /\ running' = running /\ ref' = ref /\ q' = q /\ speed' = speed /\ request' = request
      /\ lag' = lag /\ stream' = stream
  BY DEF StartGoal
<1>4. goal'.plan \in Plans /\ goal'.tol \in Int
  BY <1>2 DEF Goals
<1>5. PlanInv'
  BY <1>2, <1>3, <1>4 DEF PlanInv
<1>6. Places' = Places
  BY <1>2 DEF Places
<1>7. PlaceInv' /\ ScaleInv' /\ StreamInv'
  BY <1>0, <1>2, <1>3, <1>6 DEF PlaceInv, ScaleInv, StreamInv
<1>8. QED
  BY <1>1, <1>5, <1>7 DEF MotionInv

\* The steps that neither sample nor move: the places, when a mode enters.
LEMMA EntersPlace ==
  ASSUME PlaceInv, NEW mode \in Modes, Enters(mode), q' = q, joint' = joint
  PROVE  PlaceInv' /\ running' = mode
<1>1. Places' = Places /\ q \in Int
  BY PlacesAreInt DEF Places, PlaceInv
<1>2. Hold(q) \in Targets
  BY <1>1 DEF Hold, Targets
<1>3. QED
  BY <1>1, <1>2 DEF Enters, PlaceInv

\* And when nothing moves but the target, which is kept or held at the arm.
LEMMA KeptPlace ==
  ASSUME PlaceInv, joint' = joint, running' = running, ref' = ref, q' \in Places,
         target' = target \/ target' = Hold(q)
  PROVE  PlaceInv'
<1>1. Places' = Places /\ q \in Int
  BY PlacesAreInt DEF Places, PlaceInv
<1>2. Hold(q) \in Targets
  BY <1>1 DEF Hold, Targets
<1>3. QED
  BY <1>1, <1>2 DEF PlaceInv

LEMMA PushMotion == ASSUME MotionInv, Push PROVE MotionInv'
<1>0. PlaceInv /\ ScaleInv /\ StreamInv /\ PlanInv /\ ClockInv
  BY DEF MotionInv
<1>1. ClockInv'
  BY <1>0, NextClock DEF Next
<1>2. /\ joint' = joint /\ goal' = goal /\ applied' = applied /\ target' = target
      /\ running' = running /\ ref' = ref /\ speed' = speed /\ request' = request
      /\ lag' = lag /\ stream' = stream
  BY DEF Push, execVars
<1>3. q' \in Places
  <2>1. PICK by \in {-1, 1} : q' = InRange(joint, q + by)
    BY DEF Push
  <2>2. by \in Int
    OBVIOUS
  <2>3. QED
    BY <1>0, <2>1, <2>2, MovedIsPlace
<1>4. PlaceInv'
  BY <1>0, <1>2, <1>3, KeptPlace
<1>5. Places' = Places
  BY <1>2 DEF Places
<1>6. ScaleInv' /\ StreamInv' /\ PlanInv'
  BY <1>0, <1>2, <1>5 DEF ScaleInv, StreamInv, PlanInv, Duration
<1>7. QED
  BY <1>1, <1>4, <1>6 DEF MotionInv

\* The operations of the drain and of the clients that move nothing.
LEMMA OtherMotion ==
  ASSUME MotionInv,
         Cancel \/ Halt \/ Setpoint \/ CloseStream \/ SetOverride \/ SwitchMode \/ OpenStream
         \/ UNCHANGED vars
  PROVE  MotionInv'
<1>0. PlaceInv /\ ScaleInv /\ StreamInv /\ PlanInv /\ ClockInv
  BY DEF MotionInv
<1>1. ClockInv'
  BY <1>0, NextClock DEF Next
<1>2. q \in Places /\ Full \in MinScale .. Full
  BY <1>0, Numbers DEF PlaceInv
<1>3. CASE Cancel
  <2>1. /\ joint' = joint /\ goal' = NoGoal /\ applied' = Full /\ target' = target
        /\ running' = running /\ ref' = ref /\ q' = q /\ speed' = speed /\ request' = request
        /\ lag' = lag /\ stream' = stream
    BY <1>3 DEF Cancel, Reset, motionVars
  <2>2. PlaceInv' /\ Places' = Places
    BY <1>0, <1>2, <2>1, KeptPlace DEF Places
  <2>3. QED
    BY <1>0, <1>1, <1>2, <2>1, <2>2 DEF MotionInv, ScaleInv, StreamInv, PlanInv
<1>4. CASE Halt
  <2>1. /\ joint' = joint /\ goal' = NoGoal /\ applied' = Full
        /\ target' = target \/ target' = Hold(q)
        /\ running' = running /\ ref' = ref /\ q' = q /\ speed' = speed /\ request' = request
        /\ lag' = lag /\ stream' = NoStream
    BY <1>4 DEF Halt, Reset
  <2>2. PlaceInv'
    BY <1>0, <1>2, <2>1, KeptPlace
  <2>3. QED
    BY <1>0, <1>1, <1>2, <2>1, <2>2 DEF MotionInv, ScaleInv, StreamInv, PlanInv
<1>5. CASE Setpoint
  <2>1. PICK v \in Rates : stream' = [stream EXCEPT !.rate = v]
    BY <1>5 DEF Setpoint
  <2>2. /\ joint' = joint /\ goal' = goal /\ applied' = applied /\ target' = target
        /\ running' = running /\ ref' = ref /\ q' = q /\ speed' = speed /\ request' = request
        /\ lag' = lag
    BY <1>5 DEF Setpoint, execVars
  <2>3. /\ stream = [rate |-> stream.rate, ref |-> stream.ref]
        /\ stream.ref \in Places /\ running \in {"velocity", "impedance"} /\ v \in Int
    BY <1>0, <1>5, MotionAssumption DEF StreamInv, Setpoint, Streaming
  <2>4. stream' = [rate |-> v, ref |-> stream.ref]
    BY <2>1, <2>3
  <2>5. PlaceInv' /\ Places' = Places
    BY <1>0, <1>2, <2>2, KeptPlace DEF Places
  <2>6. StreamInv'
    BY <2>2, <2>3, <2>4, <2>5 DEF StreamInv
  <2>7. QED
    BY <1>0, <1>1, <2>2, <2>5, <2>6 DEF MotionInv, ScaleInv, PlanInv, Duration
<1>6. CASE CloseStream
  <2>1. /\ joint' = joint /\ goal' = goal /\ applied' = applied
        /\ target' = target \/ target' = Hold(q)
        /\ running' = running /\ ref' = ref /\ q' = q /\ speed' = speed /\ request' = request
        /\ lag' = lag /\ stream' = NoStream
    BY <1>6 DEF CloseStream
  <2>2. PlaceInv'
    BY <1>0, <1>2, <2>1, KeptPlace
  <2>3. QED
    BY <1>0, <1>1, <2>1, <2>2 DEF MotionInv, ScaleInv, StreamInv, PlanInv, Duration
<1>7. CASE SetOverride
  <2>1. /\ joint' = joint /\ goal' = goal /\ applied' = applied /\ target' = target
        /\ running' = running /\ ref' = ref /\ q' = q /\ speed' = speed
        /\ lag' = lag /\ stream' = stream /\ request' \in MinScale .. Full
    BY <1>7 DEF SetOverride, execVars
  <2>2. PlaceInv' /\ Places' = Places
    BY <1>0, <1>2, <2>1, KeptPlace DEF Places
  <2>3. QED
    BY <1>0, <1>1, <2>1, <2>2 DEF MotionInv, ScaleInv, StreamInv, PlanInv, Duration
<1>8. CASE SwitchMode
  <2>1. /\ joint' = joint /\ goal' = goal /\ applied' = Full /\ q' = q
        /\ speed' = speed /\ request' = request /\ lag' = lag /\ stream' = stream
        /\ ~Active /\ ~Streaming
    BY <1>8 DEF SwitchMode
  <2>2. PICK mode \in Modes : Enters(mode)
    BY <1>8 DEF SwitchMode, Modes
  <2>3. PlaceInv'
    BY <1>0, <2>1, <2>2, EntersPlace
  <2>4. QED
    BY <1>0, <1>1, <1>2, <2>1, <2>3 DEF MotionInv, ScaleInv, StreamInv, PlanInv, Active, Streaming
<1>9. CASE OpenStream
  <2>1. /\ joint' = joint /\ goal' = goal /\ applied' = applied /\ q' = q
        /\ speed' = speed /\ request' = request /\ lag' = lag
        /\ stream' = [rate |-> 0, ref |-> q] /\ ~Active
    BY <1>9 DEF OpenStream
  <2>2. PICK mode \in {"velocity", "impedance"} : Enters(mode)
    BY <1>9 DEF OpenStream
  <2>3. mode \in Modes
    BY DEF Modes, Trajectory
  <2>4. PlaceInv' /\ running' = mode
    BY <1>0, <2>1, <2>2, <2>3, EntersPlace
  <2>5. Places' = Places
    BY <2>1 DEF Places
  <2>6. stream'.rate = 0 /\ stream'.ref = q
    BY <2>1
  <2>7. StreamInv'
    BY <1>2, <2>1, <2>4, <2>5, <2>6 DEF StreamInv
  <2>8. QED
    BY <1>0, <1>1, <2>1, <2>4, <2>7 DEF MotionInv, ScaleInv, PlanInv, Active
<1>10. CASE UNCHANGED vars
  <2>1. /\ joint' = joint /\ goal' = goal /\ applied' = applied /\ target' = target
        /\ running' = running /\ ref' = ref /\ q' = q /\ speed' = speed
        /\ lag' = lag /\ stream' = stream /\ request' = request
    BY <1>10 DEF vars, execVars, motionVars
  <2>2. PlaceInv' /\ Places' = Places
    BY <1>0, <1>2, <2>1, KeptPlace DEF Places
  <2>3. QED
    BY <1>0, <1>1, <2>1, <2>2 DEF MotionInv, ScaleInv, StreamInv, PlanInv, Duration
<1>11. QED
  BY <1>3, <1>4, <1>5, <1>6, <1>7, <1>8, <1>9, <1>10

\* So every step keeps the invariant.
LEMMA NextMotion == ASSUME MotionInv, [Next]_vars PROVE MotionInv'
  BY CycleMotion, SampleMotion, StartMotion, PushMotion, OtherMotion DEF Next

\* The measurement, the references, the scales and the running goal stay
\* within their ranges, whatever is commanded and however the arm is moved.
THEOREM Types == Spec => []TypeOK
<1>1. MotionInv => TypeOK
  BY DEF MotionInv, PlaceInv, ScaleInv, PlanInv, StreamInv, TypeOK, Active, Streaming
<1>2. QED
  BY <1>1, InitMotion, NextMotion, PTL DEF Spec

\* The command never runs away from the arm (JointPositionMode::compute,
\* integrate_leashed_reference, JointImpedanceMode::compute, FloatMode::
\* compute): at most a lead away, at most a rated step further in a cycle
\* unless it is dragged closer, for every turn, limits and disturbance.
THEOREM CommandStaysClose == Spec => CommandBounded
<1> DEFINE Bounded ==
      lag' = lag + 1 =>
        /\ running = "position" => Distance(ref', q) <= MaxLead
        /\ running = "velocity" => Distance(ref', q) <= VelLead
        /\ running = "float" => Distance(ref', q) <= Band
        /\ \/ Distance(ref', ref) <= IF running = "velocity" THEN VMax ELSE StepAt(Full)
           \/ Distance(ref', q) < Distance(ref, q)
<1>1. ASSUME MotionInv, [Next]_vars PROVE [Bounded]_vars
  <2> SUFFICES ASSUME lag' = lag + 1, Next PROVE Bounded
    BY <1>1 DEF Bounded
  <2>1. lag \in Nat
    BY <1>1 DEF MotionInv, ClockInv, ClockTypes
  <2>2. Cycle
    <3>1. lag' # lag /\ lag' # 0
      BY <2>1
    <3>2. ~Push /\ ~SwitchMode /\ ~StartGoal /\ ~Cancel /\ ~Halt
      BY <3>1 DEF Push, SwitchMode, StartGoal, Cancel, Halt, motionVars
    <3>3. ~Sample /\ ~OpenStream /\ ~Setpoint /\ ~CloseStream /\ ~SetOverride
      BY <3>1 DEF Sample, OpenStream, Setpoint, CloseStream, SetOverride
    <3>4. QED
      BY <3>2, <3>3 DEF Next
  <2>3. ref' = NextRef
    BY <2>2 DEF Cycle
  <2>4. PlaceInv /\ ScaleInv /\ StreamInv
    BY <1>1 DEF MotionInv
  <2>5. QED
    BY <2>3, <2>4, ReferenceStep
<1>2. Spec => [][Bounded]_vars
  BY <1>1, InitMotion, NextMotion, PTL DEF Spec
<1>3. QED
  BY <1>2 DEF CommandBounded

\* A tick aborts a goal exactly when the arm is further from the plan than
\* its tolerance, by the shorter arc of a continuous joint and by the plain
\* difference of a bounded one; and a goal that is done leaves no velocity.
Verdict ==
  Active /\ goal' = NoGoal /\ last' \in {"done", "aborted"} =>
    /\ last' = "aborted" <=> goal.tol > 0 /\ Distance(q, target'.q) > goal.tol
    /\ last' = "done" => target'.qd = 0

THEOREM AbortsByTheArc == Spec => [][Verdict]_vars
<1>1. ASSUME MotionInv, [Next]_vars PROVE [Verdict]_vars
  <2> SUFFICES ASSUME Active, goal' = NoGoal, last' \in {"done", "aborted"}, Next
               PROVE  /\ last' = "aborted" <=> goal.tol > 0 /\ Distance(q, target'.q) > goal.tol
                      /\ last' = "done" => target'.qd = 0
    BY <1>1 DEF Verdict
  <2>1. goal # NoGoal
    BY DEF Active
  <2>2. goal' # goal
    BY <2>1
  <2>3. Sample
    <3>1. ~Cycle /\ ~Push /\ ~SwitchMode /\ ~OpenStream /\ ~Setpoint /\ ~CloseStream /\ ~SetOverride
      BY <2>2 DEF Cycle, Push, SwitchMode, OpenStream, Setpoint, CloseStream, SetOverride, execVars
    <3>2. ~Cancel /\ ~Halt
      BY DEF Cancel, Halt, Reset
    <3>3. ~StartGoal
      BY <1>1, Adopted, NoGoalAssumption
    <3>4. QED
      BY <3>1, <3>2, <3>3 DEF Next
  <2>4. Tick(q, lag, speed') /\ running' = running /\ speed' = SlewScale(speed, request, lag)
    BY <2>3 DEF Sample
  <2>5. speed' \in MinScale .. Full
    <3>1. lag \in Nat /\ speed \in MinScale .. Full /\ request \in MinScale .. Full
      BY <1>1 DEF MotionInv, ScaleInv, ClockInv, ClockTypes
    <3>2. QED
      BY <2>4, <3>1, SlewInRange
  <2>6. QED
    BY <1>1, <2>4, <2>5, TickStep
<1>2. QED
  BY <1>1, InitMotion, NextMotion, PTL DEF Spec

-----------------------------------------------------------------------------
(* A plan of one velocity is a line, and so is its motion at any scale.     *)

LEMMA ExactQuotient ==
  ASSUME NEW C \in Int, C > 0, NEW k \in Int
  PROVE  (C * k) \div C = k
<1> DEFINE n == C * k
           d == n \div C
<1>1. n \in Int /\ 0 <= 0
  OBVIOUS
<1>2. n % C = 0
  <2>1. n = C * k + 0
    BY <1>1
  <2> HIDE DEF n
  <2>2. QED
    BY <2>1, Residue
<1>3. n % C = n - C * d /\ d \in Int
  BY <1>1, Division
<1> HIDE DEF d
<1>4. C * (k - d) = 0
  BY <1>2, <1>3
<1>5. k - d >= 1 => C * (k - d) >= C
  BY <1>3, Z3
<1>6. k - d <= -1 => C * (k - d) <= -C
  BY <1>3, Z3
<1>7. d = k
  BY <1>3, <1>4, <1>5, <1>6
<1>8. QED
  BY <1>7 DEF d

\* Between two waypoints of a line the cubic is the line.
LEMMA CubicLine ==
  ASSUME NEW a \in Waypoints, NEW b \in Waypoints, NEW span \in Int, span > 0,
         NEW i \in Int, NEW N \in Int, N = span * Full, NEW w \in Int,
         a.qd = Full * w, b.qd = Full * w, b.q = a.q + Full * w * span
  PROVE  Cubic(a, b, span, i, N).q = a.q + w * i /\ Cubic(a, b, span, i, N).qd = Full * w
<1> DEFINE v == Full * w * span
           i2 == i * i
           i3 == i2 * i
           N2 == N * N
           N3 == N2 * N
           x == (2 * i3 - 3 * i2 * N + N3) * a.q + (i3 - 2 * i2 * N + i * N2) * v
                + (3 * i2 * N - 2 * i3) * b.q + (i3 - i2 * N) * v
           y == (6 * i2 - 6 * i * N) * a.q + (3 * i2 - 4 * i * N + N2) * v
                + (6 * i * N - 6 * i2) * b.q + (3 * i2 - 2 * i * N) * v
<1>0. Full \in Int /\ Full > 0 /\ a.q \in Int /\ b.q \in Int
  BY ReferenceAssumption DEF Waypoints
<1>1. N > 0 /\ N2 \in Int /\ N2 > 0
  <2>1. N > 0
    BY <1>0, ProductPositive
  <2>2. QED
    BY <2>1, ProductPositive
<1>2. N3 \in Int /\ N3 > 0 /\ N2 * span \in Int /\ N2 * span > 0
  <2> HIDE DEF N2
  <2>1. QED
    BY <1>1, ProductPositive
<1>3. v \in Int /\ i2 \in Int /\ i3 \in Int
  BY <1>0
<1>4. v = w * N /\ b.q = a.q + v
  BY <1>0
<1>5. Cubic(a, b, span, i, N) = [q |-> x \div N3, qd |-> y \div (N2 * span), profiled |-> TRUE]
  BY DEF Cubic
<1>6. x = N3 * (a.q + w * i)
  <2>1. PICK aq \in Int : aq = a.q
    BY <1>0
  <2>2. x = (2 * i3 - 3 * i2 * N + N3) * aq + (i3 - 2 * i2 * N + i * N2) * v
                + (3 * i2 * N - 2 * i3) * (aq + v) + (i3 - i2 * N) * v
    BY <1>4, <2>1
  <2>3. x = N3 * aq + (i * N2) * v
    <3> HIDE DEF v, x
    <3>1. QED
      BY <1>3, <2>2, Z3
  <2>4. (i * N2) * (w * N) = N3 * (w * i)
    BY Z3
  <2>5. N3 * aq + N3 * (w * i) = N3 * (aq + w * i)
    BY Z3
  <2> HIDE DEF x, v, N3, N2
  <2>6. QED
    BY <1>4, <2>1, <2>3, <2>4, <2>5
<1>7. y = (N2 * span) * (Full * w)
  <2>1. PICK aq \in Int : aq = a.q
    BY <1>0
  <2>2. y = (6 * i2 - 6 * i * N) * aq + (3 * i2 - 4 * i * N + N2) * v
                + (6 * i * N - 6 * i2) * (aq + v) + (3 * i2 - 2 * i * N) * v
    BY <1>4, <2>1
  <2>3. y = N2 * v
    <3> HIDE DEF v, y
    <3>1. QED
      BY <1>3, <2>2, Z3
  <2>4. N2 * v = (N2 * span) * (Full * w)
    BY <1>0, Z3
  <2>5. QED
    BY <2>3, <2>4
<1> HIDE DEF x, y, N3, N2
<1>8. x \div N3 = a.q + w * i
  <2>1. a.q + w * i \in Int
    BY <1>0
  <2>2. QED
    BY <1>2, <1>6, <2>1, ExactQuotient
<1>9. y \div (N2 * span) = Full * w
  <2>1. Full * w \in Int
    BY <1>0
  <2>2. QED
    BY <1>2, <1>7, <2>1, ExactQuotient
<1>10. QED
  BY <1>5, <1>8, <1>9

\* And the quintic, whose accelerations are none.
LEMMA QuinticLine ==
  ASSUME NEW a \in Waypoints, NEW b \in Waypoints, NEW span \in Int, span > 0,
         NEW i \in Int, NEW N \in Int, N = span * Full, NEW w \in Int,
         a.qd = Full * w, b.qd = Full * w, b.q = a.q + Full * w * span,
         a.qdd = 0, b.qdd = 0
  PROVE  Quintic(a, b, span, i, N).q = a.q + w * i /\ Quintic(a, b, span, i, N).qd = Full * w
<1> DEFINE v0 == a.qd * span
           v1 == b.qd * span
           a0 == a.qdd * span * span
           a1 == b.qdd * span * span
           d == b.q - a.q
           c3 == 20 * d - 12 * v0 - 8 * v1 - 3 * a0 + a1
           c4 == -30 * d + 16 * v0 + 14 * v1 + 3 * a0 - 2 * a1
           c5 == 12 * d - 6 * v0 - 6 * v1 - a0 + a1
           N4 == N * N * N * N
           x == (((((c5 * i + c4 * N) * i + c3 * N * N) * i + a0 * N * N * N) * i
                 + 2 * v0 * N4) * i) + 2 * a.q * N4 * N
           y == (((5 * c5 * i + 4 * c4 * N) * i + 3 * c3 * N * N) * i + 2 * a0 * N * N * N) * i
                 + 2 * v0 * N4
<1>0. Full \in Int /\ Full > 0 /\ a.q \in Int /\ b.q \in Int
  BY ReferenceAssumption DEF Waypoints
<1>1. N > 0 /\ N4 \in Int /\ N4 > 0
  <2>1. N > 0
    BY <1>0, ProductPositive
  <2>2. PICK n2 \in Int : n2 = N * N /\ n2 > 0
    BY <2>1, ProductPositive
  <2>3. PICK n3 \in Int : n3 = n2 * N /\ n3 > 0
    BY <2>1, <2>2, ProductPositive
  <2>4. n3 * N \in Int /\ n3 * N > 0
    BY <2>1, <2>3, ProductPositive
  <2>5. QED
    BY <2>1, <2>2, <2>3, <2>4
<1>2. 2 * N4 * N \in Int /\ 2 * N4 * N > 0 /\ 2 * N4 * span \in Int /\ 2 * N4 * span > 0
  <2> HIDE DEF N4
  <2>1. PICK m \in Int : m = 2 * N4 /\ m > 0
    BY <1>1
  <2>2. m * N \in Int /\ m * N > 0 /\ m * span \in Int /\ m * span > 0
    BY <1>1, <2>1, ProductPositive
  <2>3. QED
    BY <2>1, <2>2
<1>3. /\ v0 \in Int /\ v0 = Full * w * span /\ v0 = w * N
      /\ v1 = v0 /\ d = v0 /\ a0 = 0 /\ a1 = 0
  BY <1>0
<1>4. c3 = 0 /\ c4 = 0 /\ c5 = 0
  <2>1. PICK v \in Int : v = v0
    BY <1>3
  <2>2. v0 = v /\ v1 = v /\ d = v /\ a0 = 0 /\ a1 = 0
    BY <1>3, <2>1
  <2> HIDE DEF v0, v1, a0, a1, d
  <2>3. c3 = 20 * v - 12 * v - 8 * v - 3 * 0 + 0
    BY <2>2
  <2>4. c4 = -30 * v + 16 * v + 14 * v + 3 * 0 - 2 * 0
    BY <2>2
  <2>5. c5 = 12 * v - 6 * v - 6 * v - 0 + 0
    BY <2>2
  <2> HIDE DEF c3, c4, c5
  <2>6. QED
    BY <2>1, <2>3, <2>4, <2>5
<1>5. Quintic(a, b, span, i, N)
        = [q |-> x \div (2 * N4 * N), qd |-> y \div (2 * N4 * span), profiled |-> TRUE]
  BY DEF Quintic
<1> HIDE DEF v0, v1, a0, a1, d, c3, c4, c5, N4
<1>6. x = 2 * v0 * N4 * i + 2 * a.q * N4 * N
  BY <1>0, <1>1, <1>3, <1>4
<1>7. y = 2 * v0 * N4
  BY <1>1, <1>3, <1>4
<1> HIDE DEF x, y
<1>8. x = (2 * N4 * N) * (a.q + w * i)
  <2>1. PICK aq \in Int : aq = a.q
    BY <1>0
  <2>2. 2 * (w * N) * N4 * i + 2 * aq * N4 * N = (2 * N4 * N) * (aq + w * i)
    BY <1>1, Z3
  <2>3. QED
    BY <1>3, <1>6, <2>1, <2>2
<1>9. y = (2 * N4 * span) * (Full * w)
  <2>1. 2 * (Full * w * span) * N4 = (2 * N4 * span) * (Full * w)
    BY <1>0, <1>1, Z3
  <2>2. QED
    BY <1>3, <1>7, <2>1
<1>10. x \div (2 * N4 * N) = a.q + w * i
  <2>1. a.q + w * i \in Int
    BY <1>0
  <2>2. QED
    BY <1>2, <1>8, <2>1, ExactQuotient
<1>11. y \div (2 * N4 * span) = Full * w
  <2>1. Full * w \in Int
    BY <1>0
  <2>2. QED
    BY <1>2, <1>9, <2>1, ExactQuotient
<1>12. QED
  BY <1>5, <1>10, <1>11

\* The waypoints of a uniform plan are on a line.
LEMMA LineKnots ==
  ASSUME NEW plan \in Plans, plan.points # << >>, Uniform(plan)
  PROVE  \A k \in DOMAIN plan.points :
           /\ plan.points[k].qd = plan.points[1].qd /\ plan.points[k].qdd = 0
           /\ plan.points[k].q = plan.points[1].q
                + plan.points[1].qd * (plan.points[k].t - plan.points[1].t)
<1> DEFINE p == plan.points
           On(k) == p[k].q = p[1].q + p[1].qd * (p[k].t - p[1].t)
           T == {k \in DOMAIN p : ~On(k)}
<1>1. p \in Seq(Waypoints)
  BY DEF Plans, Waypoints
<1>2. Len(p) \in Nat \ {0} /\ DOMAIN p = 1 .. Len(p) /\ 1 \in DOMAIN p
  BY <1>1
<1>3. \A k \in DOMAIN p : p[k].q \in Int /\ p[k].qd \in Int /\ p[k].t \in Int
  <2>1. \A k \in DOMAIN p : p[k] \in Waypoints
    BY <1>1
  <2>2. QED
    BY <2>1 DEF Waypoints
<1>4. /\ \A k \in DOMAIN p : p[k].qd = p[1].qd /\ p[k].qdd = 0
      /\ \A k \in 2 .. Len(p) : p[k].q - p[k - 1].q = p[1].qd * (p[k].t - p[k - 1].t)
  BY DEF Uniform
<1>5. T = {}
  <2>1. SUFFICES ASSUME T # {} PROVE FALSE
    OBVIOUS
  <2>2. T \subseteq Nat
    BY <1>2
  <2>3. PICK n \in T : \A m \in T : n <= m
    <3> HIDE DEF T
    <3>1. QED
      BY <2>1, <2>2, LeastElement
  <2>4. n \in DOMAIN p /\ ~On(n) /\ n # 1
    <3>1. On(1)
      <4>1. p[1].t - p[1].t = 0 /\ p[1].qd * 0 = 0
        BY <1>2, <1>3
      <4>2. QED
        BY <1>2, <1>3, <4>1
    <3>2. QED
      BY <2>3, <3>1
  <2>5. n - 1 \in DOMAIN p /\ n \in 2 .. Len(p)
    BY <1>2, <2>4
  <2>6. On(n - 1)
    <3>1. n - 1 \notin T
      BY <1>2, <2>3, <2>4
    <3>2. QED
      BY <2>5, <3>1
  <2>7. p[n].q - p[n - 1].q = p[1].qd * (p[n].t - p[n - 1].t)
    BY <1>4, <2>5
  <2>8. PICK Q1, V, T1, Qa, Ta, Qb, Tb \in Int :
          /\ Q1 = p[1].q /\ V = p[1].qd /\ T1 = p[1].t
          /\ Qa = p[n - 1].q /\ Ta = p[n - 1].t /\ Qb = p[n].q /\ Tb = p[n].t
    BY <1>2, <1>3, <2>4, <2>5
  <2>9. Qa = Q1 + V * (Ta - T1) /\ Qb - Qa = V * (Tb - Ta) /\ ~(Qb = Q1 + V * (Tb - T1))
    BY <2>4, <2>6, <2>7, <2>8
  <2>10. V * (Ta - T1) + V * (Tb - Ta) = V * (Tb - T1)
    BY Z3
  <2>11. V * (Ta - T1) \in Int /\ V * (Tb - Ta) \in Int /\ V * (Tb - T1) \in Int
    OBVIOUS
  <2>12. QED
    BY <2>9, <2>10, <2>11
<1>6. QED
  BY <1>4, <1>5

\* So every sample of it is, with the plan's velocity.
LEMMA SampleLine ==
  ASSUME NEW plan \in Plans, plan.points # << >>, Uniform(plan), plan.order # "linear",
         NEW w \in Int, plan.points[1].qd = Full * w,
         NEW time \in Int, plan.points[1].t * Full <= time, time < Duration(plan)
  PROVE  /\ SampleTarget(plan, time).q = plan.points[1].q + w * (time - plan.points[1].t * Full)
         /\ plan.points[1].t * Full < time => SampleTarget(plan, time).qd = Full * w
<1> DEFINE p == plan.points
<1>1. p \in Seq(Waypoints)
  BY DEF Plans, Waypoints
<1>2. 1 \in DOMAIN p
  BY <1>1
<1>3. \A k \in DOMAIN p : p[k] \in Waypoints
  BY <1>1
<1>4. Full \in Int /\ Full > 0
  BY ReferenceAssumption
<1>5. p[1].q \in Int /\ p[1].t \in Int /\ p[1].t * Full \in Int
  BY <1>2, <1>3, <1>4 DEF Waypoints
<1>6. CASE time = p[1].t * Full
  <2>1. SampleTarget(plan, time) = Held(plan, p[1].q)
    BY <1>5, <1>6 DEF SampleTarget
  <2>2. SampleTarget(plan, time).q = p[1].q
    BY <2>1 DEF Held
  <2>3. time - p[1].t * Full = 0 /\ w * 0 = 0
    BY <1>5, <1>6
  <2>4. QED
    BY <1>5, <1>6, <2>2, <2>3
<1>7. CASE p[1].t * Full < time
  <2>1. PICK k \in DOMAIN p :
          /\ k - 1 \in DOMAIN p
          /\ p[k].t - p[k - 1].t > 0
          /\ LET a == p[k - 1]
                 b == p[k]
                 span == b.t - a.t
                 i == time - a.t * Full
                 N == span * Full
             IN  SampleTarget(plan, time) =
                   IF plan.order = "linear" THEN Held(plan, a.q + ((b.q - a.q) * i) \div N)
                   ELSE IF plan.order = "cubic" THEN Cubic(a, b, span, i, N)
                   ELSE Quintic(a, b, span, i, N)
    BY <1>7, SegmentSample, Zenon
  <2> DEFINE a == p[k - 1]
             b == p[k]
             span == b.t - a.t
             i == time - a.t * Full
             N == span * Full
             s == SampleTarget(plan, time)
  <2>2. span > 0 /\ (s = Cubic(a, b, span, i, N) \/ s = Quintic(a, b, span, i, N))
    BY <2>1, Zenon
  <2>3. a \in Waypoints /\ b \in Waypoints
    BY <1>3, <2>1
  <2>4. /\ a.qd = Full * w /\ b.qd = Full * w /\ a.qdd = 0 /\ b.qdd = 0
        /\ a.q = p[1].q + (Full * w) * (a.t - p[1].t) /\ b.q = p[1].q + (Full * w) * (b.t - p[1].t)
    BY <2>1, LineKnots
  <2> HIDE DEF a, b
  <2>5. a.t \in Int /\ b.t \in Int /\ a.q \in Int /\ b.q \in Int
    BY <2>3 DEF Waypoints
  <2>6. PICK Q1, T1, Ta, Tb \in Int : Q1 = p[1].q /\ T1 = p[1].t /\ Ta = a.t /\ Tb = b.t
    BY <1>5, <2>5
  <2>7. b.q = a.q + Full * w * span
    <3>1. (Full * w) * (Tb - T1) = (Full * w) * (Ta - T1) + Full * w * (Tb - Ta)
      BY <1>4, Z3
    <3>2. (Full * w) * (Ta - T1) \in Int /\ Full * w * (Tb - Ta) \in Int
      BY <1>4
    <3>3. QED
      BY <2>4, <2>6, <3>1, <3>2
  <2>8. span \in Int /\ i \in Int /\ N \in Int /\ N = span * Full
    BY <1>4, <2>5
  <2>9. a.q + w * i = p[1].q + w * (time - p[1].t * Full)
    <3>1. (Full * w) * (Ta - T1) + w * (time - Ta * Full) = w * (time - T1 * Full)
      BY <1>4, Z3
    <3>2. (Full * w) * (Ta - T1) \in Int /\ w * (time - Ta * Full) \in Int
      BY <1>4
    <3>3. QED
      BY <2>4, <2>6, <3>1, <3>2
  <2> HIDE DEF span, i, N, s
  <2>10. s.q = a.q + w * i /\ s.qd = Full * w
    BY <2>2, <2>3, <2>4, <2>7, <2>8, CubicLine, QuinticLine
  <2>11. QED
    BY <2>9, <2>10 DEF s
<1>8. QED
  BY <1>5, <1>6, <1>7

\* What a goal's next tick starts from: its plan is on the grid, and the
\* target is the sample of the last tick; no stream has written over it.
OnGrid(plan) ==
  plan.order # "linear" /\ Uniform(plan) => plan.points[1].qd % Full = 0
LineInv ==
  /\ goal # NoGoal => stream = NoStream /\ OnGrid(goal.plan)
  /\ goal # NoGoal /\ goal.started => target.q = SampleTarget(goal.plan, goal.time).q

\* To move a plan leaves its velocities and its differences.
LEMMA PlannedOnGrid ==
  ASSUME PlaceInv, NEW shape \in Shapes, NEW turn \in Int,
         Planned(shape, turn).points # << >>
  PROVE  OnGrid(Planned(shape, turn))
<1> DEFINE p == shape.points
           m == Planned(shape, turn).points
<1>1. /\ shape \in Plans /\ q \in Int /\ turn * 2 * Half \in Int
  BY MotionAssumption, PlacesAreInt, Numbers DEF PlaceInv
<1>2. p \in Seq(Waypoints) /\ shape = [order |-> shape.order, points |-> p]
  BY <1>1 DEF Plans
<1>3. PICK by \in Int : by = q + turn * 2 * Half
  BY <1>1
<1>4. m = [k \in DOMAIN p |-> [p[k] EXCEPT !.q = @ + q + turn * 2 * Half]]
      /\ Planned(shape, turn).order = shape.order
  BY <1>2 DEF Planned
<1>5. DOMAIN m = DOMAIN p /\ DOMAIN p = 1 .. Len(p) /\ Len(p) \in Nat
  BY <1>2, <1>4
<1>6. ASSUME NEW k \in DOMAIN p
      PROVE  /\ m[k].q = p[k].q + by /\ m[k].qd = p[k].qd /\ m[k].t = p[k].t
             /\ m[k].qdd = p[k].qdd /\ p[k].q \in Int
  <2>1. p[k] \in Waypoints
    BY <1>2
  <2>2. p[k].q \in Int /\ p[k].q + q + turn * 2 * Half = p[k].q + by
    BY <1>1, <1>3, <2>1 DEF Waypoints
  <2>3. m[k] = [p[k] EXCEPT !.q = p[k].q + by]
    BY <1>4, <2>2
  <2>4. QED
    BY <2>1, <2>2, <2>3 DEF Waypoints
<1>7. SUFFICES ASSUME shape.order # "linear", Uniform(Planned(shape, turn))
               PROVE  m[1].qd % Full = 0
  BY <1>4 DEF OnGrid
<1>8. Len(m) = Len(p) /\ p # << >> /\ 1 \in DOMAIN p
  <2>1. Planned(shape, turn) \in Plans
    BY <1>1, PlannedTyped
  <2>2. m \in Seq(Waypoints)
    BY <2>1 DEF Plans
  <2>3. DOMAIN m = 1 .. Len(m) /\ Len(m) \in Nat /\ Len(m) # 0
    BY <2>2
  <2> HIDE DEF m
  <2>4. Len(m) = Len(p)
    BY <1>5, <2>3
  <2>5. QED
    BY <1>5, <2>3, <2>4
<1>9. Uniform(shape)
  <2>1. /\ \A k \in DOMAIN m : m[k].qd = m[1].qd /\ m[k].qdd = 0
        /\ \A k \in 2 .. Len(m) : m[k].q - m[k - 1].q = m[1].qd * (m[k].t - m[k - 1].t)
    BY <1>7 DEF Uniform
  <2> HIDE DEF m
  <2>2. \A k \in DOMAIN p : p[k].qd = p[1].qd /\ p[k].qdd = 0
    BY <1>5, <1>6, <1>8, <2>1
  <2>3. ASSUME NEW k \in 2 .. Len(p)
        PROVE  p[k].q - p[k - 1].q = p[1].qd * (p[k].t - p[k - 1].t)
    <3>1. k \in DOMAIN p /\ k - 1 \in DOMAIN p
      BY <1>5
    <3>2. m[k].q - m[k - 1].q = m[1].qd * (m[k].t - m[k - 1].t)
      BY <1>8, <2>1
    <3>3. /\ m[k].q = p[k].q + by /\ m[k - 1].q = p[k - 1].q + by
          /\ p[k].q \in Int /\ p[k - 1].q \in Int
          /\ m[1].qd = p[1].qd /\ m[k].t = p[k].t /\ m[k - 1].t = p[k - 1].t
      BY <1>6, <1>8, <3>1
    <3>4. m[k].q - m[k - 1].q = p[k].q - p[k - 1].q
      BY <1>3, <3>3
    <3>5. QED
      BY <3>2, <3>3, <3>4
  <2>4. QED
    BY <2>2, <2>3 DEF Uniform
<1>10. p[1].qd % Full = 0
  BY <1>7, <1>8, <1>9, GridAssumption
<1>11. QED
  BY <1>6, <1>8, <1>10

\* A tick that does not end the goal: how far the clock runs, and the target.
LEMMA TickAdvance ==
  ASSUME MotionInv, Active, NEW now \in MinScale .. Full, Tick(q, lag, now), goal' # NoGoal
  PROVE  \E scale \in MinScale .. Full :
           LET sampled == SampleTarget(goal.plan, goal'.time)
           IN  /\ goal'.plan = goal.plan /\ goal'.started
               /\ goal'.time = goal.time + (IF goal.started THEN lag * scale ELSE 0)
               /\ goal'.time \in Int /\ goal'.time < Duration(goal.plan)
               /\ target'.q = sampled.q /\ target'.qd = (sampled.qd * scale) \div Full
               /\ target'.profiled = sampled.profiled
<1> DEFINE scale == EffectiveScale(goal.scale, now)
           time == goal.time + (IF goal.started THEN lag * scale ELSE 0)
           sampled == SampleTarget(goal.plan, time)
<1>1. /\ goal.plan \in Plans /\ goal.plan.points # << >>
      /\ goal.time \in Nat /\ goal.started \in BOOLEAN /\ goal.scale \in MinScale .. Full
      /\ lag \in Nat
      /\ goal = [plan |-> goal.plan, mode |-> goal.mode, tol |-> goal.tol,
                 scale |-> goal.scale, time |-> goal.time, started |-> goal.started]
  BY DEF MotionInv, ClockInv, PlanInv, ClockTypes, Active
<1>2. scale \in MinScale .. Full /\ scale \in Int
  BY <1>1, Numbers, EffectiveInRange
<1>3. time \in Int
  <2> HIDE DEF scale
  <2>1. lag * scale \in Int
    BY <1>1, <1>2
  <2>2. QED
    BY <1>1, <2>1
<1>4. /\ target' = Scaled(sampled, scale)
      /\ ~(time >= Duration(goal.plan)) /\ goal' = [goal EXCEPT !.time = time, !.started = TRUE]
  BY Zenon DEF Tick
<1>5. sampled \in Targets
  <2> HIDE DEF time
  <2>1. QED
    BY <1>1, <1>3, SampleTyped
<1>6. Duration(goal.plan) \in Int
  <2> DEFINE p == goal.plan.points
  <2>1. p \in Seq(Waypoints)
    BY <1>1 DEF Plans
  <2>2. p[Len(p)] \in Waypoints
    BY <1>1, <2>1
  <2>3. QED
    BY <2>2, Numbers DEF Duration, Waypoints
<1> HIDE DEF scale, time, sampled
<1>7. goal'.plan = goal.plan /\ goal'.started /\ goal'.time = time
  BY <1>1, <1>4
<1>8. /\ target'.q = sampled.q /\ target'.qd = (sampled.qd * scale) \div Full
      /\ target'.profiled = sampled.profiled
  BY <1>4, <1>5 DEF Scaled, Targets
<1>9. time < Duration(goal.plan)
  BY <1>3, <1>4, <1>6
<1>10. QED
  BY <1>2, <1>3, <1>7, <1>8, <1>9 DEF time, sampled

LEMMA SampleScale == ASSUME MotionInv, Sample PROVE speed' \in MinScale .. Full
<1>1. /\ lag \in Nat /\ speed \in MinScale .. Full /\ request \in MinScale .. Full
      /\ speed' = SlewScale(speed, request, lag)
  BY DEF MotionInv, ScaleInv, ClockInv, ClockTypes, Sample
<1>2. QED
  BY <1>1, SlewInRange

LEMMA NextLine == ASSUME MotionInv, LineInv, [Next]_vars PROVE LineInv'
<1>1. CASE Sample /\ Active
  <2>1. Tick(q, lag, speed') /\ stream' = stream
    BY <1>1 DEF Sample
  <2>2. CASE goal' = NoGoal
    BY <2>2 DEF LineInv
  <2>3. CASE goal' # NoGoal
    <3>1. /\ goal'.plan = goal.plan
          /\ target'.q = SampleTarget(goal.plan, goal'.time).q
      BY <1>1, <2>1, <2>3, SampleScale, TickAdvance, Zenon
    <3>2. stream' = NoStream /\ OnGrid(goal'.plan)
      BY <1>1, <2>1, <3>1 DEF LineInv, Active
    <3>3. target'.q = SampleTarget(goal'.plan, goal'.time).q
      BY <3>1
    <3>4. QED
      BY <3>2, <3>3 DEF LineInv, OnGrid, Uniform, SampleTarget, Held, Duration, Cubic, Quintic
  <2>4. QED
    BY <2>2, <2>3
<1>2. CASE StartGoal
  <2>1. goal'.started = FALSE /\ goal'.plan.points # << >>
    BY <1>2, Adopted
  <2>2. PICK shape \in Shapes, turn \in (IF joint = "continuous" THEN Branches ELSE {0}) :
          goal'.plan = Planned(shape, turn)
    BY <1>2 DEF StartGoal, Submit
  <2>3. turn \in Int /\ PlaceInv
    BY MotionAssumption DEF MotionInv
  <2>4. OnGrid(goal'.plan)
    BY <2>1, <2>2, <2>3, PlannedOnGrid
  <2>5. stream' = NoStream
    BY <1>2 DEF StartGoal, Streaming
  <2>6. QED
    BY <2>1, <2>4, <2>5 DEF LineInv, OnGrid, Uniform
<1>3. CASE Cycle \/ Push \/ SetOverride \/ UNCHANGED vars
  <2>1. goal' = goal /\ stream' = stream /\ target' = target
    BY <1>3 DEF Cycle, Push, SetOverride, vars, motionVars, execVars
  <2>2. QED
    BY <2>1 DEF LineInv, OnGrid, Uniform, SampleTarget, Held, Duration, Cubic, Quintic
<1>4. CASE Cancel \/ Halt
  <2>1. goal' = NoGoal
    BY <1>4 DEF Cancel, Halt, Reset
  <2>2. QED
    BY <2>1 DEF LineInv
<1>5. CASE (Sample /\ ~Active) \/ SwitchMode \/ OpenStream \/ Setpoint \/ CloseStream
  <2>1. goal = NoGoal
    BY <1>5 DEF SwitchMode, OpenStream, Setpoint, CloseStream, Active, Streaming, LineInv
  <2>2. goal' = goal
    BY <1>5 DEF Sample, Integrate, SwitchMode, OpenStream, Setpoint, CloseStream, execVars
  <2>3. QED
    BY <2>1, <2>2 DEF LineInv
<1>6. QED
  BY <1>1, <1>2, <1>3, <1>4, <1>5 DEF Next

\* The velocity that is fed forward is the motion commanded
\* (TrajectoryExecutor::tick): along a plan of one velocity the target moves
\* by it from one sample to the next, at every scale and lag, and a goal that
\* is done leaves none.
THEOREM FeedsTheMotion == Spec => FeedforwardIsTheMotion
<1> DEFINE Uniformly == Active /\ goal' # NoGoal /\ goal'.time > goal.time /\ goal'.plan = goal.plan
                        /\ goal.time >= goal.plan.points[1].t * Full /\ Uniform(goal.plan)
                        /\ target'.profiled
           Fed == /\ Uniformly => target'.q - target.q = lag * target'.qd
                  /\ last' = "done" /\ last # "done" => target'.qd = 0
<1>1. ASSUME MotionInv, LineInv, [Next]_vars PROVE [Fed]_vars
  <2> SUFFICES ASSUME Next PROVE Fed
    BY <1>1 DEF Fed
  <2>1. ASSUME last' = "done", last # "done" PROVE target'.qd = 0
    <3>1. Sample
      <4>1. last' # last
        BY <2>1
      <4>2. ~Cycle /\ ~Push /\ ~SwitchMode /\ ~OpenStream /\ ~Setpoint /\ ~CloseStream
            /\ ~SetOverride /\ ~StartGoal
        BY <4>1 DEF Cycle, Push, SwitchMode, OpenStream, Setpoint, CloseStream, SetOverride,
                    StartGoal, Submit, execVars
      <4>3. ~Cancel /\ ~Halt
        BY <2>1 DEF Cancel, Halt, Reset
      <4>4. QED
        BY <4>2, <4>3 DEF Next
    <3>2. Active /\ Tick(q, lag, speed')
      <4>1. ~Active => last' = last
        BY <3>1 DEF Sample, Integrate, execVars
      <4>2. QED
        BY <2>1, <3>1, <4>1 DEF Sample
    <3>3. goal' = NoGoal
      <4>1. last' # last
        BY <2>1
      <4>2. QED
        BY <3>2, <4>1, Zenon DEF Tick
    <3>4. running' = running /\ speed' \in MinScale .. Full
      BY <1>1, <3>1, SampleScale DEF Sample
    <3>5. QED
      BY <1>1, <2>1, <3>2, <3>3, <3>4, TickStep
  <2>2. ASSUME Uniformly PROVE target'.q - target.q = lag * target'.qd
    <3> DEFINE p == goal.plan.points
    <3>1. /\ goal # NoGoal /\ goal' # NoGoal /\ goal'.time > goal.time
          /\ goal.time >= p[1].t * Full /\ Uniform(goal.plan)
      BY <2>2 DEF Active
    <3>2. /\ goal.time \in Nat /\ goal.plan \in Plans /\ p # << >> /\ lag \in Nat
          /\ goal.started \in BOOLEAN /\ PlaceInv
          /\ goal.started => goal.time < Duration(goal.plan)
      BY <1>1, <3>1 DEF MotionInv, ClockInv, ClockTypes, PlanInv
    <3>3. Sample
      <4>1. ~StartGoal
        <5>1. StartGoal => goal'.time = 0
          BY DEF StartGoal, Submit
        <5>2. QED
          BY <3>1, <3>2, <5>1
      <4>2. goal' # goal
        BY <3>1, <3>2
      <4>3. ~Cycle /\ ~Push /\ ~SwitchMode /\ ~OpenStream /\ ~Setpoint /\ ~CloseStream /\ ~SetOverride
        BY <4>2 DEF Cycle, Push, SwitchMode, OpenStream, Setpoint, CloseStream, SetOverride, execVars
      <4>4. ~Cancel /\ ~Halt
        BY <3>1 DEF Cancel, Halt, Reset
      <4>5. QED
        BY <4>1, <4>3, <4>4 DEF Next
    <3>4. Tick(q, lag, speed')
      BY <3>1, <3>3 DEF Sample, Active
    <3>5. PICK scale \in MinScale .. Full :
            LET sampled == SampleTarget(goal.plan, goal'.time)
            IN  /\ goal'.plan = goal.plan /\ goal'.started
                /\ goal'.time = goal.time + (IF goal.started THEN lag * scale ELSE 0)
                /\ goal'.time \in Int /\ goal'.time < Duration(goal.plan)
                /\ target'.q = sampled.q /\ target'.qd = (sampled.qd * scale) \div Full
                /\ target'.profiled = sampled.profiled
      BY <1>1, <3>1, <3>3, <3>4, SampleScale, TickAdvance DEF Active
    <3> DEFINE time == goal'.time
               sampled == SampleTarget(goal.plan, time)
    <3>6. /\ time \in Int /\ time < Duration(goal.plan) /\ time > goal.time
          /\ target'.q = sampled.q /\ target'.qd = (sampled.qd * scale) \div Full
          /\ sampled.profiled
      BY <2>2, <3>1, <3>5
    <3>7. goal.started /\ time = goal.time + lag * scale
      BY <3>1, <3>2, <3>5
    <3>8. target.q = SampleTarget(goal.plan, goal.time).q
      BY <1>1, <3>1, <3>7 DEF LineInv
    <3>9. goal.plan.order # "linear"
      <4>1. SUFFICES ASSUME goal.plan.order = "linear" PROVE FALSE
        OBVIOUS
      <4>2. \E x : sampled = Held(goal.plan, x)
        BY <4>1, Zenon DEF SampleTarget
      <4>3. \A x : Held(goal.plan, x).profiled = FALSE
        BY <4>1 DEF Held
      <4> HIDE DEF sampled
      <4>4. QED
        BY <3>6, <4>2, <4>3
    <3>10. Full \in Int /\ Full > 0 /\ scale \in Int
      BY Numbers
    <3>11. p[1].q \in Int /\ p[1].qd \in Int /\ p[1].t \in Int /\ p[1].t * Full \in Int
      <4>1. p \in Seq(Waypoints)
        BY <3>2 DEF Plans
      <4>2. p[1] \in Waypoints
        BY <3>2, <4>1
      <4>3. QED
        BY <3>10, <4>2 DEF Waypoints
    <3>12. PICK w \in Int : p[1].qd = Full * w
      <4>1. p[1].qd % Full = 0
        BY <1>1, <3>1, <3>9 DEF LineInv, OnGrid
      <4>2. p[1].qd \div Full \in Int /\ p[1].qd % Full = p[1].qd - Full * (p[1].qd \div Full)
        BY <3>10, <3>11, Division
      <4>3. p[1].qd = Full * (p[1].qd \div Full)
        BY <3>10, <3>11, <4>1, <4>2
      <4>4. QED
        BY <4>2, <4>3
    <3>13. target.q = p[1].q + w * (goal.time - p[1].t * Full)
      <4>1. PICK t0 \in Int : t0 = goal.time
        BY <3>2
      <4>2. p[1].t * Full <= t0 /\ t0 < Duration(goal.plan)
        BY <3>1, <3>2, <3>7, <3>11, <4>1
      <4>3. p # << >> /\ goal.plan \in Plans /\ Uniform(goal.plan)
        BY <3>1, <3>2
      <4> HIDE DEF p
      <4>4. SampleTarget(goal.plan, t0).q = p[1].q + w * (t0 - p[1].t * Full)
        BY <3>9, <3>12, <4>1, <4>2, <4>3, SampleLine DEF p
      <4>5. QED
        BY <3>8, <4>1, <4>4
    <3>14. sampled.q = p[1].q + w * (time - p[1].t * Full) /\ sampled.qd = Full * w
      <4>1. p[1].t * Full < time
        BY <3>1, <3>2, <3>6, <3>11
      <4> HIDE DEF p, time
      <4>2. p[1].t * Full <= time
        BY <3>6, <3>11, <4>1
      <4>3. QED
        BY <3>1, <3>2, <3>6, <3>9, <3>11, <3>12, <4>1, <4>2, SampleLine DEF p
    <3>15. target'.qd = w * scale
      <4>1. (Full * w) * scale = Full * (w * scale) /\ w * scale \in Int
        BY <3>10, Z3
      <4>2. (Full * (w * scale)) \div Full = w * scale
        BY <3>10, <4>1, ExactQuotient
      <4>3. QED
        BY <3>6, <3>14, <4>1, <4>2
    <3>16. w * (time - p[1].t * Full) - w * (goal.time - p[1].t * Full) = lag * (w * scale)
      <4>1. PICK t0, t1, d \in Int : t0 = goal.time /\ t1 = p[1].t * Full /\ d = lag
        BY <3>2, <3>11
      <4>2. w * (t0 + d * scale - t1) - w * (t0 - t1) = d * (w * scale)
        BY <3>10, Z3
      <4>3. QED
        BY <3>7, <4>1, <4>2
    <3>17. w * (time - p[1].t * Full) \in Int /\ w * (goal.time - p[1].t * Full) \in Int
      BY <3>2, <3>6, <3>11
    <3>18. QED
      BY <3>6, <3>11, <3>13, <3>14, <3>15, <3>16, <3>17
  <2>3. QED
    BY <2>1, <2>2
<1>2. Init => LineInv
  BY DEF Init, LineInv
<1>3. Spec => [][Fed]_vars
  BY <1>1, <1>2, InitMotion, NextMotion, NextLine, PTL DEF Spec
<1>4. QED
  BY <1>3 DEF FeedforwardIsTheMotion
=============================================================================
