--------------------------- MODULE RtExecutorProofs ---------------------------
(***************************************************************************)
(* Theorems about RtExecutor and its ContactMonitor, for every set of       *)
(* modes, joints and limits, detection enforced or only observed.           *)
(***************************************************************************)
EXTENDS RtExecutor, FiniteSetTheorems, TLAPS

-----------------------------------------------------------------------------
(* The loop and the contact stop.                                           *)

\* What cmd and active are when nothing is left to be switched.
Settled ==
  /\ latched => active = OnContact
  /\ active # NoMode => cmd = active
  /\ cmd # "freeze"

\* The contact mode waits for the next boundary, which nothing can defer.
SwitchDue == latched /\ active # OnContact /\ misses = 0

ModesTyped == requested \in Mode \cup {NoMode} /\ active \in Mode \cup {NoMode}

\* A boundary is reached settled or with the switch due, an exchange settled.
StopInv ==
  /\ ModesTyped
  /\ pc = "seed" => active = NoMode /\ cmd = "zero"
  /\ pc = "boundary" => Settled \/ SwitchDue
  /\ pc = "exchange" => Settled
  /\ pc \in {"boundary", "exchange"} /\ active # NoMode => actuators = Required[active]

\* It holds before the loop starts.
LEMMA StopInvInit == Init => StopInv
  BY DEF Init, StopInv, ModesTyped

\* A step of the monitor raises the latch on a good sample only.
LEMMA SkippedLatch == ASSUME StepSkipped PROVE latched' => latched
  BY DEF StepSkipped, Still

\* The mode step 3 adopts is a mode, and the contact mode under the latch.
LEMMA AdoptsAMode ==
  ASSUME ModesTyped, ToAdopt # NoMode
  PROVE  /\ ToAdopt \in Mode /\ ToAdopt # "freeze"
         /\ latched => ToAdopt = OnContact
  BY ExecutorAssumption DEF ModesTyped, ToAdopt

\* A request that is taken leaves a mode or nothing behind.
LEMMA TakeTyped ==
  ASSUME ModesTyped, TakeRequest
  PROVE  requested' \in Mode \cup {NoMode}
  BY DEF ModesTyped, TakeRequest

\* When step 3 has nothing to adopt, no switch was due.
LEMMA NothingDue ==
  ASSUME ToAdopt \in {NoMode, active}
  PROVE  ~SwitchDue
  BY ExecutorAssumption DEF ToAdopt, SwitchDue

\* What the end of a good cycle leaves.
LEMMA SwitchSettles ==
  ASSUME StopInv, pc = "exchange", ContactSwitch, misses' = 0, UNCHANGED actuators
  PROVE  /\ active' \in Mode \cup {NoMode}
         /\ Settled' \/ SwitchDue'
         /\ active' # NoMode => actuators' = Required[active']
<1>0. OnContact \in Mode /\ NoMode \notin Mode /\ "freeze" \notin Mode
  BY ExecutorAssumption
<1>1. active \in Mode \cup {NoMode} /\ Settled
  BY DEF StopInv, ModesTyped
<1>2. active # NoMode => actuators = Required[active]
  BY DEF StopInv
<1>3. CASE latched' /\ active # OnContact /\ active # NoMode /\ Required[active] = Required[OnContact]
  <2>1. active' = OnContact /\ cmd' = OnContact
    BY <1>3 DEF ContactSwitch
  <2> QED
    BY <2>1, <1>0, <1>2, <1>3 DEF Settled
<1>4. CASE latched' /\ active # OnContact /\ ~(active # NoMode /\ Required[active] = Required[OnContact])
  <2>1. active' = active
    BY <1>4 DEF ContactSwitch
  <2> QED
    BY <2>1, <1>1, <1>2, <1>4 DEF SwitchDue
<1>5. CASE ~(latched' /\ active # OnContact)
  <2>1. active' = active /\ cmd' = (IF active = NoMode THEN cmd ELSE active)
    BY <1>5 DEF ContactSwitch
  <2>2. Settled'
    BY <2>1, <1>0, <1>1, <1>5 DEF Settled
  <2> QED
    BY <2>1, <2>2, <1>1, <1>2
<1> QED
  BY <1>3, <1>4, <1>5

\* Every step of the loop and of the requesters keeps it.
LEMMA StopInvNext == ASSUME StopInv, [Next]_vars PROVE StopInv'
<1>1. CASE UNCHANGED vars
  BY <1>1 DEF StopInv, ModesTyped, Settled, SwitchDue, vars, monitor, budget
<1>2. CASE Start
  <2>1. pc' = "seed" /\ active' = NoMode /\ cmd' = "zero" /\ requested' = requested
    BY <1>2 DEF Start
  <2> QED
    BY <2>1 DEF StopInv, ModesTyped
<1>3. CASE SeedRead
  <2>1. UNCHANGED <<requested, active, cmd, actuators>> /\ active = NoMode /\ cmd = "zero"
    BY <1>3 DEF SeedRead, StopInv
  <2>2. pc' \in {"seed", "lost", "threw"} \/ (pc' = "boundary" /\ misses' = 0)
    BY <1>3 DEF SeedRead, Answered
  <2>3. CASE pc' # "boundary"
    BY <2>1, <2>2, <2>3 DEF StopInv, ModesTyped
  <2>4. CASE pc' = "boundary"
    <3>1. active' = NoMode /\ cmd' = "zero" /\ OnContact # NoMode /\ misses' = 0
      BY <2>1, <2>2, <2>4, ExecutorAssumption
    <3>2. Settled' \/ SwitchDue'
      BY <3>1 DEF Settled, SwitchDue
    <3> QED
      BY <2>1, <2>4, <3>1, <3>2 DEF StopInv, ModesTyped
  <2> QED
    BY <2>3, <2>4
<1>4. CASE Keep
  <2>1. pc = "boundary" /\ pc' = "exchange" /\ UNCHANGED <<latched, active, cmd, actuators>>
    BY <1>4 DEF Keep, monitor
  <2>2. Settled
    BY <1>4, <2>1, NothingDue DEF Keep, StopInv
  <2>3. requested' \in Mode \cup {NoMode}
    BY <1>4, TakeTyped DEF Keep, StopInv
  <2> QED
    BY <2>1, <2>2, <2>3 DEF StopInv, ModesTyped, Settled
<1>5. CASE Adopt
  <2>1. /\ pc' = "exchange" /\ UNCHANGED latched
        /\ cmd' = ToAdopt /\ active' = ToAdopt /\ actuators' = Required[ToAdopt]
    BY <1>5 DEF Adopt, monitor
  <2>2. ToAdopt \in Mode /\ ToAdopt # "freeze" /\ (latched => ToAdopt = OnContact)
    BY <1>5, AdoptsAMode DEF Adopt, StopInv
  <2>3. requested' \in Mode \cup {NoMode}
    BY <1>5, TakeTyped DEF Adopt, StopInv
  <2>4. Settled'
    BY <2>1, <2>2 DEF Settled
  <2> QED
    BY <2>1, <2>2, <2>3, <2>4 DEF StopInv, ModesTyped
<1>6. CASE AdoptThrows
  <2>1. pc' \in {"lost", "threw"} /\ UNCHANGED active
    BY <1>6 DEF AdoptThrows
  <2>2. requested' \in Mode \cup {NoMode}
    BY <1>6, TakeTyped DEF AdoptThrows, StopInv
  <2> QED
    BY <2>1, <2>2 DEF StopInv, ModesTyped
<1>7. CASE Miss
  <2>1. pc = "exchange" /\ UNCHANGED <<requested, active, cmd, actuators>>
    BY <1>7 DEF Miss
  <2>2. pc' = "lost" \/ (pc' = "boundary" /\ StepSkipped)
    BY <1>7 DEF Miss
  <2>3. CASE pc' = "lost"
    BY <2>1, <2>3 DEF StopInv, ModesTyped
  <2>4. CASE pc' = "boundary" /\ StepSkipped
    <3>1. Settled'
      BY <2>1, <2>4, SkippedLatch DEF StopInv, Settled
    <3> QED
      BY <2>1, <2>4, <3>1 DEF StopInv, ModesTyped
  <2> QED
    BY <2>2, <2>3, <2>4
<1>8. CASE ExchangeThrows
  BY <1>8 DEF ExchangeThrows, StopInv, ModesTyped
<1>9. CASE \E r \in Report : Good(r)
  <2>1. PICK r \in Report : Good(r)
    BY <1>9
  <2>2. pc = "exchange" /\ misses' = 0 /\ UNCHANGED <<requested, actuators>>
    BY <2>1 DEF Good, Answered
  <2>3. (pc' = "fault" /\ UNCHANGED active) \/ (pc' = "boundary" /\ ContactSwitch)
    BY <2>1 DEF Good
  <2>4. CASE pc' = "fault" /\ UNCHANGED active
    BY <2>2, <2>4 DEF StopInv, ModesTyped
  <2>5. CASE pc' = "boundary" /\ ContactSwitch
    BY <2>2, <2>5, SwitchSettles DEF StopInv, ModesTyped
  <2> QED
    BY <2>3, <2>4, <2>5
<1>10. CASE StopSeen
  BY <1>10 DEF StopSeen, StopInv, ModesTyped
<1>11. CASE ClearContact
  <2>1. UNCHANGED <<latched, misses, requested, pc, active, cmd, actuators>>
    BY <1>11 DEF ClearContact, RequestClear, budget
  <2> QED
    BY <2>1 DEF StopInv, ModesTyped, Settled, SwitchDue
<1>12. CASE \E m \in Mode : RequestMode(m)
  <2>1. requested' \in Mode /\ UNCHANGED <<latched, misses, pc, active, cmd, actuators>>
    BY <1>12 DEF RequestMode, monitor, budget
  <2> QED
    BY <2>1 DEF StopInv, ModesTyped, Settled, SwitchDue
<1> QED
  BY <1>1, <1>2, <1>3, <1>4, <1>5, <1>6, <1>7, <1>8, <1>9, <1>10, <1>11, <1>12 DEF Next, Cycle

\* The three promises of the contact stop follow from StopInv.
LEMMA StopInvStops ==
  ASSUME StopInv
  PROVE  FreezeNeverSent /\ LatchedRunsOnlyContact /\ CommandMatchesArm
  BY ExecutorAssumption
     DEF StopInv, Settled, FreezeNeverSent, LatchedRunsOnlyContact, CommandMatchesArm

\* It holds in every reachable state.
LEMMA StopInvAlways == Spec => []StopInv
<1>1. StopInv /\ [Next]_vars => StopInv'
  BY StopInvNext
<1> QED
  BY <1>1, StopInvInit, PTL DEF Spec

\* The freeze command of a contact is never sent (rt_executor.cpp, step 5b).
THEOREM FreezeReplaced == Spec => []FreezeNeverSent
<1>1. StopInv => FreezeNeverSent
  BY StopInvStops
<1> QED
  BY <1>1, StopInvAlways, PTL

\* A latched loop sends the contact mode's commands and no others.
THEOREM ContactStops == Spec => []LatchedRunsOnlyContact
<1>1. StopInv => LatchedRunsOnlyContact
  BY StopInvStops
<1> QED
  BY <1>1, StopInvAlways, PTL

\* Every command sent was computed for the actuator modes the arm is in.
THEOREM CommandsFit == Spec => []CommandMatchesArm
<1>1. StopInv => CommandMatchesArm
  BY StopInvStops
<1> QED
  BY <1>1, StopInvAlways, PTL

\* No request is lost to a miss or to the latch: step 3 takes it only to make
\* it the active mode, or in a switch that ends the run.
THEOREM RequestsKept == Spec => RequestNotDropped
<1>1. ASSUME [Next]_vars, requested # NoMode, requested' = NoMode
      PROVE  active' = requested \/ pc' \in Over
  <2>1. requested' # requested
    BY <1>1
  <2>2. Keep \/ Adopt \/ AdoptThrows \/ \E m \in Mode : RequestMode(m)
    BY <1>1, <2>1 DEF Next, Cycle, Start, SeedRead, Miss, ExchangeThrows, Good, StopSeen, ClearContact, vars
  <2>3. ~ \E m \in Mode : RequestMode(m)
    BY <1>1, ExecutorAssumption DEF RequestMode
  <2>4. CASE Keep \/ Adopt
    <3>1. TakeRequest /\ (active' = ToAdopt \/ (ToAdopt \in {NoMode, active} /\ active' = active))
      BY <2>4 DEF Keep, Adopt
    <3>2. misses = 0 /\ ~latched
      BY <3>1, <2>1 DEF TakeRequest
    <3>3. ToAdopt = requested
      BY <3>2 DEF ToAdopt
    <3> QED
      BY <3>1, <3>3, <1>1
  <2>5. CASE AdoptThrows
    BY <2>5 DEF AdoptThrows, Over
  <2> QED
    BY <2>2, <2>3, <2>4, <2>5
<1>2. [Next]_vars => [requested # NoMode /\ requested' = NoMode => active' = requested \/ pc' \in Over]_vars
  BY <1>1
<1> QED
  BY <1>2, PTL DEF Spec, RequestNotDropped

-----------------------------------------------------------------------------
(* The latch and its counters.                                              *)

\* What each step of the loop does with the monitor.
LEMMA MonitorSteps ==
  ASSUME [Next]_vars
  PROVE  \/ UNCHANGED monitor \/ RequestClear \/ OnRunStart \/ StepSkipped
         \/ \E over \in SUBSET Joint : StepGood(over)
<1>1. CASE UNCHANGED vars
  BY <1>1 DEF vars
<1>2. CASE Start
  BY <1>2 DEF Start
<1>3. CASE SeedRead \/ Keep \/ Adopt \/ AdoptThrows \/ ExchangeThrows \/ StopSeen
  BY <1>3 DEF SeedRead, Keep, Adopt, AdoptThrows, ExchangeThrows, StopSeen
<1>4. CASE Miss
  BY <1>4 DEF Miss
<1>5. CASE \E r \in Report : Good(r)
  <2>1. UNCHANGED monitor \/ Monitored
    BY <1>5 DEF Good
  <2> QED
    BY <2>1 DEF Monitored
<1>6. CASE ClearContact
  BY <1>6 DEF ClearContact
<1>7. CASE \E m \in Mode : RequestMode(m)
  BY <1>7 DEF RequestMode
<1> QED
  BY <1>1, <1>2, <1>3, <1>4, <1>5, <1>6, <1>7 DEF Next, Cycle

\* A latch is brought down by a clear and by nothing else.
THEOREM LatchKept == Spec => LatchHolds
<1>1. ASSUME [Next]_vars, latched, ~latched' PROVE clear_requested
  <2>1. CASE UNCHANGED monitor \/ RequestClear
    BY <2>1, <1>1 DEF RequestClear, monitor
  <2>2. CASE OnRunStart
    BY <2>2, <1>1 DEF OnRunStart
  <2>3. CASE StepSkipped
    BY <2>3, <1>1 DEF StepSkipped, Still
  <2>4. CASE \E over \in SUBSET Joint : StepGood(over)
    BY <2>4, <1>1 DEF StepGood, Still
  <2> QED
    BY <1>1, <2>1, <2>2, <2>3, <2>4, MonitorSteps
<1>2. [Next]_vars => [latched /\ ~latched' => clear_requested]_monitor
  BY <1>1
<1> QED
  BY <1>2, PTL DEF Spec, LatchHolds

\* Counters are zero as long as the observer settles.
CountInv ==
  /\ observed \in 0..SettleTime
  /\ owed \in 0..MaxStep
  /\ SettledBeforeCounting

\* The time a good sample integrates.
LEMMA IntegratedBounds ==
  ASSUME observed \in 0..SettleTime, owed \in 0..MaxStep
  PROVE  /\ Integrated \in 0..SettleTime
         /\ ~clear_requested /\ Integrated # SettleTime => observed # SettleTime
  BY MonitorAssumption DEF Integrated, Cleared, AtMost

\* Counters stay zero while the observer settles, whatever the step.
LEMMA CountInvNext == ASSUME CountInv, [Next]_vars PROVE CountInv'
<1>0. SettleTime \in Nat \ {0} /\ MaxStep \in Nat \ {0}
  BY MonitorAssumption
<1>1. CASE UNCHANGED monitor \/ RequestClear
  <2>1. UNCHANGED <<observed, owed, count>>
    BY <1>1 DEF RequestClear, monitor
  <2> QED
    BY <2>1 DEF CountInv, SettledBeforeCounting, NoCount
<1>2. CASE OnRunStart
  BY <1>0, <1>2 DEF OnRunStart, CountInv, SettledBeforeCounting, NoCount
<1>3. CASE StepSkipped
  <2>1. observed' \in 0..SettleTime /\ owed' \in 0..MaxStep
    BY <1>0, <1>3 DEF StepSkipped, CountInv, Cleared, AtMost
  <2>2. SettledBeforeCounting'
    BY <1>3 DEF StepSkipped, CountInv, Cleared, SettledBeforeCounting, NoCount
  <2> QED
    BY <2>1, <2>2 DEF CountInv
<1>4. CASE \E over \in SUBSET Joint : StepGood(over)
  <2>1. PICK over \in SUBSET Joint : StepGood(over)
    BY <1>4
  <2>2. /\ observed' = Integrated /\ owed' = 0
        /\ count' = (IF Counted THEN Tally(over) ELSE Cleared(count, NoCount))
    BY <2>1 DEF StepGood
  <2>3. /\ Integrated \in 0..SettleTime
        /\ ~clear_requested /\ Integrated # SettleTime => observed # SettleTime
    BY IntegratedBounds DEF CountInv
  <2>4. ASSUME Integrated # SettleTime PROVE count' = NoCount
    <3>1. count' = Cleared(count, NoCount)
      BY <2>2, <2>4 DEF Counted
    <3> QED
      BY <3>1, <2>3, <2>4 DEF Cleared, CountInv, SettledBeforeCounting
  <2> QED
    BY <1>0, <2>2, <2>3, <2>4 DEF CountInv, SettledBeforeCounting, NoCount
<1> QED
  BY <1>1, <1>2, <1>3, <1>4, MonitorSteps

\* What was seen before a clear or a new run is never counted after it: the
\* counters are zero until the observer has settled again.
THEOREM CountsAreSettled == Spec => []SettledBeforeCounting
<1>1. Init => CountInv
  BY MonitorAssumption DEF Init, MonitorInit, CountInv, SettledBeforeCounting, NoCount
<1>2. CountInv /\ [Next]_vars => CountInv'
  BY CountInvNext
<1>3. CountInv => SettledBeforeCounting
  BY DEF CountInv
<1> QED
  BY <1>1, <1>2, <1>3, PTL DEF Spec

-----------------------------------------------------------------------------
(* The trip.                                                                *)

\* t is the latest n of s and then x: x comes last, and the rest of t is the
\* end of s, a place further from the end.
Shifted(t, s, x, n) ==
  /\ Len(t) = AtMost(Len(s) + 1, n)
  /\ t[Len(t)] = x
  /\ \A k \in 1..(Len(t) - 1) : t[Len(t) - k] = s[Len(s) + 1 - k]

\* Adding an element to the latest n: it comes last, and whatever else is
\* there has moved by one place, counted from the end.
LEMMA LatestAppend ==
  ASSUME NEW S, NEW s \in Seq(S), NEW x \in S, NEW n \in Nat \ {0}, Len(s) <= n,
         NEW t, t = Latest(Append(s, x), n)
  PROVE  t \in Seq(S) /\ Shifted(t, s, x, n)
<1> DEFINE a == Append(s, x)
<1>1. /\ a \in Seq(S) /\ Len(a) = Len(s) + 1 /\ a[Len(s) + 1] = x
      /\ \A i \in 1..Len(s) : a[i] = s[i]
  OBVIOUS
<1>2. CASE Len(s) + 1 <= n
  <2>1. t = a
    BY <1>1, <1>2 DEF Latest
  <2> QED
    BY <1>1, <1>2, <2>1 DEF AtMost, Shifted
<1>3. CASE Len(s) = n
  <2>1. t = SubSeq(a, 2, n + 1)
    BY <1>1, <1>3 DEF Latest
  <2>2. t \in Seq(S) /\ Len(t) = n /\ \A i \in 1..n : t[i] = a[i + 1]
    BY <1>1, <1>3, <2>1
  <2> QED
    BY <1>1, <1>3, <2>2 DEF AtMost, Shifted
<1> QED
  BY <1>2, <1>3

\* n is how many of the last elements of s in a row, up to the last one, are in
\* Bad: what a counter that climbs and drops to zero is to hold.
Trailing(n, s, Bad) ==
  /\ n \in 0..Len(s)
  /\ \A k \in 1..n : s[Len(s) + 1 - k] \in Bad
  /\ n < Len(s) => s[Len(s) - n] \notin Bad

\* An empty history has an empty tail.
LEMMA NothingTrails == ASSUME NEW Bad PROVE Trailing(0, <<>>, Bad)
  BY DEF Trailing

\* One more element keeps the counter right, of a history that is cut too.
LEMMA TrailingStep ==
  ASSUME NEW Set, NEW s \in Seq(Set), NEW x \in Set, NEW Bad,
         NEW bound \in Nat \ {0}, Len(s) <= bound, NEW t, t = Latest(Append(s, x), bound),
         NEW n \in Nat, NEW m, m = (IF x \in Bad THEN AtMost(n + 1, bound) ELSE 0),
         Trailing(n, s, Bad)
  PROVE  Trailing(m, t, Bad)
<1>1. t \in Seq(Set) /\ Shifted(t, s, x, bound)
  BY LatestAppend
<1>2. /\ Len(t) = AtMost(Len(s) + 1, bound) /\ t[Len(t)] = x
      /\ \A k \in 1..(Len(t) - 1) : t[Len(t) - k] = s[Len(s) + 1 - k]
  BY <1>1 DEF Shifted
<1>3. n \in 0..Len(s) /\ (\A k \in 1..n : s[Len(s) + 1 - k] \in Bad)
      /\ (n < Len(s) => s[Len(s) - n] \notin Bad)
  BY DEF Trailing
<1>4. CASE x \notin Bad
  <2>1. m = 0 /\ Len(t) >= 1
    BY <1>1, <1>2, <1>4 DEF AtMost
  <2> QED
    BY <1>1, <1>2, <1>4, <2>1 DEF Trailing
<1>5. CASE x \in Bad
  <2>1. m = AtMost(n + 1, bound) /\ m \in 0..Len(t)
    BY <1>1, <1>2, <1>3, <1>5 DEF AtMost
  <2>2. ASSUME NEW k \in 1..m PROVE t[Len(t) + 1 - k] \in Bad
    <3>1. CASE k = 1
      BY <1>1, <1>2, <1>5, <3>1
    <3>2. CASE k # 1
      <4>1. k - 1 \in 1..n /\ k - 1 \in 1..(Len(t) - 1)
        BY <1>1, <1>2, <1>3, <2>1, <3>2 DEF AtMost
      <4>2. t[Len(t) - (k - 1)] = s[Len(s) + 1 - (k - 1)]
        BY <1>2, <4>1
      <4>3. s[Len(s) + 1 - (k - 1)] \in Bad
        BY <1>3, <4>1
      <4>4. Len(t) + 1 - k = Len(t) - (k - 1)
        BY <1>1, <4>1
      <4> QED
        BY <4>2, <4>3, <4>4
    <3> QED
      BY <3>1, <3>2
  <2>3. ASSUME m < Len(t) PROVE t[Len(t) - m] \notin Bad
    <3>1. m = n + 1 /\ m \in 1..(Len(t) - 1) /\ n < Len(s)
      BY <1>1, <1>2, <1>3, <2>1, <2>3 DEF AtMost
    <3>2. t[Len(t) - m] = s[Len(s) + 1 - m]
      BY <1>2, <3>1
    <3> QED
      BY <1>3, <3>1, <3>2
  <2> QED
    BY <2>1, <2>2, <2>3 DEF Trailing
<1> QED
  BY <1>4, <1>5

\* The counter has reached a limit just when the last elements are all bad.
LEMMA TrailingReaches ==
  ASSUME NEW Set, NEW s \in Seq(Set), NEW Bad, NEW n, Trailing(n, s, Bad),
         NEW limit \in Nat \ {0}
  PROVE  n >= limit <=> /\ Len(s) >= limit
                        /\ \A i \in (Len(s) + 1 - limit)..Len(s) : s[i] \in Bad
<1>0. n \in 0..Len(s)
  BY DEF Trailing
<1>1. ASSUME n >= limit, NEW i \in (Len(s) + 1 - limit)..Len(s)
      PROVE  s[i] \in Bad
  <2>1. Len(s) + 1 - i \in 1..n /\ Len(s) + 1 - (Len(s) + 1 - i) = i
    BY <1>0, <1>1
  <2> QED
    BY <2>1 DEF Trailing
<1>2. ASSUME Len(s) >= limit, \A i \in (Len(s) + 1 - limit)..Len(s) : s[i] \in Bad, ~(n >= limit)
      PROVE  FALSE
  <2>1. n < Len(s) /\ Len(s) - n \in (Len(s) + 1 - limit)..Len(s)
    BY <1>0, <1>2
  <2> QED
    BY <1>2, <2>1 DEF Trailing
<1> QED
  BY <1>0, <1>1, <1>2

\* The counted samples in which joint j was over.
OverOn(j) == {over \in SUBSET Joint : j \in over}

\* count is what streak says.
Tallied(c, s, j) == Trailing(c[j], s, OverOn(j))

TallyInv ==
  /\ streak \in Seq(SUBSET Joint) /\ Len(streak) <= Debounce
  /\ count \in [Joint -> 0..Debounce]
  /\ ~latched => \A j \in Joint : Tallied(count, streak, j)
  /\ ~latched /\ Enforce => \A j \in Joint : count[j] # Debounce

\* A reset counter tallies an empty history.
LEMMA NothingTallied == \A j \in Joint : Tallied(NoCount, <<>>, j)
  BY NothingTrails DEF Tallied, NoCount

\* One counted sample keeps a tally.
LEMMA TallyStep ==
  ASSUME NEW s \in Seq(SUBSET Joint), Len(s) <= Debounce,
         NEW over \in SUBSET Joint, NEW j \in Joint,
         NEW c \in [Joint -> 0..Debounce], NEW d,
         d[j] = (IF j \in over THEN AtMost(c[j] + 1, Debounce) ELSE 0),
         NEW t, t = Latest(Append(s, over), Debounce), Tallied(c, s, j)
  PROVE  Tallied(d, t, j)
<1>1. Debounce \in Nat \ {0} /\ c[j] \in Nat
  BY MonitorAssumption
<1>2. over \in OverOn(j) <=> j \in over
  BY DEF OverOn
<1>3. d[j] = (IF over \in OverOn(j) THEN AtMost(c[j] + 1, Debounce) ELSE 0)
  BY <1>2
<1>4. Trailing(c[j], s, OverOn(j))
  BY DEF Tallied
<1>5. Trailing(d[j], t, OverOn(j))
  BY <1>1, <1>3, <1>4, TrailingStep
<1> QED
  BY <1>5 DEF Tallied

\* What a clear leaves to the rest of a step is still a tally.
LEMMA ClearedTally ==
  ASSUME TallyInv
  PROVE  /\ Cleared(streak, <<>>) \in Seq(SUBSET Joint)
         /\ Len(Cleared(streak, <<>>)) <= Debounce
         /\ Cleared(count, NoCount) \in [Joint -> 0..Debounce]
         /\ ~Still => \A j \in Joint : Tallied(Cleared(count, NoCount), Cleared(streak, <<>>), j)
         /\ ~Still /\ Enforce => \A j \in Joint : Cleared(count, NoCount)[j] # Debounce
<1>0. Debounce \in Nat \ {0}
  BY MonitorAssumption
<1>1. CASE clear_requested
  <2>1. Cleared(streak, <<>>) = <<>> /\ Cleared(count, NoCount) = NoCount
    BY <1>1 DEF Cleared
  <2>2. NoCount \in [Joint -> 0..Debounce] /\ \A j \in Joint : NoCount[j] # Debounce
    BY <1>0 DEF NoCount
  <2>3. <<>> \in Seq(SUBSET Joint) /\ Len(<<>>) <= Debounce
    BY <1>0
  <2> QED
    BY <2>1, <2>2, <2>3, NothingTallied
<1>2. CASE ~clear_requested
  BY <1>2 DEF Cleared, Still, TallyInv
<1> QED
  BY <1>1, <1>2

\* A counted sample: what it leaves, and when it crosses.
LEMMA CountedSample ==
  ASSUME TallyInv, NEW over \in SUBSET Joint, StepGood(over), Counted
  PROVE  /\ streak' \in Seq(SUBSET Joint) /\ Len(streak') <= Debounce
         /\ count' \in [Joint -> 0..Debounce]
         /\ \A j \in Joint : Tallied(count', streak', j)
         /\ latched' <=> Enforce /\ \E j \in Joint : count'[j] = Debounce
<1> DEFINE c == Cleared(count, NoCount)
           s == Cleared(streak, <<>>)
<1>0. Debounce \in Nat \ {0} /\ ~Still
  BY MonitorAssumption DEF Counted
<1>1. /\ s \in Seq(SUBSET Joint) /\ Len(s) <= Debounce /\ c \in [Joint -> 0..Debounce]
      /\ \A j \in Joint : Tallied(c, s, j)
      /\ Enforce => \A j \in Joint : c[j] # Debounce
  BY <1>0, ClearedTally
<1>2. /\ count' = Tally(over) /\ streak' = Latest(Append(s, over), Debounce)
      /\ latched' <=> Enforce /\ Crosses(over)
  BY <1>0 DEF StepGood
<1>3. /\ count' = [j \in Joint |-> IF j \in over THEN AtMost(c[j] + 1, Debounce) ELSE 0]
      /\ Crosses(over) <=> \E j \in over : count'[j] = Debounce /\ c[j] # Debounce
  BY <1>2 DEF Tally, Crosses
<1> HIDE DEF c, s
<1>4. count' \in [Joint -> 0..Debounce]
  BY <1>0, <1>1, <1>3 DEF AtMost
<1>5. streak' \in Seq(SUBSET Joint) /\ Shifted(streak', s, over, Debounce)
  BY <1>0, <1>1, <1>2, LatestAppend
<1>6. Len(streak') <= Debounce
  BY <1>0, <1>1, <1>5 DEF Shifted, AtMost
<1>7. \A j \in Joint : Tallied(count', streak', j)
  BY <1>1, <1>2, <1>3, <1>4, TallyStep
<1>8. ASSUME Enforce PROVE Crosses(over) <=> \E j \in Joint : count'[j] = Debounce
  BY <1>0, <1>1, <1>3, <1>8
<1> QED
  BY <1>2, <1>4, <1>5, <1>6, <1>7, <1>8

\* Every counter tallies its history, whatever the step.
LEMMA TallyInvNext == ASSUME TallyInv, [Next]_vars PROVE TallyInv'
<1>0. Debounce \in Nat \ {0}
  BY MonitorAssumption
<1>1. CASE UNCHANGED monitor \/ RequestClear
  <2>1. UNCHANGED <<latched, count, streak>>
    BY <1>1 DEF RequestClear, monitor
  <2> QED
    BY <2>1 DEF TallyInv, Tallied
<1>2. CASE OnRunStart
  <2>1. count' = NoCount /\ streak' = <<>>
    BY <1>2 DEF OnRunStart
  <2>2. NoCount \in [Joint -> 0..Debounce] /\ \A j \in Joint : NoCount[j] # Debounce
    BY <1>0 DEF NoCount
  <2>3. <<>> \in Seq(SUBSET Joint) /\ Len(<<>>) <= Debounce
    BY <1>0
  <2> QED
    BY <2>1, <2>2, <2>3, NothingTallied DEF TallyInv
<1>3. ASSUME latched' = Still, count' = Cleared(count, NoCount), streak' = Cleared(streak, <<>>)
      PROVE  TallyInv'
  BY <1>3, ClearedTally DEF TallyInv
<1>4. CASE StepSkipped
  BY <1>3, <1>4 DEF StepSkipped
<1>5. CASE \E over \in SUBSET Joint : StepGood(over)
  <2>1. PICK over \in SUBSET Joint : StepGood(over)
    BY <1>5
  <2>2. CASE ~Counted
    <3>1. /\ latched' = Still /\ count' = Cleared(count, NoCount)
          /\ streak' = Cleared(streak, <<>>)
      BY <2>1, <2>2 DEF StepGood, Still
    <3> QED
      BY <3>1, <1>3
  <2>3. CASE Counted
    BY <2>1, <2>3, CountedSample DEF TallyInv
  <2> QED
    BY <2>2, <2>3
<1> QED
  BY <1>1, <1>2, <1>4, <1>5, MonitorSteps

\* A tally that has reached Debounce is a streak of that length.
LEMMA FullTally ==
  ASSUME NEW s \in Seq(SUBSET Joint), Len(s) <= Debounce,
         NEW c \in [Joint -> 0..Debounce], NEW j \in Joint, Tallied(c, s, j)
  PROVE  c[j] = Debounce <=> (Len(s) = Debounce /\ \A i \in 1..Debounce : j \in s[i])
<1>0. Debounce \in Nat \ {0} /\ c[j] \in 0..Debounce /\ Len(s) \in Nat
  BY MonitorAssumption
<1>1. c[j] >= Debounce <=> /\ Len(s) >= Debounce
                           /\ \A i \in (Len(s) + 1 - Debounce)..Len(s) : s[i] \in OverOn(j)
  BY <1>0, TrailingReaches DEF Tallied
<1>2. \A i \in 1..Len(s) : s[i] \in OverOn(j) <=> j \in s[i]
  BY DEF OverOn
<1> QED
  BY <1>0, <1>1, <1>2

\* The latch trips on exactly the sample that completes Debounce counted
\* samples in a row over one joint's threshold.
THEOREM TripsAreExact == Spec => TripsExactly
<1>0. Debounce \in Nat \ {0}
  BY MonitorAssumption
<1>1. Init => TallyInv
  <2>1. Init => count = NoCount /\ streak = <<>> /\ NoCount \in [Joint -> 0..Debounce]
                /\ (\A j \in Joint : NoCount[j] # Debounce)
                /\ <<>> \in Seq(SUBSET Joint) /\ Len(<<>>) <= Debounce
    BY <1>0 DEF Init, MonitorInit, NoCount
  <2> QED
    BY <2>1, NothingTallied DEF TallyInv
<1>2. TallyInv /\ [Next]_vars => TallyInv'
  BY TallyInvNext
<1>3. ASSUME TallyInv, [Next]_vars, ~latched, streak' # streak
      PROVE  latched' <=> /\ Enforce
                          /\ Len(streak') = Debounce
                          /\ \E j \in Joint : \A i \in 1..Debounce : j \in streak'[i]
  <2>1. ASSUME streak' = Cleared(streak, <<>>) \/ streak' = <<>>, ~latched'
        PROVE  ~latched' /\ Len(streak') # Debounce
    <3>1. streak' = <<>>
      BY <1>3, <2>1 DEF Cleared
    <3> QED
      BY <1>0, <2>1, <3>1
  <2>2. CASE UNCHANGED monitor \/ RequestClear
    BY <1>3, <2>2 DEF RequestClear, monitor
  <2>3. CASE OnRunStart \/ StepSkipped
    BY <1>3, <2>1, <2>3 DEF OnRunStart, StepSkipped, Still
  <2>4. CASE \E over \in SUBSET Joint : StepGood(over)
    <3>1. PICK over \in SUBSET Joint : StepGood(over)
      BY <2>4
    <3>2. CASE ~Counted
      BY <1>3, <2>1, <3>1, <3>2 DEF StepGood, Still
    <3>3. CASE Counted
      <4>1. /\ streak' \in Seq(SUBSET Joint) /\ Len(streak') <= Debounce
            /\ count' \in [Joint -> 0..Debounce]
            /\ \A j \in Joint : Tallied(count', streak', j)
            /\ latched' <=> Enforce /\ \E j \in Joint : count'[j] = Debounce
        BY <1>3, <3>1, <3>3, CountedSample
      <4>2. \A j \in Joint : count'[j] = Debounce <=>
              (Len(streak') = Debounce /\ \A i \in 1..Debounce : j \in streak'[i])
        BY <4>1, FullTally
      <4> QED
        BY <4>1, <4>2
    <3> QED
      BY <3>2, <3>3
  <2> QED
    BY <1>3, <2>2, <2>3, <2>4, MonitorSteps
<1>4. TallyInv /\ [Next]_vars =>
        [~latched /\ streak' # streak =>
           (latched' <=> /\ Enforce
                         /\ Len(streak') = Debounce
                         /\ \E j \in Joint : \A i \in 1..Debounce : j \in streak'[i])]_monitor
  BY <1>3
<1> QED
  BY <1>1, <1>2, <1>4, PTL DEF Spec, TripsExactly

-----------------------------------------------------------------------------
(* The confirmed fault.                                                     *)

Reported == {r \in Report : r.fault}
NotLow == {r \in Report : ~r.low}

\* While run() is on, both counters are what the reports say and below their
\* limits.
FaultInv ==
  /\ reports \in Seq(Report) /\ Len(reports) <= Most(FaultConfirm, LowConfirm)
  /\ pc \notin Over =>
       /\ faulty \in Nat /\ faulty < FaultConfirm /\ Trailing(faulty, reports, Reported)
       /\ not_low \in Nat /\ not_low < LowConfirm /\ Trailing(not_low, reports, NotLow)

\* The two confirmations, and the longer of them, are positive.
LEMMA Limits ==
  /\ FaultConfirm \in Nat \ {0} /\ LowConfirm \in Nat \ {0}
  /\ Most(FaultConfirm, LowConfirm) \in Nat \ {0}
  /\ FaultConfirm <= Most(FaultConfirm, LowConfirm) /\ LowConfirm <= Most(FaultConfirm, LowConfirm)
  BY ExecutorAssumption DEF Most

\* check_fault() keeps the counters right, and confirms what the reports show.
LEMMA CheckedFault ==
  ASSUME FaultInv, pc \notin Over, NEW r \in Report, CheckFault(r)
  PROVE  /\ reports' \in Seq(Report) /\ Len(reports') <= Most(FaultConfirm, LowConfirm)
         /\ faulty' \in Nat /\ Trailing(faulty', reports', Reported)
         /\ not_low' \in Nat /\ Trailing(not_low', reports', NotLow)
         /\ Confirmed <=> FaultSeen(reports')
<1> DEFINE P == Most(FaultConfirm, LowConfirm)
<1>1. /\ reports \in Seq(Report) /\ Len(reports) <= P
      /\ faulty \in Nat /\ faulty < FaultConfirm /\ Trailing(faulty, reports, Reported)
      /\ not_low \in Nat /\ not_low < LowConfirm /\ Trailing(not_low, reports, NotLow)
  BY DEF FaultInv
<1>2. P \in Nat \ {0} /\ FaultConfirm <= P /\ LowConfirm <= P
      /\ FaultConfirm \in Nat \ {0} /\ LowConfirm \in Nat \ {0}
  BY Limits
<1>3. (r \in Reported <=> r.fault) /\ (r \in NotLow <=> ~r.low)
  BY DEF Reported, NotLow
<1> HIDE DEF P
<1>4. reports' = Latest(Append(reports, r), P)
  BY DEF CheckFault, P
<1>5. faulty' = (IF r \in Reported THEN AtMost(faulty + 1, P) ELSE 0)
  BY <1>1, <1>2, <1>3 DEF CheckFault, AtMost
<1>6. not_low' = (IF r \in NotLow THEN AtMost(not_low + 1, P) ELSE 0)
  BY <1>1, <1>2, <1>3 DEF CheckFault, AtMost
<1>7. reports' \in Seq(Report) /\ Shifted(reports', reports, r, P)
  BY <1>1, <1>2, <1>4, LatestAppend
<1>8. Len(reports') <= P
  BY <1>1, <1>2, <1>7 DEF Shifted, AtMost
<1>9. Trailing(faulty', reports', Reported)
  BY <1>1, <1>2, <1>4, <1>5, TrailingStep
<1>10. Trailing(not_low', reports', NotLow)
  BY <1>1, <1>2, <1>4, <1>6, TrailingStep
<1>11. faulty' \in Nat /\ not_low' \in Nat
  BY <1>1, <1>2, <1>5, <1>6 DEF AtMost
<1>12. /\ faulty' >= FaultConfirm <=>
            /\ Len(reports') >= FaultConfirm
            /\ \A i \in (Len(reports') + 1 - FaultConfirm)..Len(reports') : reports'[i] \in Reported
       /\ not_low' >= LowConfirm <=>
            /\ Len(reports') >= LowConfirm
            /\ \A i \in (Len(reports') + 1 - LowConfirm)..Len(reports') : reports'[i] \in NotLow
  BY <1>2, <1>7, <1>9, <1>10, TrailingReaches
<1>13. \A i \in 1..Len(reports') : /\ reports'[i] \in Reported <=> reports'[i].fault
                                   /\ reports'[i] \in NotLow <=> ~reports'[i].low
  BY <1>7 DEF Reported, NotLow
<1>14. /\ Len(reports') >= FaultConfirm =>
            (Len(reports') + 1 - FaultConfirm)..Len(reports') \subseteq 1..Len(reports')
       /\ Len(reports') >= LowConfirm =>
            (Len(reports') + 1 - LowConfirm)..Len(reports') \subseteq 1..Len(reports')
  BY <1>2, <1>7
<1>15. faulty' >= FaultConfirm <=>
         /\ Len(reports') >= FaultConfirm
         /\ \A i \in (Len(reports') + 1 - FaultConfirm)..Len(reports') : reports'[i].fault
  BY <1>12, <1>13, <1>14
<1>16. not_low' >= LowConfirm <=>
         /\ Len(reports') >= LowConfirm
         /\ \A i \in (Len(reports') + 1 - LowConfirm)..Len(reports') : ~reports'[i].low
  BY <1>12, <1>13, <1>14
<1>17. Confirmed <=> FaultSeen(reports')
  BY <1>15, <1>16 DEF Confirmed, FaultSeen
<1> QED
  BY <1>7, <1>8, <1>9, <1>10, <1>11, <1>17 DEF P

\* What each step of the loop does with the counters of a fault.
LEMMA WatchSteps ==
  ASSUME [Next]_vars
  PROVE  \/ UNCHANGED watch /\ (pc' \notin Over => pc \notin Over)
         \/ pc' = "seed" /\ faulty' = 0 /\ not_low' = 0 /\ reports' = <<>>
         \/ /\ pc = "exchange" /\ (\E r \in Report : CheckFault(r))
            /\ pc' = (IF Confirmed THEN "fault" ELSE "boundary")
<1>1. CASE UNCHANGED vars
  BY <1>1 DEF vars
<1>2. CASE Start
  BY <1>2 DEF Start
<1>3. CASE SeedRead \/ Keep \/ Adopt \/ AdoptThrows \/ Miss \/ ExchangeThrows \/ StopSeen
  BY <1>3 DEF SeedRead, Keep, Adopt, AdoptThrows, Miss, ExchangeThrows, StopSeen, Over
<1>4. CASE \E r \in Report : Good(r)
  <2>1. PICK r \in Report : Good(r)
    BY <1>4
  <2>2. CASE ExitOnFault
    BY <2>1, <2>2 DEF Good
  <2>3. CASE ~ExitOnFault
    BY <2>1, <2>3 DEF Good, Over
  <2> QED
    BY <2>2, <2>3
<1>5. CASE ClearContact \/ \E m \in Mode : RequestMode(m)
  BY <1>5 DEF ClearContact, RequestMode
<1> QED
  BY <1>1, <1>2, <1>3, <1>4, <1>5 DEF Next, Cycle

\* The two fault counters tally the reports, whatever the step.
LEMMA FaultInvNext == ASSUME FaultInv, [Next]_vars PROVE FaultInv'
<1>1. CASE UNCHANGED watch /\ (pc' \notin Over => pc \notin Over)
  BY <1>1 DEF FaultInv, watch
<1>2. CASE pc' = "seed" /\ faulty' = 0 /\ not_low' = 0 /\ reports' = <<>>
  BY <1>2, Limits, NothingTrails DEF FaultInv
<1>3. CASE /\ pc = "exchange" /\ (\E r \in Report : CheckFault(r))
           /\ pc' = (IF Confirmed THEN "fault" ELSE "boundary")
  <2>1. PICK r \in Report : CheckFault(r)
    BY <1>3
  <2>2. pc \notin Over
    BY <1>3 DEF Over
  <2>3. pc' \notin Over => ~Confirmed
    BY <1>3 DEF Over
  <2>4. /\ reports' \in Seq(Report) /\ Len(reports') <= Most(FaultConfirm, LowConfirm)
        /\ faulty' \in Nat /\ Trailing(faulty', reports', Reported)
        /\ not_low' \in Nat /\ Trailing(not_low', reports', NotLow)
    BY <2>1, <2>2, CheckedFault
  <2>5. pc' \notin Over => faulty' < FaultConfirm /\ not_low' < LowConfirm
    BY <2>3, <2>4, Limits DEF Confirmed
  <2> QED
    BY <2>4, <2>5 DEF FaultInv
<1> QED
  BY <1>1, <1>2, <1>3, WatchSteps

\* run() gives the arm up on exactly the good exchange that confirms a fault:
\* misses in between neither confirm nor clear one.
THEOREM FaultsAreExact == Spec => FaultExactly
<1>1. Init => FaultInv
  <2>1. Init => reports = <<>> /\ pc \in Over
    BY DEF Init, Over
  <2> QED
    BY <2>1, Limits DEF FaultInv
<1>2. FaultInv /\ [Next]_vars => FaultInv'
  BY FaultInvNext
<1>3. ASSUME FaultInv, [Next]_vars, reports' # reports
      PROVE  pc' = "fault" <=> FaultSeen(reports')
  <2>1. CASE UNCHANGED watch
    BY <1>3, <2>1 DEF watch
  <2>2. CASE pc' = "seed" /\ reports' = <<>>
    <3>1. ~FaultSeen(<<>>)
      BY Limits DEF FaultSeen
    <3> QED
      BY <2>2, <3>1
  <2>3. CASE /\ pc = "exchange" /\ (\E r \in Report : CheckFault(r))
             /\ pc' = (IF Confirmed THEN "fault" ELSE "boundary")
    <3>1. pc \notin Over
      BY <2>3 DEF Over
    <3>2. Confirmed <=> FaultSeen(reports')
      BY <1>3, <2>3, <3>1, CheckedFault
    <3> QED
      BY <2>3, <3>2
  <2> QED
    BY <1>3, <2>1, <2>2, <2>3, WatchSteps
<1>4. FaultInv /\ [Next]_vars => [reports' # reports => (pc' = "fault" <=> FaultSeen(reports'))]_vars
  BY <1>3
<1> QED
  BY <1>1, <1>2, <1>4, PTL DEF Spec, FaultExactly

-----------------------------------------------------------------------------
(* Type correctness.                                                        *)

\* What is kept of a history is a history.
LEMMA LatestType ==
  ASSUME NEW S, NEW s \in Seq(S), NEW x \in S, NEW n \in Nat \ {0}
  PROVE  Latest(Append(s, x), n) \in Seq(S)
<1>1. Append(s, x) \in Seq(S)
  OBVIOUS
<1> QED
  BY <1>1 DEF Latest

\* The contact monitor's variables keep their types.
LEMMA MonitorTypes == ASSUME MonitorTypeOK, [Next]_vars PROVE MonitorTypeOK'
<1>0. Debounce \in Nat \ {0} /\ SettleTime \in Nat \ {0} /\ MaxStep \in Nat \ {0}
  BY MonitorAssumption
<1>1. /\ count \in [Joint -> 0..Debounce] /\ streak \in Seq(SUBSET Joint)
      /\ owed \in 0..MaxStep /\ observed \in 0..SettleTime
      /\ latched \in BOOLEAN /\ clear_requested \in BOOLEAN
  BY DEF MonitorTypeOK
<1>2. NoCount \in [Joint -> 0..Debounce] /\ <<>> \in Seq(SUBSET Joint)
  BY <1>0 DEF NoCount
<1>3. Cleared(count, NoCount) \in [Joint -> 0..Debounce] /\ Cleared(streak, <<>>) \in Seq(SUBSET Joint)
  BY <1>1, <1>2 DEF Cleared
<1>4. CASE UNCHANGED monitor \/ RequestClear
  BY <1>1, <1>4 DEF RequestClear, monitor, MonitorTypeOK
<1>5. CASE OnRunStart
  <2>1. latched' \in BOOLEAN /\ clear_requested' \in BOOLEAN
    BY <1>5 DEF OnRunStart
  <2> QED
    BY <1>0, <1>2, <1>5, <2>1 DEF OnRunStart, MonitorTypeOK
<1>6. CASE StepSkipped
  <2>1. latched' \in BOOLEAN /\ clear_requested' \in BOOLEAN
    BY <1>6 DEF StepSkipped, Still
  <2>2. owed' \in 0..MaxStep /\ observed' \in 0..SettleTime
    BY <1>0, <1>1, <1>6 DEF StepSkipped, Cleared, AtMost
  <2> QED
    BY <1>3, <1>6, <2>1, <2>2 DEF StepSkipped, MonitorTypeOK
<1>7. CASE \E over \in SUBSET Joint : StepGood(over)
  <2>1. PICK over \in SUBSET Joint : StepGood(over)
    BY <1>7
  <2>2. latched' \in BOOLEAN /\ clear_requested' \in BOOLEAN
    BY <2>1 DEF StepGood
  <2>3. owed' \in 0..MaxStep /\ observed' \in 0..SettleTime
    BY <1>0, <1>1, <2>1, IntegratedBounds DEF StepGood
  <2>4. Tally(over) \in [Joint -> 0..Debounce]
    BY <1>0, <1>3 DEF Tally, AtMost
  <2>5. Latest(Append(Cleared(streak, <<>>), over), Debounce) \in Seq(SUBSET Joint)
    BY <1>0, <1>3, LatestType
  <2> QED
    BY <1>3, <2>1, <2>2, <2>3, <2>4, <2>5 DEF StepGood, MonitorTypeOK
<1> QED
  BY <1>4, <1>5, <1>6, <1>7, MonitorSteps

\* The counts of misses, below the limit while run() is on.
BudgetInv ==
  /\ misses \in 0..MaxConsecutive
  /\ missAge \in [Slot -> 0..MissWindow] /\ missNext \in Slot /\ missFull \in BOOLEAN
  /\ recent \in Seq(BOOLEAN)
  /\ pc \notin Over => misses < MaxConsecutive

\* What a step can do to the miss budget: nothing, a restart, an answer or a miss.
LEMMA BudgetSteps ==
  ASSUME [Next]_vars
  PROVE  \/ UNCHANGED budget /\ (pc' \notin Over => pc \notin Over)
         \/ /\ misses' = 0 /\ missAge' = [s \in Slot |-> MissWindow]
            /\ missNext' = 0 /\ missFull' = FALSE /\ recent' = <<>>
         \/ pc \notin Over /\ Answered
         \/ pc \notin Over /\ Missed /\ (pc' = "lost" <=> Lost) /\ (pc' \in Over => Lost)
<1>1. CASE UNCHANGED vars
  BY <1>1 DEF vars
<1>2. CASE Start
  BY <1>2 DEF Start
<1>3. CASE SeedRead
  <2>1. pc \notin Over
    BY <1>3 DEF SeedRead, Over
  <2>2. Answered \/ (Missed /\ pc' = (IF Lost THEN "lost" ELSE "seed")) \/ UNCHANGED budget
    BY <1>3 DEF SeedRead
  <2>3. "seed" # "lost" /\ "seed" \notin Over
    BY DEF Over
  <2> QED
    BY <2>1, <2>2, <2>3
<1>4. CASE Miss
  <2>1. pc \notin Over /\ "boundary" # "lost" /\ "boundary" \notin Over
    BY <1>4 DEF Miss, Over
  <2>2. Missed /\ pc' = (IF Lost THEN "lost" ELSE "boundary")
    BY <1>4 DEF Miss
  <2> QED
    BY <2>1, <2>2
<1>5. CASE Keep \/ Adopt \/ AdoptThrows \/ ExchangeThrows \/ StopSeen
  BY <1>5 DEF Keep, Adopt, AdoptThrows, ExchangeThrows, StopSeen, Over
<1>6. CASE \E r \in Report : Good(r)
  BY <1>6 DEF Good, Over
<1>7. CASE ClearContact \/ \E m \in Mode : RequestMode(m)
  BY <1>7 DEF ClearContact, RequestMode
<1> QED
  BY <1>1, <1>2, <1>3, <1>4, <1>5, <1>6, <1>7 DEF Next, Cycle

\* Before the loop starts nothing was missed.
LEMMA BudgetInit == Init => BudgetInv
<1>1. 0 \in Slot /\ 0 \in 0..MaxConsecutive /\ MissWindow \in 0..MissWindow
  BY ExecutorAssumption DEF Slot
<1>2. [s \in Slot |-> MissWindow] \in [Slot -> 0..MissWindow]
  BY <1>1
<1>3. <<>> \in Seq(BOOLEAN) /\ FALSE \in BOOLEAN /\ "never" \in Over
  BY DEF Over
<1> QED
  BY <1>1, <1>2, <1>3, Zenon DEF Init, BudgetInv

\* The counts of misses keep their ranges, below the limit while run() is on.
LEMMA BudgetInvNext == ASSUME BudgetInv, [Next]_vars PROVE BudgetInv'
<1>0. /\ MaxConsecutive \in Nat \ {0} /\ MaxWindow \in Nat \ {0} /\ MissWindow \in Nat \ {0}
      /\ Past \in Nat \ {0}
  BY ExecutorAssumption DEF Past, Most
<1>1. Aged \in [Slot -> 0..MissWindow]
  BY <1>0 DEF BudgetInv, Aged, AtMost
<1>2. /\ Latest(Append(recent, TRUE), Past) \in Seq(BOOLEAN)
      /\ Latest(Append(recent, FALSE), Past) \in Seq(BOOLEAN)
  <2>1. recent \in Seq(BOOLEAN) /\ TRUE \in BOOLEAN /\ FALSE \in BOOLEAN
    BY DEF BudgetInv
  <2> QED
    BY <1>0, <2>1, LatestType
<1>3. CASE UNCHANGED budget /\ (pc' \notin Over => pc \notin Over)
  BY <1>3 DEF budget, BudgetInv
<1>4. CASE /\ misses' = 0 /\ missAge' = [s \in Slot |-> MissWindow]
           /\ missNext' = 0 /\ missFull' = FALSE /\ recent' = <<>>
  <2>1. 0 \in Slot /\ 0 \in 0..MaxConsecutive /\ 0 < MaxConsecutive /\ MissWindow \in 0..MissWindow
    BY <1>0 DEF Slot
  <2>2. [s \in Slot |-> MissWindow] \in [Slot -> 0..MissWindow]
    BY <2>1
  <2>3. <<>> \in Seq(BOOLEAN) /\ FALSE \in BOOLEAN
    OBVIOUS
  <2> QED
    BY <1>4, <2>1, <2>2, <2>3, Zenon DEF BudgetInv
<1>5. CASE pc \notin Over /\ Answered
  <2>1. 0 \in 0..MaxConsecutive /\ 0 < MaxConsecutive
    BY <1>0
  <2>2. /\ misses' = 0 /\ missAge' \in [Slot -> 0..MissWindow] /\ recent' \in Seq(BOOLEAN)
        /\ missNext' = missNext /\ missFull' = missFull
    BY <1>1, <1>2, <1>5, Zenon DEF Answered
  <2> QED
    BY <2>1, <2>2, Zenon DEF BudgetInv
<1>6. CASE pc \notin Over /\ Missed /\ (pc' = "lost" <=> Lost) /\ (pc' \in Over => Lost)
  <2>1. misses \in 0..MaxConsecutive /\ misses < MaxConsecutive /\ misses' = misses + 1
    BY <1>6 DEF BudgetInv, Missed
  <2>2. misses' \in 0..MaxConsecutive /\ (misses' >= MaxConsecutive => pc' \in Over)
    BY <1>0, <1>6, <2>1 DEF Lost, Over
  <2>3. recent' \in Seq(BOOLEAN)
    BY <1>2, <1>6 DEF Missed
  <2>4. CASE Recorded
    <3>1. missAge' \in [Slot -> 0..MissWindow]
      <4>1. 0 \in 0..MissWindow /\ missAge' = [Aged EXCEPT ![missNext] = 0]
        BY <1>0, <2>4 DEF Recorded
      <4> QED
        BY <1>1, <4>1
    <3>2. missNext' \in Slot
      BY <1>0, <2>4 DEF Recorded, Slot, BudgetInv
    <3>3. missFull' \in BOOLEAN
      BY <2>4 DEF Recorded, BudgetInv
    <3> QED
      BY <1>0, <2>2, <2>3, <3>1, <3>2, <3>3 DEF BudgetInv
  <2>5. CASE UNCHANGED <<missAge, missNext, missFull>>
    BY <1>0, <2>2, <2>3, <2>5 DEF BudgetInv
  <2> QED
    BY <1>6, <2>4, <2>5 DEF Missed
<1> QED
  BY <1>3, <1>4, <1>5, <1>6, BudgetSteps

\* The counters of a fault, at their limit only when it ends run().
WatchTypes == faulty \in 0..FaultConfirm /\ not_low \in 0..LowConfirm

\* The fault counters stay within their limits.
LEMMA WatchTypesNext == ASSUME FaultInv, WatchTypes, [Next]_vars PROVE WatchTypes'
<1>1. CASE UNCHANGED watch
  BY <1>1 DEF WatchTypes, watch
<1>2. CASE faulty' = 0 /\ not_low' = 0
  BY <1>2, Limits DEF WatchTypes
<1>3. CASE pc = "exchange" /\ \E r \in Report : CheckFault(r)
  <2>1. faulty \in Nat /\ faulty < FaultConfirm /\ not_low \in Nat /\ not_low < LowConfirm
    BY <1>3 DEF FaultInv, Over
  <2> QED
    BY <1>3, <2>1, Limits DEF CheckFault, WatchTypes
<1> QED
  BY <1>1, <1>2, <1>3, WatchSteps

\* The rest of the loop's state.
LoopTypes ==
  /\ pc \in {"seed", "boundary", "exchange"} \cup Over
  /\ cmd \in Mode \cup {"zero", "freeze"}
  /\ actuators \in Actuator
  /\ env \in Scenarios

\* The loop's own variables keep their types.
LEMMA LoopTypesNext == ASSUME ModesTyped, LoopTypes, [Next]_vars PROVE LoopTypes'
<1>0. OnContact \in Mode /\ NoMode \notin Mode /\ Required \in [Mode -> Actuator]
  BY ExecutorAssumption
<1>1. CASE UNCHANGED vars \/ Start \/ SeedRead \/ Keep \/ ExchangeThrows \/ StopSeen \/ ClearContact
           \/ \E m \in Mode : RequestMode(m)
  BY <1>1 DEF LoopTypes, vars, Start, SeedRead, Keep, ExchangeThrows, StopSeen, ClearContact, RequestMode, Over
<1>2. CASE Adopt
  <2>1. ToAdopt \in Mode
    BY <1>2, AdoptsAMode DEF Adopt
  <2> QED
    BY <1>0, <1>2, <2>1 DEF Adopt, LoopTypes, Over
<1>3. CASE AdoptThrows \/ Miss
  BY <1>3 DEF AdoptThrows, Miss, LoopTypes, Over
<1>4. CASE \E r \in Report : Good(r)
  <2>1. UNCHANGED <<actuators, env>> /\ pc' \in {"fault", "boundary"} /\ (UNCHANGED cmd \/ ContactSwitch)
    BY <1>4 DEF Good
  <2>2. active \in Mode \cup {NoMode} /\ cmd \in Mode \cup {"zero", "freeze"}
    BY DEF ModesTyped, LoopTypes
  <2>3. cmd' \in Mode \cup {"zero", "freeze"}
    BY <1>0, <2>1, <2>2 DEF ContactSwitch
  <2> QED
    BY <2>1, <2>3 DEF LoopTypes, Over
<1> QED
  BY <1>1, <1>2, <1>3, <1>4 DEF Next, Cycle

\* Every reachable state of the loop and of the monitor has its type; what needs
\* an argument are the counters, that none of them passes its limit.
THEOREM TypeCorrect == Spec => []TypeOK
<1> DEFINE TypeInv == StopInv /\ MonitorTypeOK /\ BudgetInv /\ FaultInv /\ WatchTypes /\ LoopTypes
<1>1. Init => TypeInv
  <2>1. Init => MonitorTypeOK
    <3>1. /\ NoCount \in [Joint -> 0..Debounce] /\ <<>> \in Seq(SUBSET Joint)
          /\ 0 \in 0..MaxStep /\ 0 \in 0..SettleTime /\ FALSE \in BOOLEAN
      BY MonitorAssumption DEF NoCount
    <3> QED
      BY <3>1, Zenon DEF Init, MonitorInit, MonitorTypeOK
  <2>2. Init => BudgetInv
    BY BudgetInit
  <2>3. Init => FaultInv /\ WatchTypes
    BY Limits DEF Init, FaultInv, WatchTypes, Over
  <2>4. Init => LoopTypes
    BY DEF Init, LoopTypes, Over
  <2> QED
    BY <2>1, <2>2, <2>3, <2>4, StopInvInit
<1>2. TypeInv /\ [Next]_vars => TypeInv'
  BY StopInvNext, MonitorTypes, BudgetInvNext, FaultInvNext, WatchTypesNext, LoopTypesNext DEF StopInv
<1>3. TypeInv => TypeOK
  BY DEF TypeOK, StopInv, ModesTyped, BudgetInv, FaultInv, WatchTypes, LoopTypes
<1> QED
  BY <1>1, <1>2, <1>3, PTL DEF Spec

-----------------------------------------------------------------------------
(* The lost link.                                                           *)

\* Slot s was filled before slot t, when next is the slot filled longest ago.
Older(next, s, t) == IF s < next THEN s < t /\ t < next ELSE t < next \/ s < t

\* The ring says when the last misses were: an age below the window is that of a
\* miss in the history, ages fall along the ring, and a miss inside the window is
\* in a slot unless every slot holds a younger one.
RingTells(age, next, full, h) ==
  /\ \A s \in Slot : age[s] < MissWindow => age[s] < Len(h) /\ h[Len(h) - age[s]] = TRUE
  /\ \A s, t \in Slot : Older(next, s, t) => age[s] > age[t] \/ age[s] = MissWindow
  /\ \A a \in 0..(Len(h) - 1) :
       a < MissWindow /\ h[Len(h) - a] = TRUE => (\E s \in Slot : age[s] = a) \/ age[next] < a
  /\ ~full => \A s \in Slot : s >= next => age[s] = MissWindow

InWindow(h) == {i \in 1..Len(h) : h[i] /\ i + MissWindow > Len(h)}

\* The limits are positive, and the history reaches back as far as they do.
LEMMA BudgetLimits ==
  /\ MaxConsecutive \in Nat \ {0} /\ MaxWindow \in Nat \ {0} /\ MissWindow \in Nat \ {0}
  /\ Past \in Nat \ {0} /\ MissWindow <= Past /\ MaxConsecutive <= Past
  BY ExecutorAssumption DEF Past, Most

\* Of two slots one is older, and the next to be filled is the oldest of all.
LEMMA SlotsOrdered ==
  ASSUME NEW next \in Slot, NEW s \in Slot, NEW t \in Slot, s # t
  PROVE  (Older(next, s, t) \/ Older(next, t, s)) /\ Older(next, next, IF s = next THEN t ELSE s)
<1>1. Slot \subseteq Int
  BY BudgetLimits DEF Slot
<1> QED
  BY <1>1 DEF Older

\* The window is spent just when it holds MaxWindow misses: the slots stand for
\* as many of them, and none is without a slot while one is free.
LEMMA WindowCounts ==
  ASSUME NEW age \in [Slot -> 0..MissWindow], NEW next \in Slot, NEW full,
         NEW h \in Seq(BOOLEAN), RingTells(age, next, full, h)
  PROVE  WindowSpent(age, next, full) <=> Cardinality(InWindow(h)) >= MaxWindow
<1>0. /\ MaxWindow \in Nat \ {0} /\ MissWindow \in Nat \ {0} /\ Len(h) \in Nat
      /\ \A s \in Slot : age[s] \in 0..MissWindow
  BY BudgetLimits
<1>1. IsFiniteSet(InWindow(h)) /\ Cardinality(InWindow(h)) \in Nat
  <2>1. IsFiniteSet(1..Len(h))
    BY <1>0, FS_Interval
  <2>2. InWindow(h) \in SUBSET (1..Len(h))
    BY DEF InWindow
  <2> QED
    BY <2>1, <2>2, FS_Subset, FS_CardinalityType
<1>2. IsFiniteSet(Slot) /\ Cardinality(Slot) = MaxWindow
  <2>1. 0 \in Int /\ MaxWindow - 1 \in Int /\ ~(0 > MaxWindow - 1)
    BY <1>0
  <2>2. IsFiniteSet(0..(MaxWindow - 1)) /\ Cardinality(0..(MaxWindow - 1)) = (MaxWindow - 1) - 0 + 1
    BY <2>1, FS_Interval
  <2> QED
    BY <1>0, <2>2 DEF Slot
<1>3. ASSUME WindowSpent(age, next, full)
      PROVE  Cardinality(InWindow(h)) >= MaxWindow
  <2>1. age[next] < MissWindow
    BY <1>3 DEF WindowSpent
  <2>2. \A s \in Slot : age[s] < MissWindow
    <3>1. TAKE s \in Slot
    <3>2. CASE s = next
      BY <2>1, <3>2
    <3>3. CASE s # next
      <4>1. Older(next, next, s)
        BY <3>3, SlotsOrdered
      <4>2. age[next] > age[s]
        BY <1>0, <2>1, <4>1 DEF RingTells
      <4> QED
        BY <1>0, <2>1, <4>2
    <3> QED
      BY <3>2, <3>3
  <2>3. \A s \in Slot : Len(h) - age[s] \in InWindow(h)
    <3>1. TAKE s \in Slot
    <3>2. age[s] < Len(h) /\ h[Len(h) - age[s]] = TRUE
      BY <2>2 DEF RingTells
    <3>3. Len(h) - age[s] \in 1..Len(h) /\ Len(h) - age[s] + MissWindow > Len(h)
      BY <1>0, <2>2, <3>2
    <3> QED
      BY <3>2, <3>3 DEF InWindow
  <2>4. \A s, t \in Slot : s # t => Len(h) - age[s] # Len(h) - age[t]
    <3>1. TAKE s, t \in Slot
    <3>2. HAVE s # t
    <3>3. age[s] # age[t]
      BY <1>0, <2>2, <3>2, SlotsOrdered DEF RingTells
    <3> QED
      BY <1>0, <3>3
  <2> DEFINE f == [s \in Slot |-> Len(h) - age[s]]
  <2>5. f \in Injection(Slot, InWindow(h))
    BY <2>3, <2>4 DEF Injection, IsInjective
  <2> HIDE DEF f
  <2>6. Cardinality(Slot) <= Cardinality(InWindow(h))
    BY <1>1, <2>5, FS_Injection
  <2> QED
    BY <1>0, <1>1, <1>2, <2>6
<1>4. ASSUME ~WindowSpent(age, next, full)
      PROVE  ~(Cardinality(InWindow(h)) >= MaxWindow)
  <2>1. age[next] = MissWindow
    <3>1. CASE full
      BY <1>0, <1>4, <3>1 DEF WindowSpent
    <3>2. CASE ~full
      BY <1>0, <3>2 DEF RingTells, Slot
    <3> QED
      BY <3>1, <3>2
  <2> DEFINE R == Slot \ {next}
             f == [i \in InWindow(h) |-> CHOOSE s \in R : age[s] = Len(h) - i]
  <2>2. ASSUME NEW i \in InWindow(h)
        PROVE  \E s \in R : age[s] = Len(h) - i
    <3>1. i \in 1..Len(h) /\ i + MissWindow > Len(h) /\ h[i] = TRUE
      BY DEF InWindow
    <3>2. /\ Len(h) - i \in 0..(Len(h) - 1) /\ Len(h) - i < MissWindow
          /\ Len(h) - (Len(h) - i) = i
      BY <1>0, <3>1
    <3>3. ~(age[next] < Len(h) - i) /\ age[next] # Len(h) - i
      BY <1>0, <2>1, <3>2
    <3>4. \E s \in Slot : age[s] = Len(h) - i
      BY <3>1, <3>2, <3>3 DEF RingTells
    <3> QED
      BY <3>3, <3>4
  <2>3. \A i \in InWindow(h) : f[i] \in R /\ age[f[i]] = Len(h) - i
    BY <2>2
  <2>4. \A i, j \in InWindow(h) : f[i] = f[j] => i = j
    <3>1. InWindow(h) \subseteq Int
      BY DEF InWindow
    <3> QED
      BY <1>0, <2>3, <3>1
  <2>5. f \in Injection(InWindow(h), R)
    BY <2>3, <2>4 DEF Injection, IsInjective
  <2>6. IsFiniteSet(R) /\ Cardinality(R) = MaxWindow - 1
    BY <1>2, FS_RemoveElement
  <2> HIDE DEF f, R
  <2>7. Cardinality(InWindow(h)) <= Cardinality(R)
    BY <2>5, <2>6, FS_Injection
  <2> QED
    BY <1>0, <1>1, <2>6, <2>7
<1> QED
  BY <1>3, <1>4

\* The ring one exchange later, before a miss of that exchange is recorded.
Later(age) == [s \in Slot |-> AtMost(age[s] + 1, MissWindow)]

\* What it still says about a history that goes back from x.
LaterTells(aged, next, full, t, x) ==
  /\ t \in Seq(BOOLEAN) /\ Len(t) \in 1..Past /\ t[Len(t)] = x
  /\ aged \in [Slot -> 1..MissWindow]
  /\ \A s \in Slot : aged[s] < MissWindow => aged[s] < Len(t) /\ t[Len(t) - aged[s]] = TRUE
  /\ \A s, r \in Slot : Older(next, s, r) => aged[s] > aged[r] \/ aged[s] = MissWindow
  /\ \A a \in 1..(Len(t) - 1) :
       a < MissWindow /\ t[Len(t) - a] = TRUE => (\E s \in Slot : aged[s] = a) \/ aged[next] < a
  /\ ~full => \A s \in Slot : s >= next => aged[s] = MissWindow

\* One exchange on, every miss is one older, also in a history that is cut.
LEMMA RingAges ==
  ASSUME NEW age \in [Slot -> 0..MissWindow], NEW next \in Slot, NEW full,
         NEW h \in Seq(BOOLEAN), Len(h) <= Past, RingTells(age, next, full, h),
         NEW x \in BOOLEAN
  PROVE  LaterTells(Later(age), next, full, Latest(Append(h, x), Past), x)
<1> DEFINE t == Latest(Append(h, x), Past)
           aged == Later(age)
<1>0. /\ MissWindow \in Nat \ {0} /\ Past \in Nat \ {0} /\ MissWindow <= Past /\ Len(h) \in Nat
      /\ \A s \in Slot : age[s] \in 0..MissWindow
  BY BudgetLimits
<1>1. t \in Seq(BOOLEAN) /\ Shifted(t, h, x, Past)
  BY <1>0, LatestAppend
<1>2. /\ Len(t) = AtMost(Len(h) + 1, Past) /\ t[Len(t)] = x
      /\ \A k \in 1..(Len(t) - 1) : t[Len(t) - k] = h[Len(h) + 1 - k]
  BY <1>1 DEF Shifted
<1>3. Len(t) \in Nat \ {0} /\ Len(t) <= Past /\ Len(t) <= Len(h) + 1
  BY <1>0, <1>2 DEF AtMost
<1>4. aged = [s \in Slot |-> AtMost(age[s] + 1, MissWindow)]
  BY DEF Later
<1> HIDE DEF t, aged
<1>b. \A s \in Slot : /\ aged[s] \in 1..MissWindow
                      /\ aged[s] < MissWindow => aged[s] = age[s] + 1 /\ age[s] < MissWindow
                      /\ age[s] < MissWindow => aged[s] = age[s] + 1
                      /\ age[s] = MissWindow => aged[s] = MissWindow
  BY <1>0, <1>4 DEF AtMost
<1>5. aged \in [Slot -> 1..MissWindow]
  BY <1>4, <1>b
<1>6. ASSUME NEW s \in Slot, aged[s] < MissWindow
      PROVE  aged[s] < Len(t) /\ t[Len(t) - aged[s]] = TRUE
  <2>1. aged[s] = age[s] + 1 /\ age[s] < MissWindow /\ age[s] \in Nat
    BY <1>0, <1>b, <1>6
  <2>2. age[s] < Len(h) /\ h[Len(h) - age[s]] = TRUE
    BY <2>1 DEF RingTells
  <2>3. aged[s] < Len(t) /\ aged[s] \in 1..(Len(t) - 1) /\ Len(h) + 1 - aged[s] = Len(h) - age[s]
    BY <1>0, <1>2, <1>6, <2>1, <2>2 DEF AtMost
  <2> QED
    BY <1>2, <2>2, <2>3
<1>7. ASSUME NEW s \in Slot, NEW r \in Slot, Older(next, s, r)
      PROVE  aged[s] > aged[r] \/ aged[s] = MissWindow
  <2>1. age[s] > age[r] \/ age[s] = MissWindow
    BY <1>7 DEF RingTells
  <2> QED
    BY <1>0, <1>b, <2>1
<1>8. ASSUME NEW a \in 1..(Len(t) - 1), a < MissWindow, t[Len(t) - a] = TRUE
      PROVE  (\E s \in Slot : aged[s] = a) \/ aged[next] < a
  <2>1. a - 1 \in 0..(Len(h) - 1) /\ a - 1 < MissWindow /\ Len(h) + 1 - a = Len(h) - (a - 1)
    BY <1>0, <1>3, <1>8
  <2>2. h[Len(h) - (a - 1)] = TRUE
    BY <1>2, <1>8, <2>1
  <2>3. (\E s \in Slot : age[s] = a - 1) \/ age[next] < a - 1
    BY <2>1, <2>2 DEF RingTells
  <2>4. CASE \E s \in Slot : age[s] = a - 1
    <3>1. PICK s \in Slot : age[s] = a - 1
      BY <2>4
    <3> QED
      BY <1>b, <2>1, <3>1
  <2>5. CASE age[next] < a - 1
    <3>1. age[next] < MissWindow /\ aged[next] = age[next] + 1
      BY <1>0, <1>b, <1>8, <2>5
    <3> QED
      BY <1>0, <2>5, <3>1
  <2> QED
    BY <2>3, <2>4, <2>5
<1>9. ASSUME ~full, NEW s \in Slot, s >= next
      PROVE  aged[s] = MissWindow
  BY <1>b, <1>9 DEF RingTells
<1>10. t \in Seq(BOOLEAN) /\ Len(t) \in 1..Past /\ t[Len(t)] = x
  BY <1>0, <1>1, <1>2, <1>3
<1>11. LaterTells(aged, next, full, t, x)
  BY <1>5, <1>6, <1>7, <1>8, <1>9, <1>10, Zenon DEF LaterTells
<1> QED
  BY <1>11 DEF t, aged

\* An exchange that was answered.
LEMMA RingAnswered ==
  ASSUME NEW age \in [Slot -> 0..MissWindow], NEW next \in Slot, NEW full,
         NEW h \in Seq(BOOLEAN), Len(h) <= Past, RingTells(age, next, full, h)
  PROVE  RingTells(Later(age), next, full, Latest(Append(h, FALSE), Past))
<1> DEFINE t == Latest(Append(h, FALSE), Past)
           aged == Later(age)
<1>1. LaterTells(aged, next, full, t, FALSE)
  BY RingAges
<1> HIDE DEF t, aged
<1>2. Len(t) \in Nat \ {0}
  BY <1>1 DEF LaterTells
<1>3. t[Len(t)] # TRUE
  BY <1>1 DEF LaterTells
<1>4. ASSUME NEW a \in 0..(Len(t) - 1), a < MissWindow, t[Len(t) - a] = TRUE
      PROVE  (\E s \in Slot : aged[s] = a) \/ aged[next] < a
  <2>1. ASSUME a = 0 PROVE FALSE
    <3>1. Len(t) - a = Len(t)
      BY <1>2, <2>1
    <3> QED
      BY <1>3, <1>4, <3>1
  <2>2. a \in 1..(Len(t) - 1)
    BY <1>2, <2>1
  <2> QED
    BY <1>1, <1>4, <2>2 DEF LaterTells
<1>5. RingTells(aged, next, full, t)
  BY <1>1, <1>4 DEF RingTells, LaterTells
<1> QED
  BY <1>5 DEF t, aged

\* The slot just filled is the youngest; the order of the others stays.
LEMMA SlotsAdvance ==
  ASSUME NEW next \in Slot, NEW new, new = (next + 1) % MaxWindow
  PROVE  /\ new \in Slot /\ (new # 0 => new = next + 1) /\ (new = next => MaxWindow = 1)
         /\ \A s, t \in Slot : Older(new, s, t) => s # next /\ (t # next => Older(next, s, t))
<1>1. MaxWindow \in Nat \ {0} /\ next \in 0..(MaxWindow - 1) /\ Slot \subseteq Int
  BY BudgetLimits DEF Slot
<1>2. CASE next = MaxWindow - 1
  <2>1. new = 0
    BY <1>1, <1>2
  <2>2. \A s, t \in Slot : s \in 0..(MaxWindow - 1) /\ t \in 0..(MaxWindow - 1)
    BY DEF Slot
  <2> QED
    BY <1>1, <1>2, <2>1, <2>2 DEF Older, Slot
<1>3. CASE next # MaxWindow - 1
  <2>1. new = next + 1
    BY <1>1, <1>3
  <2>2. new \in Slot
    BY <1>1, <1>3, <2>1 DEF Slot
  <2> QED
    BY <1>1, <2>1, <2>2 DEF Older
<1> QED
  BY <1>2, <1>3

\* An exchange that was missed and recorded.
LEMMA RingRecorded ==
  ASSUME NEW age \in [Slot -> 0..MissWindow], NEW next \in Slot, NEW full \in BOOLEAN,
         NEW h \in Seq(BOOLEAN), Len(h) <= Past, RingTells(age, next, full, h),
         NEW new, new = (next + 1) % MaxWindow
  PROVE  RingTells([Later(age) EXCEPT ![next] = 0], new, full \/ new = 0,
                   Latest(Append(h, TRUE), Past))
<1> DEFINE t == Latest(Append(h, TRUE), Past)
           aged == Later(age)
           fresh == [aged EXCEPT ![next] = 0]
<1>0. MissWindow \in Nat \ {0} /\ MaxWindow \in Nat \ {0}
  BY BudgetLimits
<1>1. LaterTells(aged, next, full, t, TRUE)
  BY RingAges
<1> HIDE DEF t, aged
<1>a. Len(t) \in Nat \ {0}
  BY <1>1 DEF LaterTells
<1>b. t[Len(t)] = TRUE
  BY <1>1 DEF LaterTells
<1>2. /\ fresh[next] = 0 /\ \A s \in Slot : s # next => fresh[s] = aged[s]
      /\ \A s \in Slot : aged[s] \in 1..MissWindow
  BY <1>1 DEF LaterTells
<1> HIDE DEF fresh
<1>3. /\ new \in Slot /\ (new # 0 => new = next + 1) /\ (new = next => MaxWindow = 1)
      /\ \A s, r \in Slot : Older(new, s, r) => s # next /\ (r # next => Older(next, s, r))
  BY SlotsAdvance
<1>4. ASSUME NEW s \in Slot, fresh[s] < MissWindow
      PROVE  fresh[s] < Len(t) /\ t[Len(t) - fresh[s]] = TRUE
  <2>1. CASE s = next
    <3>1. fresh[s] = 0
      BY <1>2, <2>1
    <3>2. fresh[s] < Len(t) /\ Len(t) - fresh[s] = Len(t)
      BY <1>a, <3>1
    <3> QED
      BY <1>b, <3>2
  <2>2. CASE s # next
    <3>1. fresh[s] = aged[s]
      BY <1>2, <2>2
    <3> QED
      BY <1>1, <1>4, <3>1 DEF LaterTells
  <2> QED
    BY <2>1, <2>2
<1>5. ASSUME NEW s \in Slot, NEW r \in Slot, Older(new, s, r)
      PROVE  fresh[s] > fresh[r] \/ fresh[s] = MissWindow
  <2>1. s # next /\ fresh[s] = aged[s] /\ aged[s] \in 1..MissWindow
    BY <1>2, <1>3, <1>5
  <2>2. CASE r = next
    BY <1>0, <1>2, <2>1, <2>2
  <2>3. CASE r # next
    <3>1. Older(next, s, r) /\ fresh[r] = aged[r]
      BY <1>2, <1>3, <1>5, <2>3
    <3> QED
      BY <1>1, <2>1, <3>1 DEF LaterTells
  <2> QED
    BY <2>2, <2>3
<1>6. ASSUME NEW a \in 0..(Len(t) - 1), a < MissWindow, t[Len(t) - a] = TRUE
      PROVE  (\E s \in Slot : fresh[s] = a) \/ fresh[new] < a
  <2>1. CASE a = 0
    BY <1>2, <2>1
  <2>2. CASE a # 0
    <3>1. a \in 1..(Len(t) - 1)
      BY <1>a, <2>2
    <3>2. (\E s \in Slot : aged[s] = a) \/ aged[next] < a
      BY <1>1, <1>6, <3>1 DEF LaterTells
    <3>3. CASE \E s \in Slot : s # next /\ aged[s] = a
      BY <1>2, <3>3
    <3>4. ASSUME aged[next] <= a
          PROVE  (\E s \in Slot : fresh[s] = a) \/ fresh[new] < a
      <4>1. CASE new = next
        BY <1>2, <3>1, <4>1
      <4>2. CASE new # next
        <5>1. Older(next, next, new)
          BY <1>3, <4>2, SlotsOrdered
        <5>2. aged[next] > aged[new] \/ aged[next] = MissWindow
          BY <1>1, <1>3, <5>1 DEF LaterTells
        <5>3. aged[new] < a
          BY <1>0, <1>2, <1>3, <1>6, <3>1, <3>4, <5>2
        <5> QED
          BY <1>2, <1>3, <4>2, <5>3
      <4> QED
        BY <4>1, <4>2
    <3>5. aged[next] = a \/ aged[next] < a => aged[next] <= a
      BY <1>2, <3>1
    <3> QED
      BY <3>2, <3>3, <3>4, <3>5
  <2> QED
    BY <2>1, <2>2
<1>7. ASSUME ~(full \/ new = 0), NEW s \in Slot, s >= new
      PROVE  fresh[s] = MissWindow
  <2>1. s # next /\ s >= next
    BY <1>3, <1>7 DEF Slot
  <2> QED
    BY <1>1, <1>2, <1>7, <2>1 DEF LaterTells
<1>8. RingTells(fresh, new, full \/ new = 0, t)
  BY <1>4, <1>5, <1>6, <1>7 DEF RingTells
<1> QED
  BY <1>8 DEF t, aged, fresh

\* While run() is on, the counter and the ring tell of the same history.
CommsInv ==
  /\ Len(recent) <= Past
  /\ pc \notin Over => /\ Trailing(misses, recent, {TRUE})
                       /\ RingTells(missAge, missNext, missFull, recent)

\* A ring that holds nothing tells of a history that is empty.
LEMMA NothingMissed == RingTells([s \in Slot |-> MissWindow], 0, FALSE, <<>>)
  BY BudgetLimits DEF RingTells

\* A missed exchange that leaves the misses in a row below their limit.
LEMMA RecordedTells ==
  ASSUME BudgetInv, CommsInv, pc \notin Over, Missed, misses' < MaxConsecutive
  PROVE  /\ missAge' \in [Slot -> 0..MissWindow] /\ missNext' \in Slot
         /\ RingTells(missAge', missNext', missFull', recent')
<1>0. MissWindow \in Nat \ {0} /\ MaxWindow \in Nat \ {0}
  BY BudgetLimits
<1>1. /\ missAge \in [Slot -> 0..MissWindow] /\ missNext \in Slot /\ missFull \in BOOLEAN
      /\ recent \in Seq(BOOLEAN)
  BY DEF BudgetInv
<1>2. Len(recent) <= Past /\ RingTells(missAge, missNext, missFull, recent)
  BY DEF CommsInv
<1>3. Aged = Later(missAge)
  BY DEF Aged, Later
<1>4. /\ missAge' = [Later(missAge) EXCEPT ![missNext] = 0]
      /\ missNext' = (missNext + 1) % MaxWindow
      /\ missFull' = (missFull \/ missNext' = 0)
  BY <1>3 DEF Missed, Recorded
<1>5. recent' = Latest(Append(recent, TRUE), Past)
  BY DEF Missed
<1>6. RingTells([Later(missAge) EXCEPT ![missNext] = 0], missNext', missFull \/ missNext' = 0,
                Latest(Append(recent, TRUE), Past))
  BY <1>1, <1>2, <1>4, RingRecorded
<1>7. Later(missAge) \in [Slot -> 0..MissWindow]
  BY <1>0, <1>1 DEF Later, AtMost
<1>8. missAge' \in [Slot -> 0..MissWindow]
  <2>1. 0 \in 0..MissWindow
    BY <1>0
  <2> QED
    BY <1>4, <1>7, <2>1
<1>9. missNext' \in Slot
  BY <1>1, <1>4, SlotsAdvance
<1>10. RingTells(missAge', missNext', missFull', recent')
  BY <1>4, <1>5, <1>6, Zenon
<1> QED
  BY <1>8, <1>9, <1>10

\* The counter after a miss.
LEMMA MissCounted ==
  ASSUME BudgetInv, CommsInv, pc \notin Over, Missed
  PROVE  /\ recent' \in Seq(BOOLEAN) /\ Len(recent') <= Past
         /\ misses' \in Nat /\ Trailing(misses', recent', {TRUE})
<1>1. /\ misses \in Nat /\ misses < MaxConsecutive /\ misses' = misses + 1
      /\ recent \in Seq(BOOLEAN) /\ recent' = Latest(Append(recent, TRUE), Past)
  BY BudgetLimits DEF BudgetInv, Missed
<1>2. Len(recent) <= Past /\ Trailing(misses, recent, {TRUE})
  BY DEF CommsInv
<1>3. Past \in Nat \ {0} /\ MaxConsecutive \in Nat \ {0} /\ MaxConsecutive <= Past
  BY BudgetLimits
<1>4. recent' \in Seq(BOOLEAN) /\ Shifted(recent', recent, TRUE, Past)
  <2>1. TRUE \in BOOLEAN
    OBVIOUS
  <2> QED
    BY <1>1, <1>2, <1>3, <2>1, LatestAppend
<1>5. Len(recent') <= Past
  <2>1. Len(recent') = AtMost(Len(recent) + 1, Past)
    BY <1>4 DEF Shifted
  <2>2. Len(recent) \in Nat
    BY <1>1
  <2> QED
    BY <1>3, <2>1, <2>2 DEF AtMost
<1>6. TRUE \in {TRUE} /\ misses' = AtMost(misses + 1, Past)
  BY <1>1, <1>3 DEF AtMost
<1>7. Trailing(misses', recent', {TRUE})
  <2>1. TRUE \in BOOLEAN
    OBVIOUS
  <2>2. misses' = (IF TRUE \in {TRUE} THEN AtMost(misses + 1, Past) ELSE 0)
    BY <1>6
  <2> QED
    BY <1>1, <1>2, <1>3, <2>1, <2>2, TrailingStep
<1>8. misses' \in Nat
  BY <1>1
<1> QED
  BY <1>4, <1>5, <1>7, <1>8

\* A miss is one too many just when the history says so.
LEMMA MissedExact ==
  ASSUME BudgetInv, CommsInv, pc \notin Over, Missed
  PROVE  Lost <=> TooManyMisses(recent')
<1>0. MaxConsecutive \in Nat \ {0}
  BY BudgetLimits
<1>1. recent' \in Seq(BOOLEAN) /\ misses' \in Nat /\ Trailing(misses', recent', {TRUE})
  BY MissCounted
<1> DEFINE Row == /\ Len(recent') >= MaxConsecutive
                  /\ \A i \in (Len(recent') + 1 - MaxConsecutive)..Len(recent') : recent'[i]
<1>2. misses' >= MaxConsecutive <=> Row
  <2>1. misses' >= MaxConsecutive <=>
          /\ Len(recent') >= MaxConsecutive
          /\ \A i \in (Len(recent') + 1 - MaxConsecutive)..Len(recent') : recent'[i] \in {TRUE}
    BY <1>0, <1>1, TrailingReaches
  <2>2. Len(recent') >= MaxConsecutive =>
          \A i \in (Len(recent') + 1 - MaxConsecutive)..Len(recent') : recent'[i] \in BOOLEAN
    <3>1. SUFFICES ASSUME Len(recent') >= MaxConsecutive,
                          NEW i \in (Len(recent') + 1 - MaxConsecutive)..Len(recent')
                   PROVE  recent'[i] \in BOOLEAN
      OBVIOUS
    <3>2. i \in 1..Len(recent')
      BY <1>0, <1>1, <3>1
    <3> QED
      BY <1>1, <3>2
  <2> QED
    BY <2>1, <2>2
<1>3. TooManyMisses(recent') <=> Row \/ Cardinality(InWindow(recent')) >= MaxWindow
  BY DEF TooManyMisses, InWindow
<1> HIDE DEF Row
<1>4. CASE misses' >= MaxConsecutive
  BY <1>2, <1>3, <1>4 DEF Lost
<1>5. CASE ~(misses' >= MaxConsecutive)
  <2>1. misses' < MaxConsecutive
    BY <1>0, <1>1, <1>5
  <2>2. /\ missAge' \in [Slot -> 0..MissWindow] /\ missNext' \in Slot
        /\ RingTells(missAge', missNext', missFull', recent')
    BY <2>1, RecordedTells
  <2>3. WindowSpent(missAge', missNext', missFull') <=> Cardinality(InWindow(recent')) >= MaxWindow
    BY <1>1, <2>2, WindowCounts
  <2> QED
    BY <1>2, <1>3, <1>5, <2>3 DEF Lost
<1> QED
  BY <1>4, <1>5

\* The counter and the ring keep telling of the history, whatever the step.
LEMMA CommsInvNext == ASSUME BudgetInv, CommsInv, [Next]_vars PROVE CommsInv'
<1>1. CASE UNCHANGED budget /\ (pc' \notin Over => pc \notin Over)
  BY <1>1 DEF budget, CommsInv
<1>2. CASE /\ misses' = 0 /\ missAge' = [s \in Slot |-> MissWindow]
           /\ missNext' = 0 /\ missFull' = FALSE /\ recent' = <<>>
  <2>1. Len(<<>>) <= Past
    BY BudgetLimits
  <2>2. Trailing(0, <<>>, {TRUE}) /\ RingTells([s \in Slot |-> MissWindow], 0, FALSE, <<>>)
    BY NothingTrails, NothingMissed
  <2> QED
    BY <1>2, <2>1, <2>2, Zenon DEF CommsInv
<1>3. CASE pc \notin Over /\ Answered
  <2>1. /\ missAge \in [Slot -> 0..MissWindow] /\ missNext \in Slot /\ recent \in Seq(BOOLEAN)
        /\ misses \in 0..MaxConsecutive
    BY DEF BudgetInv
  <2>0. misses \in Nat
    BY <2>1, BudgetLimits
  <2>2. /\ Len(recent) <= Past /\ Trailing(misses, recent, {TRUE})
        /\ RingTells(missAge, missNext, missFull, recent)
    BY <1>3 DEF CommsInv
  <2>3. /\ misses' = 0 /\ missAge' = Later(missAge) /\ missNext' = missNext /\ missFull' = missFull
        /\ recent' = Latest(Append(recent, FALSE), Past)
    BY <1>3 DEF Answered, Aged, Later
  <2>4. RingTells(Later(missAge), missNext, missFull, Latest(Append(recent, FALSE), Past))
    BY <2>1, <2>2, RingAnswered
  <2>5. Past \in Nat \ {0} /\ FALSE \in BOOLEAN
    BY BudgetLimits
  <2>6. recent' \in Seq(BOOLEAN) /\ Shifted(recent', recent, FALSE, Past)
    BY <2>1, <2>2, <2>3, <2>5, LatestAppend
  <2>7. Len(recent') <= Past
    BY <2>1, <2>5, <2>6 DEF Shifted, AtMost
  <2>8. Trailing(misses', recent', {TRUE})
    <3>1. misses' = (IF FALSE \in {TRUE} THEN AtMost(misses + 1, Past) ELSE 0)
      BY <2>3
    <3> QED
      BY <2>0, <2>1, <2>2, <2>3, <2>5, <3>1, TrailingStep
  <2>9. RingTells(missAge', missNext', missFull', recent')
    BY <2>3, <2>4, Zenon
  <2> QED
    BY <2>7, <2>8, <2>9 DEF CommsInv
<1>4. CASE pc \notin Over /\ Missed /\ (pc' = "lost" <=> Lost) /\ (pc' \in Over => Lost)
  <2>1. Len(recent') <= Past /\ misses' \in Nat /\ Trailing(misses', recent', {TRUE})
    BY <1>4, MissCounted
  <2>2. ASSUME pc' \notin Over PROVE RingTells(missAge', missNext', missFull', recent')
    <3>1. ~Lost
      BY <1>4, <2>2 DEF Over
    <3>2. misses' < MaxConsecutive
      BY <2>1, <3>1, BudgetLimits DEF Lost
    <3> QED
      BY <1>4, <3>2, RecordedTells
  <2> QED
    BY <2>1, <2>2 DEF CommsInv
<1> QED
  BY <1>1, <1>2, <1>3, <1>4, BudgetSteps

\* A run ends with comms lost on exactly the miss that makes too many of them,
\* for any limits (LossExactly).
THEOREM LossesAreExact == Spec => LossExactly
<1>1. Init => BudgetInv /\ CommsInv
  <2> SUFFICES ASSUME Init PROVE BudgetInv /\ CommsInv
    OBVIOUS
  <2>1. BudgetInv
    BY BudgetInit
  <2>2. Len(<<>>) <= Past /\ pc \in Over /\ recent = <<>>
    BY BudgetLimits DEF Init, Over
  <2> QED
    BY <2>1, <2>2 DEF CommsInv
<1>2. BudgetInv /\ CommsInv /\ [Next]_vars => BudgetInv' /\ CommsInv'
  BY BudgetInvNext, CommsInvNext
<1>3. ASSUME BudgetInv, CommsInv, [Next]_vars, misses' = misses + 1
      PROVE  pc' = "lost" <=> TooManyMisses(recent')
  <2>1. misses \in Nat
    <3>1. misses \in 0..MaxConsecutive
      BY <1>3 DEF BudgetInv
    <3> QED
      BY <3>1, BudgetLimits
  <2>2. misses' # misses /\ misses' # 0
    BY <1>3, <2>1
  <2>3. pc \notin Over /\ Missed /\ (pc' = "lost" <=> Lost)
    BY <1>3, <2>2, BudgetSteps DEF budget, Answered
  <2> QED
    BY <1>3, <2>3, MissedExact
<1>4. BudgetInv /\ CommsInv /\ [Next]_vars =>
        [misses' = misses + 1 => (pc' = "lost" <=> TooManyMisses(recent'))]_vars
  BY <1>3
<1> QED
  BY <1>1, <1>2, <1>4, PTL DEF Spec, LossExactly
=============================================================================
