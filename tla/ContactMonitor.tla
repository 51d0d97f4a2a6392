---------------------------- MODULE ContactMonitor ----------------------------
(***************************************************************************)
(* kinova::ContactMonitor: the unexpected-contact latch.                    *)
(*                                                                          *)
(* The real-time thread calls on_run_start() and step(); a supervisor calls *)
(* request_clear() from its own thread.  A residual is abstracted to the    *)
(* set of joints over their threshold, time to units of one cycle: a good   *)
(* sample steps the observer over the time since the last good one, MaxStep *)
(* at most, and the residual is trusted once the observer has been stepped  *)
(* for SettleTime since it was last reset.  Thresholds and status leave     *)
(* the latch alone and are left out.                                        *)
(***************************************************************************)
EXTENDS Naturals, Sequences

CONSTANTS
  Joint,        \* the joints
  Debounce,     \* ContactMonitorConfig::debounce_cycles
  SettleTime,   \* settle_s_, in cycles
  MaxStep,      \* max_step_s_, in cycles
  Enforce       \* detection is kEnforce, not kObserve

ASSUME MonitorAssumption ==
  /\ Debounce \in Nat \ {0}
  /\ SettleTime \in Nat \ {0} /\ MaxStep \in Nat \ {0}
  /\ Enforce \in BOOLEAN

VARIABLES
  latched,          \* latched_
  clear_requested,  \* clear_requested_
  count,            \* count_
  owed,             \* pending_dt_, no more of it than MaxStep
  observed,         \* the observer's time since its reset, no more than SettleTime
  streak            \* history: the joints over in the last Debounce counted samples

monitor == <<latched, clear_requested, count, owed, observed, streak>>

AtMost(n, bound) == IF n < bound THEN n ELSE bound

NoCount == [j \in Joint |-> 0]

\* The last n elements of s.
Latest(s, n) == IF Len(s) <= n THEN s ELSE SubSeq(s, Len(s) + 1 - n, Len(s))

MonitorTypeOK ==
  /\ latched \in BOOLEAN /\ clear_requested \in BOOLEAN
  /\ count \in [Joint -> 0..Debounce]
  /\ owed \in 0..MaxStep /\ observed \in 0..SettleTime
  /\ streak \in Seq(SUBSET Joint)

MonitorInit ==
  /\ latched = FALSE /\ clear_requested = FALSE
  /\ count = NoCount /\ owed = 0 /\ observed = 0
  /\ streak = <<>>

-----------------------------------------------------------------------------
\* request_clear(), on the supervisor's thread.
RequestClear ==
  /\ clear_requested' = TRUE
  /\ UNCHANGED <<latched, count, owed, observed, streak>>

\* on_run_start(): a clear requested between runs is consumed, the observer
\* starts again, and the latch is otherwise kept.
OnRunStart ==
  /\ latched' = (latched /\ ~clear_requested)
  /\ clear_requested' = FALSE
  /\ count' = NoCount /\ owed' = 0 /\ observed' = 0
  /\ streak' = <<>>

\* A value as the rest of step() finds it: a clear consumed first restarts it.
Cleared(value, restarted) == IF clear_requested THEN restarted ELSE value

\* The latch after step() has consumed a clear.
Still == latched /\ ~clear_requested

\* step() on a missed or non-finite sample: nothing is counted, its time is
\* owed to the next good one.
StepSkipped ==
  /\ latched' = Still
  /\ clear_requested' = FALSE
  /\ count' = Cleared(count, NoCount)
  /\ owed' = AtMost(Cleared(owed, 0) + 1, MaxStep)
  /\ observed' = Cleared(observed, 0)
  /\ streak' = Cleared(streak, <<>>)

\* The observer's time once a good sample has been integrated.
Integrated == AtMost(Cleared(observed, 0) + AtMost(Cleared(owed, 0) + 1, MaxStep), SettleTime)

\* The sample is counted: the latch is down and the residual is trusted.
Counted == ~Still /\ Integrated = SettleTime

\* A joint's counter climbs while it is over, saturates, and drops to zero.
MutTally(over) ==              \* mutant: one sample under does not drop the counter
  [j \in Joint |-> IF j \in over THEN AtMost(Cleared(count, NoCount)[j] + 1, Debounce)
                   ELSE Cleared(count, NoCount)[j]]

Tally(over) ==
  [j \in Joint |-> IF j \in over THEN AtMost(Cleared(count, NoCount)[j] + 1, Debounce) ELSE 0]

\* A joint reaches Debounce in this sample, and did not have it before.
Crosses(over) ==
  \E j \in over : Tally(over)[j] = Debounce /\ Cleared(count, NoCount)[j] # Debounce

\* step() on a good sample with the joints `over` above their threshold.
StepGood(over) ==
  /\ clear_requested' = FALSE
  /\ owed' = 0
  /\ observed' = Integrated
  /\ count' = IF Counted THEN Tally(over) ELSE Cleared(count, NoCount)
  /\ latched' = (Still \/ (Counted /\ Enforce /\ Crosses(over)))
  /\ streak' = IF Counted THEN Latest(Append(Cleared(streak, <<>>), over), Debounce)
               ELSE Cleared(streak, <<>>)

-----------------------------------------------------------------------------
(* Properties.                                                              *)

\* The latch trips in exactly the sample that makes Debounce trusted good
\* samples in a row with one same joint over its threshold, whatever misses,
\* bad samples, clears and new runs came between: counters that saturate, are
\* restarted and skip samples agree with that history.
TripsExactly ==
  [][~latched /\ streak' # streak =>
       (latched' <=> /\ Enforce
                     /\ Len(streak') = Debounce
                     /\ \E j \in Joint : \A i \in 1..Debounce : j \in streak'[i])]_monitor

\* Nothing but a clear brings the latch down: not a new run, a good sample or
\* a joint back under its threshold.
LatchHolds == [][latched /\ ~latched' => clear_requested]_monitor

\* While the observer settles every counter is zero, so contact seen before a
\* clear or a new run never adds to what is counted after it.
SettledBeforeCounting ==
  observed # SettleTime => count = NoCount
=============================================================================
