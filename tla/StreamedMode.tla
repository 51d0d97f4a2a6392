----------------------------- MODULE StreamedMode -----------------------------
(***************************************************************************)
(* A control mode that takes targets from another thread, and what writes   *)
(* them: JointPositionMode, JointImpedanceMode, JointVelocityMode or        *)
(* JointTorqueMode, the setpoints and the open and close of a streaming     *)
(* session, and the trajectory a goal tracks between sessions.              *)
(*                                                                          *)
(* Two threads meet here without a lock.  The writers take turns (stream_mtx_ *)
(* orders them, and sessions exclude goals), so they are one thread that    *)
(* fills the inactive buffer, publishes its index, names the source and     *)
(* bumps the watchdog.  The real-time thread enters the mode and runs its   *)
(* cycles, one atomic load at a time.  A command is its number; the number  *)
(* is also what the watchdog counts when the command is complete.  What     *)
(* moves the arm is `follow`: the command the last cycle went after, {} for *)
(* a hold where the arm is, and two numbers for a copy taken while the      *)
(* buffer was being written.  A copy that outlasts two whole writes is not  *)
(* distinguished from that one.                                             *)
(***************************************************************************)
EXTENDS CommandWatchdog, FiniteSets

CONSTANTS
  Modes,          \* the modes to look at
  Default,        \* cmd_timeout_s of every mode
  Timeouts,       \* the deadlines sessions are opened with
  IkFault,        \* ik_fault_s, in cycles
  MaxCommands     \* the commands of a behaviour

Kind == {"joint", "cartesian"}

ASSUME ModeAssumption ==
  /\ MaxStale \in Nat /\ IkFault \in Nat \ {0} /\ MaxCommands \in Nat
  /\ Modes \subseteq {"position", "impedance", "velocity", "torque"}
  /\ Default \in [Modes -> 0..MaxStale]
  /\ Timeouts \subseteq 1..MaxStale

VARIABLES
  mode,        \* which of the modes this is, never changed
  buf,         \* the two buffers of every kind, each the commands it holds parts of
  active,      \* the index published for every kind
  source,      \* source_, or "entry"
  session,     \* the kind of setpoint the open session takes, or "closed"
  wpc, cmd,    \* where the writer is, the kind it writes
  closing,     \* whether it is close_stream()
  rpc,         \* where the real-time thread is: "out" when another mode runs
  src, slot,   \* the source and the index this cycle loaded
  copied,      \* the targets the real-time thread holds
  frozen,      \* frozen_, of impedance and velocity
  lastSource, ikBad, faulted,  \* last_source_, ik_bad_s_, ik_faulted_ of position
  follow,      \* what the last cycle went after
  entered,     \* history: the commands complete when the mode was entered
  floor,       \* history: the commands complete when the cycle began
  early,       \* history: the source this cycle loaded is of a command its tick() did not count
  stopped,     \* history: the commands a stale cycle gave up
  holds        \* history: the commands that are holds

writer == <<wpc, cmd, closing, session>>
shared == <<buf, active, source>>
reader == <<src, slot, copied, frozen, lastSource, ikBad>>
history == <<entered, floor, early, stopped, holds>>
modeVars == <<watchdog, mode, shared, writer, rpc, reader, faulted, follow, history>>

Cartesian == mode # "torque"   \* it has a second kind of target
Sourced == mode # "torque"     \* it has a source_
Adopts == mode \in {"velocity", "torque"}   \* it copies a target when it is fresh only

ModeInit ==
  /\ mode \in Modes
  /\ WatchdogInit(Default[mode])
  /\ buf = [k \in Kind |-> [i \in 0..1 |-> {0}]]
  /\ active = [k \in Kind |-> 0]
  /\ source = "entry" /\ src = "entry" /\ lastSource = "entry"
  /\ session = "closed" /\ wpc = "idle" /\ cmd = "joint" /\ closing = FALSE
  /\ rpc = "out" /\ slot = 0 /\ copied = [k \in Kind |-> {}]
  /\ frozen = FALSE /\ ikBad = 0 /\ faulted = FALSE /\ follow = {}
  /\ entered = 0 /\ floor = 0 /\ early = FALSE /\ stopped = 0 /\ holds = {}
-----------------------------------------------------------------------------
(* The writers. *)

\* A setter fills the inactive buffer: a reader that copies it now gets a mix.
Fill(k) ==
  /\ wpc = "idle" /\ count < MaxCommands
  /\ buf' = [buf EXCEPT ![k][1 - active[k]] = @ \cup {count + 1}]
  /\ wpc' = "publish" /\ cmd' = k

\* on_stream_open: the deadline becomes the mode's timeout, then the session opens.
Open(k, t) ==
  /\ wpc = "idle" /\ session = "closed"
  /\ k = "cartesian" => Cartesian
  /\ Arm(t)
  /\ session' = k
  /\ UNCHANGED <<mode, shared, wpc, cmd, closing, rpc, reader, faulted, follow, history>>

\* on_setpoint_*: a setpoint of the session's kind.
Setpoint ==
  /\ session # "closed" /\ Fill(session)
  /\ UNCHANGED <<watchdog, mode, active, source, closing, session, rpc, reader, faulted, follow, history>>

\* The executor's target for a goal, which no session runs beside.
Track ==
  /\ session = "closed" /\ mode \in {"position", "impedance"} /\ Fill("joint")
  /\ UNCHANGED <<watchdog, mode, active, source, closing, session, rpc, reader, faulted, follow, history>>

\* Mutant: the close leaves the hold to the mode.
MutClose ==
  /\ session # "closed" /\ wpc = "idle"
  /\ session' = "closed" /\ closing' = TRUE
  /\ wpc' = "restore"
  /\ UNCHANGED <<watchdog, mode, shared, cmd, rpc, reader, faulted, follow, history>>

\* close_stream: a hold is written before the watchdog goes back to its default.
\* Velocity holds with a zero velocity, torque has nothing to write.
Close ==
  /\ session # "closed" /\ wpc = "idle"
  /\ session' = "closed" /\ closing' = TRUE
  /\ IF mode = "torque"
     THEN wpc' = "restore" /\ UNCHANGED <<buf, cmd, holds>>
     ELSE Fill("joint") /\ holds' = holds \cup {count + 1}
  /\ UNCHANGED <<watchdog, mode, active, source, rpc, reader, faulted, follow, entered, floor, early, stopped>>

Publish ==
  /\ wpc = "publish"
  /\ LET i == 1 - active[cmd]
     IN /\ buf' = [buf EXCEPT ![cmd][i] = {count + 1}]
        /\ active' = [active EXCEPT ![cmd] = i]
  /\ wpc' = IF Sourced THEN "source" ELSE "bump"
  /\ UNCHANGED <<watchdog, mode, source, cmd, closing, session, rpc, reader, faulted, follow, history>>

NameSource ==
  /\ wpc = "source"
  /\ source' = cmd
  /\ wpc' = "bump"
  /\ UNCHANGED <<watchdog, mode, buf, active, cmd, closing, session, rpc, reader, faulted, follow, history>>

BumpLast ==
  /\ wpc = "bump"
  /\ Bump
  /\ wpc' = IF closing THEN "restore" ELSE "idle"
  /\ UNCHANGED <<mode, shared, cmd, closing, session, rpc, reader, faulted, follow, history>>

\* close_stream: set_command_timeout(-1).
Restore ==
  /\ wpc = "restore"
  /\ Arm(Default[mode])
  /\ wpc' = "clear"
  /\ UNCHANGED <<mode, shared, cmd, closing, session, rpc, reader, faulted, follow, history>>

\* close_stream: clear_ik_fault(), whichever mode runs.
ClearIkFault ==
  /\ wpc = "clear"
  /\ faulted' = FALSE
  /\ wpc' = "idle" /\ closing' = FALSE
  /\ UNCHANGED <<watchdog, mode, shared, cmd, session, rpc, reader, follow, history>>
-----------------------------------------------------------------------------
(* The real-time thread. *)

\* Mutant: the source of the last session stays.
MutEnter ==
  /\ rpc = "out"
  /\ copied' = [k \in Kind |-> {}]
  /\ frozen' = FALSE /\ lastSource' = "entry" /\ ikBad' = 0
  /\ faulted' = IF mode = "position" THEN FALSE ELSE faulted
  /\ rpc' = "entering" /\ entered' = count
  /\ UNCHANGED <<watchdog, mode, shared, writer, src, slot, follow, floor, early, stopped, holds>>

\* on_enter up to the watchdog.
Enter ==
  /\ rpc = "out"
  /\ source' = IF Sourced THEN "entry" ELSE source
  /\ copied' = [k \in Kind |-> {}]
  /\ frozen' = FALSE /\ lastSource' = "entry" /\ ikBad' = 0
  /\ faulted' = IF mode = "position" THEN FALSE ELSE faulted
  /\ rpc' = "entering" /\ entered' = count
  /\ UNCHANGED <<watchdog, mode, buf, active, writer, src, slot, follow, floor, early, stopped, holds>>

EnterReset ==
  /\ rpc = "entering"
  /\ Reset
  /\ rpc' = "cycle" /\ follow' = {} /\ floor' = count
  /\ UNCHANGED <<mode, shared, writer, reader, faulted, entered, early, stopped, holds>>

\* Another mode takes over, or the run ends.
Leave ==
  /\ rpc = "cycle"
  /\ rpc' = "out" /\ follow' = {}
  /\ UNCHANGED <<watchdog, mode, shared, writer, reader, faulted, history>>

\* compute() begins: tick() looks at the counter.
Cycle ==
  /\ rpc = "cycle"
  /\ Tick
  /\ floor' = count /\ early' = FALSE /\ rpc' = "age"
  /\ UNCHANGED <<mode, shared, writer, reader, faulted, follow, entered, stopped, holds>>

\* The freeze of impedance and velocity is released by a fresh command only.
Frozen == mode \in {"impedance", "velocity"} /\ (Stale \/ (frozen /\ ~fresh))

\* tick() loads the timeout.  Position holds while it is stale, torque decays.
StaleCycle ==
  /\ rpc = "age" /\ Stale
  /\ stopped' = last_seen
  /\ frozen' = Frozen
  /\ ikBad' = IF mode = "position" THEN 0 ELSE ikBad
  /\ rpc' = IF mode \in {"position", "torque"} THEN "cycle" ELSE "source"
  /\ follow' = IF mode \in {"position", "torque"} THEN {} ELSE follow
  /\ UNCHANGED <<watchdog, mode, shared, writer, src, slot, copied, lastSource, faulted, entered, floor, early, holds>>

\* Torque reads its buffer when the counter moved, and else applies what it has.
LiveCycle ==
  /\ rpc = "age" /\ ~Stale
  /\ frozen' = Frozen
  /\ IF Sourced THEN rpc' = "source" /\ UNCHANGED <<src, follow>>
     ELSE /\ src' = "joint"
          /\ rpc' = IF fresh THEN "index" ELSE "cycle"
          /\ follow' = IF fresh THEN follow ELSE copied["joint"]
  /\ UNCHANGED <<watchdog, mode, shared, writer, slot, copied, lastSource, ikBad, faulted, history>>

\* compute() loads source_.  Position starts a pose session clean.
LoadSource ==
  /\ rpc = "source"
  /\ src' = source
  /\ early' = (count > last_seen \/ wpc = "bump")
  /\ LET first == mode = "position" /\ source = "cartesian" /\ lastSource # "cartesian"
     IN /\ ikBad' = IF first THEN 0 ELSE ikBad
        /\ faulted' = IF first THEN FALSE ELSE faulted
  /\ lastSource' = IF mode = "position" THEN source ELSE lastSource
  /\ IF frozen \/ source = "entry"
     THEN rpc' = "cycle" /\ follow' = {}
     ELSE IF mode = "velocity" /\ ~fresh
     THEN rpc' = "cycle" /\ follow' = copied[source]
     ELSE rpc' = "index" /\ UNCHANGED follow
  /\ UNCHANGED <<watchdog, mode, shared, writer, slot, copied, frozen, entered, floor, stopped, holds>>

LoadIndex ==
  /\ rpc = "index"
  /\ slot' = active[src]
  /\ rpc' = "copy"
  /\ UNCHANGED <<watchdog, mode, shared, writer, src, copied, frozen, lastSource, ikBad, faulted, follow, history>>

Copy ==
  /\ rpc = "copy"
  /\ LET target == buf[src][slot]
         solves == mode = "position" /\ src = "cartesian"
     IN /\ copied' = IF Adopts \/ solves THEN [copied EXCEPT ![src] = target] ELSE copied
        /\ rpc' = IF solves THEN "solve" ELSE "cycle"
        /\ follow' = IF solves THEN follow ELSE target
  /\ UNCHANGED <<watchdog, mode, shared, writer, src, slot, frozen, lastSource, ikBad, faulted, history>>

\* Position resolves a pose; a solve that keeps failing is a fault, and freezes.
Solve(converged) ==
  /\ rpc = "solve"
  /\ ikBad' = IF converged THEN 0 ELSE IF ikBad < IkFault THEN ikBad + 1 ELSE IkFault
  /\ faulted' = (faulted \/ (~converged /\ ikBad + 1 >= IkFault))
  /\ rpc' = "cycle"
  /\ follow' = IF faulted' THEN {} ELSE copied["cartesian"]
  /\ UNCHANGED <<watchdog, mode, shared, writer, src, slot, copied, frozen, lastSource, history>>
-----------------------------------------------------------------------------
Write ==
  \/ \E k \in Kind, t \in Timeouts : Open(k, t)
  \/ Setpoint \/ Track \/ Close
  \/ Publish \/ NameSource \/ BumpLast \/ Restore \/ ClearIkFault

Read ==
  \/ Enter \/ EnterReset \/ Leave \/ Cycle \/ StaleCycle \/ LiveCycle
  \/ LoadSource \/ LoadIndex \/ Copy \/ \E converged \in BOOLEAN : Solve(converged)

ModeNext == Write \/ Read

ModeSpec == ModeInit /\ [][ModeNext]_modeVars
-----------------------------------------------------------------------------
Command == 0..MaxCommands

\* Every variable has its type, and the parts of a buffer are commands that
\* were begun.
ModeTypeOK ==
  /\ WatchdogType /\ count <= MaxCommands
  /\ wpc \in {"publish", "source", "bump"} => count < MaxCommands
  /\ mode \in Modes
  /\ buf \in [Kind -> [0..1 -> SUBSET Command]] /\ active \in [Kind -> 0..1]
  /\ source \in Kind \cup {"entry"} /\ src \in Kind \cup {"entry"} /\ slot \in 0..1
  /\ lastSource \in Kind \cup {"entry"}
  /\ session \in Kind \cup {"closed"} /\ cmd \in Kind /\ closing \in BOOLEAN
  /\ wpc \in {"idle", "publish", "source", "bump", "restore", "clear"}
  /\ rpc \in {"out", "entering", "cycle", "age", "source", "index", "copy", "solve"}
  /\ rpc \in {"index", "copy"} => src \in Kind
  /\ copied \in [Kind -> SUBSET Command] /\ follow \subseteq Command
  /\ frozen \in BOOLEAN /\ faulted \in BOOLEAN /\ early \in BOOLEAN /\ ikBad \in 0..IkFault
  /\ entered \in 0..count /\ floor \in 0..count /\ stopped \in 0..count /\ holds \subseteq Command

\* What the arm goes after at the end of a cycle is as new as the cycle can know:
\* never a command that was complete when the mode was entered, and none older
\* than the last one complete when the cycle began ("latest setter wins").  The
\* one exception is velocity, in a cycle that sees the source of a command its
\* watchdog has not counted: it runs the last target of that kind once more.
FollowsLatest ==
  rpc = "cycle" =>
    \A n \in follow : n > entered /\ (n >= floor \/ (mode = "velocity" /\ early))

\* A setpoint given up because its stream stopped is never followed again, not
\* when the session is closed and the watchdog disarmed either.
StoppedForGood ==
  rpc = "cycle" => \A n \in follow : n > stopped \/ n \in holds

\* The same for the modes that hold or latch; with velocity's exception.
StaleStaysHeld ==
  mode # "torque" /\ ~(mode = "velocity" /\ early) => StoppedForGood

(* Two things the code comes close to and does not guarantee: TLC finds a      *)
(* counterexample to each within 30 steps.                                     *)

\* A cycle follows one command, not a mix of two: not so when two setters run
\* between the load of an index and the copy behind it.
ReadsWhole ==
  rpc = "cycle" => Cardinality(follow) <= 1

\* An IK fault is the pose session's that had it: not so when a solve outlasts
\* the close that cleared the fault.
FaultIsThisSessions ==
  mode = "position" /\ session = "joint" => ~faulted
=============================================================================
